---------------------------- MODULE OutPkt_proofs ----------------------------
(***************************************************************************)
(* For any number of destinations, messages and crashes, any limit and any *)
(* of the faults: the open files of common/outpkt.c are counted and        *)
(* limited, the freed list is never walked, no two entries share a packet, *)
(* what becomes a .pkt file is a whole packet, and the packets of every    *)
(* destination are those that PacketSpool promises.                        *)
(***************************************************************************)
EXTENDS OutPkt, FiniteSetTheorems, SequenceTheorems, WellFoundedInduction, TLAPS

Busy == {"fopen", "write", "close", "rename", "free"}

\* What the actions need of the state: the shape of the list, and where an
\* entry's stream stands at each control point.
Shape ==
  /\ list \in Seq(Entry)
  /\ nopen \in Int /\ cur \in Nat /\ nseq \in Nat /\ nmsg \in Nat
  /\ closing \in BOOLEAN
  /\ pc \in Busy \cup {"idle", "next"}
  /\ pc \in Busy => cur \in 1 .. Len(list)
  /\ pc = "next" => cur \in Nat \ {0}
  /\ pc = "fopen" => list[cur].fp = NULL
  /\ pc \in {"write", "close"} => list[cur].fp = OPEN
  /\ pc \in {"idle", "write"} => ~closing
  /\ pc \in {"next", "close", "rename", "free"} => closing

Counted == nopen = Cardinality(Open) /\ nopen <= MaxOpen

\* Stronger than FreedListNotWalked: room for one more stream from the moment
\* outpkt_close() has closed its first one.
RoomOnceFreed ==
  \/ pc \in {"next", "fopen"} /\ closing /\ cur > 1
  \/ pc \in {"rename", "free"}
  => nopen < MaxOpen

Numbered == \A i \in DOMAIN list : list[i].seq <= nseq

IInv == Shape /\ Counted /\ RoomOnceFreed /\ Numbered /\ OneEntryPerPacket

-----------------------------------------------------------------------------
\* The fields of an entry, and of one that has some of them changed.
LEMMA EntryFields ==
  ASSUME NEW e \in Entry
  PROVE  /\ e.key \in Key /\ e.seq \in Nat /\ e.n \in Nat
         /\ e.fp \in {NULL, OPEN} /\ e.buf \in Seq(Int)
BY DEF Entry

LEMMA EntryCounted ==
  ASSUME NEW e \in Entry
  PROVE  /\ [e EXCEPT !.n = @ + 1] \in Entry
         /\ [e EXCEPT !.n = @ + 1].key = e.key
         /\ [e EXCEPT !.n = @ + 1].seq = e.seq
         /\ [e EXCEPT !.n = @ + 1].fp = e.fp
<1>1. e.n + 1 \in Nat  BY EntryFields
<1> QED  BY <1>1 DEF Entry

LEMMA EntryStream ==
  ASSUME NEW e \in Entry, NEW f \in {NULL, OPEN}, NEW b \in Seq(Int)
  PROVE  /\ [e EXCEPT !.fp = f, !.buf = b] \in Entry
         /\ [e EXCEPT !.fp = f, !.buf = b].key = e.key
         /\ [e EXCEPT !.fp = f, !.buf = b].seq = e.seq
         /\ [e EXCEPT !.fp = f, !.buf = b].fp = f
BY DEF Entry

\* The entries with an open stream are finitely many.
LEMMA OpenFinite == ASSUME list \in Seq(Entry) PROVE IsFiniteSet(Open)
<1>1. Open \subseteq 1 .. Len(list)  BY DEF Open
<1>2. IsFiniteSet(1 .. Len(list))  BY FS_Interval
<1> QED  BY <1>1, <1>2, FS_Subset

\* Opening the stream of an entry adds one to their number.
LEMMA OpenOne ==
  ASSUME list \in Seq(Entry), list' \in Seq(Entry),
         NEW i \in DOMAIN list, DOMAIN list' = DOMAIN list,
         list[i].fp # OPEN, list'[i].fp = OPEN,
         \A j \in DOMAIN list : j # i => list'[j].fp = list[j].fp
  PROVE  Cardinality(Open') = Cardinality(Open) + 1
<1>1. Open' = Open \cup {i} /\ i \notin Open  BY DEF Open
<1> QED  BY <1>1, OpenFinite, FS_AddElement

\* Closing it takes one away.
LEMMA CloseOne ==
  ASSUME list \in Seq(Entry), list' \in Seq(Entry),
         NEW i \in DOMAIN list, DOMAIN list' = DOMAIN list,
         list[i].fp = OPEN, list'[i].fp # OPEN,
         \A j \in DOMAIN list : j # i => list'[j].fp = list[j].fp
  PROVE  Cardinality(Open') = Cardinality(Open) - 1
<1>1. Open' = Open \ {i} /\ i \in Open  BY DEF Open
<1>2. Cardinality(Open') = Cardinality(Open) - 1
  BY <1>1, OpenFinite, FS_RemoveElement
<1> QED  BY <1>2

\* With no stream open the count is zero, with one it is positive.
LEMMA OpenPositive ==
  ASSUME list \in Seq(Entry)
  PROVE  /\ Cardinality(Open) \in Nat
         /\ Cardinality(Open) = 0 <=> Open = {}
BY OpenFinite, FS_CardinalityType, FS_EmptySet

-----------------------------------------------------------------------------
LEMMA InitIInv == Init => IInv
<1> SUFFICES ASSUME Init PROVE IInv  OBVIOUS
<1>1. list = <<>> /\ DOMAIN list = {} /\ pc = "idle" /\ ~closing  BY DEF Init
<1>2. Cardinality(Open) = 0  BY <1>1, FS_EmptySet DEF Open
<1>3. Shape
  <2>1. list \in Seq(Entry)  BY <1>1
  <2>2. pc \notin Busy \cup {"next"}  BY <1>1 DEF Busy
  <2>4. /\ nopen = 0 /\ cur = 0 /\ nseq = 0 /\ nmsg = 0 /\ closing = FALSE
        /\ pc = "idle"
    BY DEF Init
  <2>5. closing \in BOOLEAN /\ ~closing  BY <2>4
  <2>6. nopen \in Int /\ cur \in Nat /\ nseq \in Nat /\ nmsg \in Nat  BY <2>4
  <2>7. pc \notin {"write", "close", "rename", "free", "fopen"}  BY <2>4
  <2>8. pc \in Busy \cup {"idle", "next"} /\ pc # "next"  BY <2>4
  <2> QED  BY <2>1, <2>2, <2>5, <2>6, <2>7, <2>8 DEF Shape
<1>4. Counted  BY <1>2, ConstantsAssumption DEF Init, Counted
<1> QED  BY <1>1, <1>3, <1>4 DEF IInv, RoomOnceFreed, Numbered, OneEntryPerPacket

\* What the steps that change one entry, and not its key or number, keep.
LEMMA EntryKept ==
  ASSUME IInv, NEW i \in DOMAIN list, NEW e \in Entry,
         list' = [list EXCEPT ![i] = e],
         e.key = list[i].key, e.seq = list[i].seq,
         nseq' = nseq
  PROVE  /\ list' \in Seq(Entry)
         /\ DOMAIN list' = DOMAIN list /\ Len(list') = Len(list)
         /\ \A j \in DOMAIN list : j # i => list'[j] = list[j]
         /\ list'[i] = e
         /\ Numbered' /\ OneEntryPerPacket'
<1>1. list \in Seq(Entry)  BY DEF IInv, Shape
<1>2. list' \in Seq(Entry) /\ DOMAIN list' = DOMAIN list /\ Len(list') = Len(list)
  BY <1>1
<1>3. list'[i] = e /\ \A j \in DOMAIN list : j # i => list'[j] = list[j]
  BY <1>1
<1>4. Numbered' /\ OneEntryPerPacket'
  BY <1>2, <1>3 DEF IInv, Numbered, OneEntryPerPacket
<1> QED  BY <1>2, <1>3, <1>4 DEF IInv, Shape
-----------------------------------------------------------------------------
\* An action that leaves the list, the counter and the numbers alone.
LEMMA ListKept ==
  ASSUME IInv, UNCHANGED <<list, nopen, nseq>>
  PROVE  Counted' /\ Numbered' /\ OneEntryPerPacket'
BY DEF IInv, Counted, Numbered, OneEntryPerPacket, Open

LEMMA OpenFoundKeeps == ASSUME NEW k \in Key, IInv, OpenFound(k) PROVE IInv'
<1>1. PICK i \in Find(k) :
        /\ list' = [list EXCEPT ![i].n = @ + 1]
        /\ cur' = i
        /\ pc' = IF list[i].fp = NULL THEN "fopen" ELSE "write"
  BY DEF OpenFound
<1> DEFINE e == [list[i] EXCEPT !.n = @ + 1]
<1>2. list \in Seq(Entry) /\ i \in DOMAIN list /\ list[i] \in Entry
  BY DEF IInv, Shape, Find
<1>3. e \in Entry /\ e.key = list[i].key /\ e.seq = list[i].seq /\ e.fp = list[i].fp
  BY <1>2, EntryCounted
<1>4. list' = [list EXCEPT ![i] = e]  BY <1>1
<1>5. nseq' = nseq /\ nopen' = nopen /\ ~closing' /\ ~closing
  BY <1>2 DEF IInv, Shape, OpenFound
<1> HIDE DEF e
<1>6. /\ list' \in Seq(Entry)
      /\ DOMAIN list' = DOMAIN list /\ Len(list') = Len(list)
      /\ \A j \in DOMAIN list : j # i => list'[j] = list[j]
      /\ list'[i] = e
      /\ Numbered' /\ OneEntryPerPacket'
  BY <1>2, <1>3, <1>4, <1>5, EntryKept
<1>7. Open' = Open  BY <1>3, <1>6 DEF Open
<1>8. Counted'  BY <1>5, <1>7 DEF IInv, Counted
<1>9. Shape'
  <2>1. list[i].fp \in {NULL, OPEN}  BY <1>2, EntryFields
  <2> QED  BY <1>1, <1>2, <1>3, <1>5, <1>6, <2>1 DEF IInv, Shape, OpenFound, Busy
<1>10. RoomOnceFreed'  BY <1>1, <1>5 DEF RoomOnceFreed
<1> QED  BY <1>6, <1>8, <1>9, <1>10 DEF IInv

LEMMA OpenNewKeeps == ASSUME NEW k \in Key, IInv, OpenNew(k) PROVE IInv'
<1> DEFINE e == [key |-> k, seq |-> nseq', n |-> 1, fp |-> NULL, buf |-> <<>>]
<1>1. /\ list' = Append(list, e) /\ cur' = Len(list') /\ nseq' = nseq + 1
      /\ pc' = "fopen" /\ UNCHANGED <<nopen, closing, nmsg>>
  BY DEF OpenNew
<1>2. list \in Seq(Entry) /\ nseq \in Nat /\ ~closing
  BY DEF IInv, Shape, OpenNew
<1>3. e \in Entry /\ e.key = k /\ e.seq = nseq + 1 /\ e.fp = NULL
  BY <1>1, <1>2 DEF Entry
<1> HIDE DEF e
<1>4. /\ list' \in Seq(Entry) /\ Len(list') = Len(list) + 1
      /\ DOMAIN list = 1 .. Len(list) /\ DOMAIN list' = 1 .. Len(list) + 1
      /\ \A i \in 1 .. Len(list) : list'[i] = list[i]
      /\ list'[Len(list) + 1] = e /\ Len(list) \in Nat
  BY <1>1, <1>2, <1>3
<1>5. Open' = Open  BY <1>3, <1>4 DEF Open, NULL, OPEN
<1>6. Counted'  BY <1>1, <1>5 DEF IInv, Counted
<1>7. Shape'
  BY <1>1, <1>2, <1>3, <1>4 DEF IInv, Shape, Busy, NULL
<1>8. RoomOnceFreed'  BY <1>1, <1>2 DEF RoomOnceFreed
<1>9. Numbered'
  <2>1. \A i \in 1 .. Len(list) : list[i].seq \in Nat /\ list[i].seq <= nseq
    <3>1. \A i \in 1 .. Len(list) : list[i] \in Entry  BY <1>2
    <3> QED  BY <1>4, <3>1, EntryFields DEF IInv, Numbered
  <2> QED  BY <1>1, <1>2, <1>3, <1>4, <2>1 DEF Numbered
<1>10. OneEntryPerPacket'
  <2>1. \A i \in 1 .. Len(list) :
          list[i].key # k /\ list[i].seq \in Nat /\ list[i].seq # nseq + 1
    <3>1. \A i \in 1 .. Len(list) : list[i] \in Entry  BY <1>2
    <3>2. \A i \in 1 .. Len(list) : list[i].key # k  BY <1>4 DEF OpenNew, Find
    <3>3. \A i \in 1 .. Len(list) : list[i].seq \in Nat  BY <3>1, EntryFields
    <3>4. \A i \in 1 .. Len(list) : list[i].seq <= nseq
      BY <1>4 DEF IInv, Numbered
    <3> QED  BY <1>2, <3>2, <3>3, <3>4
  <2> QED  BY <1>2, <1>3, <1>4, <2>1 DEF IInv, OneEntryPerPacket
<1> QED  BY <1>6, <1>7, <1>8, <1>9, <1>10 DEF IInv

\* Closing the stream of one entry, wherever that happens.
LEMMA StreamClosed ==
  ASSUME IInv, NEW i \in DOMAIN list, list[i].fp = OPEN,
         list' = [list EXCEPT ![i].fp = NULL, ![i].buf = <<>>],
         nopen' = nopen - 1, nseq' = nseq
  PROVE  /\ list' \in Seq(Entry) /\ Len(list') = Len(list)
         /\ \A j \in DOMAIN list : j # i => list'[j] = list[j]
         /\ list'[i].fp = NULL
         /\ Counted' /\ Numbered' /\ OneEntryPerPacket'
         /\ nopen' \in Int /\ nopen' < MaxOpen
<1> DEFINE e == [list[i] EXCEPT !.fp = NULL, !.buf = <<>>]
<1>1. list \in Seq(Entry) /\ list[i] \in Entry /\ nopen \in Int  BY DEF IInv, Shape
<1>2. e \in Entry /\ e.key = list[i].key /\ e.seq = list[i].seq /\ e.fp = NULL
  <2>1. NULL \in {NULL, OPEN} /\ <<>> \in Seq(Int)  OBVIOUS
  <2> QED  BY <1>1, <2>1, EntryStream
<1>3. list' = [list EXCEPT ![i] = e]  OBVIOUS
<1> HIDE DEF e
<1>4. /\ list' \in Seq(Entry)
      /\ DOMAIN list' = DOMAIN list /\ Len(list') = Len(list)
      /\ \A j \in DOMAIN list : j # i => list'[j] = list[j]
      /\ list'[i] = e
      /\ Numbered' /\ OneEntryPerPacket'
  BY <1>2, <1>3, EntryKept
<1>5. list'[i].fp # OPEN  BY <1>2, <1>4 DEF NULL, OPEN
<1>6. Cardinality(Open') = Cardinality(Open) - 1
  BY <1>1, <1>4, <1>5, CloseOne
<1>7. Counted' /\ nopen' < MaxOpen
  BY <1>1, <1>6, ConstantsAssumption DEF IInv, Counted
<1> QED  BY <1>1, <1>2, <1>4, <1>7

LEMMA CloseLnKeeps == ASSUME IInv, CloseLn PROVE IInv'
<1>1. /\ pc = "fopen" /\ nopen >= MaxOpen /\ list \in Seq(Entry)
      /\ nopen \in Int /\ cur \in 1 .. Len(list) /\ list[cur].fp = NULL
      /\ UNCHANGED <<cur, closing, nseq, nmsg>>
  BY DEF IInv, Shape, CloseLn, Busy
<1>2. Open # {}
  BY <1>1, OpenPositive, ConstantsAssumption DEF IInv, Counted
<1>3. PICK i \in Open, ok \in BOOLEAN :
        /\ list' = [list EXCEPT ![i].fp = NULL, ![i].buf = <<>>]
        /\ nopen' = nopen - 1
        /\ IF ok THEN UNCHANGED <<pc, failed>> ELSE FopenFails
  BY <1>2 DEF CloseLn
<1>4. i \in DOMAIN list /\ list[i].fp = OPEN /\ i # cur
  BY <1>1 DEF Open, NULL, OPEN
<1>5. /\ list' \in Seq(Entry) /\ Len(list') = Len(list)
      /\ \A j \in DOMAIN list : j # i => list'[j] = list[j]
      /\ Counted' /\ Numbered' /\ OneEntryPerPacket'
      /\ nopen' \in Int /\ nopen' < MaxOpen
  BY <1>1, <1>3, <1>4, StreamClosed
<1>6. list'[cur'].fp = NULL  BY <1>1, <1>4, <1>5
<1>7. \/ pc' = "fopen"
      \/ pc' = "free" /\ closing
      \/ pc' = "idle" /\ ~closing
  BY <1>1, <1>3 DEF FopenFails
<1>8. Shape'
  BY <1>1, <1>5, <1>6, <1>7 DEF IInv, Shape, Busy
<1> QED  BY <1>5, <1>8 DEF IInv, RoomOnceFreed

LEMMA FopenKeeps == ASSUME IInv, Fopen PROVE IInv'
<1>1. /\ pc = "fopen" /\ nopen < MaxOpen /\ list \in Seq(Entry)
      /\ nopen \in Int /\ cur \in 1 .. Len(list) /\ list[cur].fp = NULL
      /\ UNCHANGED <<cur, closing, nseq, nmsg>>
  BY DEF IInv, Shape, Fopen, Busy
<1>2. CASE FopenFails /\ UNCHANGED <<list, nopen>>
  <2>1. Counted' /\ Numbered' /\ OneEntryPerPacket'  BY <1>1, <1>2, ListKept
  <2>2. \/ pc' = "free" /\ closing
        \/ pc' = "idle" /\ ~closing
    BY <1>2 DEF FopenFails
  <2>3. Shape'  BY <1>1, <1>2, <2>2 DEF IInv, Shape, Busy
  <2> QED  BY <1>1, <1>2, <2>1, <2>2, <2>3 DEF IInv, RoomOnceFreed
<1>3. CASE /\ nopen' = nopen + 1
           /\ list' = [list EXCEPT
                ![cur].fp = OPEN,
                ![cur].buf = IF mode = "w" THEN <<HDR>> ELSE <<>>]
           /\ pc' = IF closing THEN "close" ELSE "write"
  <2> DEFINE b == IF mode = "w" THEN <<HDR>> ELSE <<>>
             e == [list[cur] EXCEPT !.fp = OPEN, !.buf = b]
  <2>1. b \in Seq(Int)  BY DEF HDR
  <2>2. cur \in DOMAIN list /\ list[cur] \in Entry  BY <1>1
  <2>3. list' = [list EXCEPT ![cur] = e]  BY <1>3
  <2> HIDE DEF b
  <2>4. e \in Entry /\ e.key = list[cur].key /\ e.seq = list[cur].seq /\ e.fp = OPEN
    BY <2>1, <2>2, EntryStream
  <2> HIDE DEF e
  <2>6. /\ list' \in Seq(Entry)
        /\ DOMAIN list' = DOMAIN list /\ Len(list') = Len(list)
        /\ \A j \in DOMAIN list : j # cur => list'[j] = list[j]
        /\ list'[cur] = e
        /\ Numbered' /\ OneEntryPerPacket'
    BY <1>1, <2>2, <2>3, <2>4, EntryKept
  <2>7. list[cur].fp # OPEN  BY <1>1 DEF NULL, OPEN
  <2>8. Cardinality(Open') = Cardinality(Open) + 1
    BY <1>1, <2>2, <2>4, <2>6, <2>7, OpenOne
  <2>9. Counted'  BY <1>1, <1>3, <2>8, ConstantsAssumption DEF IInv, Counted
  <2>10. Shape'  BY <1>1, <1>3, <2>4, <2>6 DEF IInv, Shape, Busy
  <2>11. RoomOnceFreed'  BY <1>3 DEF RoomOnceFreed
  <2> QED  BY <2>6, <2>9, <2>10, <2>11 DEF IInv
<1> QED  BY <1>2, <1>3 DEF Fopen

LEMMA WriteKeeps == ASSUME IInv, Write PROVE IInv'
<1>1. /\ pc = "write" /\ ~closing /\ list \in Seq(Entry) /\ nmsg \in Nat
      /\ cur \in DOMAIN list /\ list[cur] \in Entry /\ list[cur].fp = OPEN
      /\ pc' = "idle" /\ nmsg' = nmsg + 1
      /\ UNCHANGED <<nopen, cur, closing, nseq>>
  BY DEF IInv, Shape, Write, Busy
<1>2. PICK flush \in BOOLEAN, ok \in BOOLEAN :
        list' = [list EXCEPT ![cur].buf =
                   IF flush THEN <<>>
                   ELSE Append(list[cur].buf, IF ok THEN nmsg + 1 ELSE CUT)]
  BY DEF Write
<1> DEFINE b == IF flush THEN <<>>
                ELSE Append(list[cur].buf, IF ok THEN nmsg + 1 ELSE CUT)
           e == [list[cur] EXCEPT !.fp = OPEN, !.buf = b]
<1>3. b \in Seq(Int)
  <2>1. list[cur].buf \in Seq(Int)  BY <1>1, EntryFields
  <2>2. (IF ok THEN nmsg + 1 ELSE CUT) \in Int  BY <1>1 DEF CUT
  <2> QED  BY <2>1, <2>2
<1>4. list' = [list EXCEPT ![cur] = e]
  <2>1. [list[cur] EXCEPT !.buf = b] = e  BY <1>1 DEF Entry
  <2> QED  BY <1>2, <2>1
<1> HIDE DEF b
<1>5. e \in Entry /\ e.key = list[cur].key /\ e.seq = list[cur].seq /\ e.fp = OPEN
  BY <1>1, <1>3, EntryStream
<1> HIDE DEF e
<1>6. /\ list' \in Seq(Entry)
      /\ DOMAIN list' = DOMAIN list /\ Len(list') = Len(list)
      /\ \A j \in DOMAIN list : j # cur => list'[j] = list[j]
      /\ list'[cur] = e
      /\ Numbered' /\ OneEntryPerPacket'
  BY <1>1, <1>4, <1>5, EntryKept
<1>7. Open' = Open  BY <1>1, <1>5, <1>6 DEF Open
<1>8. Counted'  BY <1>1, <1>7 DEF IInv, Counted
<1>9. Shape'  BY <1>1, <1>6 DEF IInv, Shape, Busy
<1>10. RoomOnceFreed'  BY <1>1 DEF RoomOnceFreed
<1> QED  BY <1>6, <1>8, <1>9, <1>10 DEF IInv

LEMMA StartCloseKeeps == ASSUME IInv, StartClose PROVE IInv'
<1>1. UNCHANGED <<list, nopen, nseq, nmsg>> /\ cur' = 1 /\ pc' = "next" /\ closing' = TRUE
  BY DEF StartClose
<1>2. Counted' /\ Numbered' /\ OneEntryPerPacket'  BY <1>1, ListKept
<1>3. Shape'  BY <1>1 DEF IInv, Shape, Busy
<1>4. RoomOnceFreed'  BY <1>1 DEF RoomOnceFreed
<1> QED  BY <1>2, <1>3, <1>4 DEF IInv

LEMMA NextEntryKeeps == ASSUME IInv, NextEntry PROVE IInv'
<1>1. /\ pc = "next" /\ cur <= Len(list) /\ closing /\ cur \in Nat \ {0}
      /\ list \in Seq(Entry)
      /\ UNCHANGED <<list, nopen, nseq, nmsg, cur, closing>>
      /\ pc' = IF list[cur].fp = NULL THEN "fopen" ELSE "close"
  BY DEF NextEntry, IInv, Shape
<1>2. Counted' /\ Numbered' /\ OneEntryPerPacket'  BY <1>1, ListKept
<1>3. cur \in 1 .. Len(list) /\ list[cur] \in Entry  BY <1>1
<1>4. list[cur].fp \in {NULL, OPEN}
  BY <1>1, <1>3, EntryFields DEF IInv, Shape
<1>5. Shape'  BY <1>1, <1>3, <1>4 DEF IInv, Shape, Busy
<1>6. RoomOnceFreed'  BY <1>1 DEF IInv, RoomOnceFreed
<1> QED  BY <1>2, <1>5, <1>6 DEF IInv

LEMMA CloseEntryKeeps == ASSUME IInv, CloseEntry PROVE IInv'
<1>1. /\ pc = "close" /\ closing /\ list \in Seq(Entry) /\ cur \in DOMAIN list
      /\ list[cur].fp = OPEN
      /\ list' = [list EXCEPT ![cur].fp = NULL, ![cur].buf = <<>>]
      /\ nopen' = nopen - 1 /\ pc' = "rename"
      /\ UNCHANGED <<cur, closing, nseq, nmsg>>
  BY DEF CloseEntry, IInv, Shape, Busy
<1>2. /\ list' \in Seq(Entry) /\ Len(list') = Len(list)
      /\ Counted' /\ Numbered' /\ OneEntryPerPacket'
      /\ nopen' \in Int /\ nopen' < MaxOpen
  BY <1>1, StreamClosed
<1>3. Shape'  BY <1>1, <1>2 DEF IInv, Shape, Busy
<1> QED  BY <1>2, <1>3 DEF IInv, RoomOnceFreed

LEMMA RenameKeeps == ASSUME IInv, Rename PROVE IInv'
<1>1. /\ pc = "rename" /\ pc' = "free"
      /\ UNCHANGED <<list, nopen, nseq, nmsg, cur, closing>>
  BY DEF Rename
<1>2. Counted' /\ Numbered' /\ OneEntryPerPacket'  BY <1>1, ListKept
<1>3. Shape'  BY <1>1 DEF IInv, Shape, Busy
<1> QED  BY <1>1, <1>2, <1>3 DEF IInv, RoomOnceFreed

LEMMA FreeKeeps == ASSUME IInv, Free PROVE IInv'
<1>1. /\ pc = "free" /\ pc' = "next" /\ cur' = cur + 1
      /\ UNCHANGED <<list, nopen, nseq, nmsg, closing>>
  BY DEF Free
<1>2. Counted' /\ Numbered' /\ OneEntryPerPacket'  BY <1>1, ListKept
<1>3. Shape'  BY <1>1 DEF IInv, Shape, Busy
<1> QED  BY <1>1, <1>2, <1>3 DEF IInv, RoomOnceFreed

\* The end of outpkt_close() and a new process both begin with an empty list.
LEMMA EmptyKeeps ==
  ASSUME IInv, list' = <<>>, nopen' = 0, pc' = "idle", cur' = 0,
         closing' = FALSE, nseq' = nseq, nmsg' = nmsg
  PROVE  IInv'
<1>1. DOMAIN list' = {} /\ list' \in Seq(Entry)  OBVIOUS
<1>2. Cardinality(Open') = 0  BY <1>1, FS_EmptySet DEF Open
<1>3. Counted'  BY <1>2, ConstantsAssumption DEF Counted
<1>4. closing' \in BOOLEAN /\ ~closing'  OBVIOUS
<1>5. pc' \in Busy \cup {"idle", "next"} /\ pc' \notin Busy /\ pc' # "next"
      /\ pc' \notin {"write", "close", "rename", "free", "fopen"}
  BY DEF Busy
<1>6. nopen' \in Int /\ cur' \in Nat /\ nseq' \in Nat /\ nmsg' \in Nat
  BY DEF IInv, Shape
<1>7. Shape'  BY <1>1, <1>4, <1>5, <1>6 DEF Shape
<1>8. RoomOnceFreed' /\ Numbered' /\ OneEntryPerPacket'
  BY <1>1, <1>4, <1>5 DEF RoomOnceFreed, Numbered, OneEntryPerPacket
<1> QED  BY <1>3, <1>7, <1>8 DEF IInv

LEMMA NextIInv == IInv /\ [Next]_vars => IInv'
<1> SUFFICES ASSUME IInv, [Next]_vars PROVE IInv'  OBVIOUS
<1>1. CASE \E k \in Key : OpenFound(k) \/ OpenNew(k)
  BY <1>1, OpenFoundKeeps, OpenNewKeeps
<1>2. CASE CloseLn  BY <1>2, CloseLnKeeps
<1>3. CASE Fopen  BY <1>3, FopenKeeps
<1>4. CASE Write  BY <1>4, WriteKeeps
<1>5. CASE StartClose  BY <1>5, StartCloseKeeps
<1>6. CASE NextEntry  BY <1>6, NextEntryKeeps
<1>7. CASE CloseEntry  BY <1>7, CloseEntryKeeps
<1>8. CASE Rename  BY <1>8, RenameKeeps
<1>9. CASE Free  BY <1>9, FreeKeeps
<1>10. CASE EndClose  BY <1>10, EmptyKeeps DEF EndClose
<1>11. CASE Crash  BY <1>11, EmptyKeeps DEF Crash
<1>12. CASE UNCHANGED vars
  <2>1. UNCHANGED <<list, nopen, nseq, nmsg, pc, cur, closing>>  BY <1>12 DEF vars
  <2>2. Counted' /\ Numbered' /\ OneEntryPerPacket'  BY <2>1, ListKept
  <2>3. Shape'  BY <2>1 DEF IInv, Shape, Busy
  <2> QED  BY <2>1, <2>2, <2>3 DEF IInv, RoomOnceFreed
<1> QED
  BY <1>1, <1>2, <1>3, <1>4, <1>5, <1>6, <1>7, <1>8, <1>9, <1>10, <1>11, <1>12
  DEF Next, Step, Done

\* Whatever fails and whenever the process is killed: outpkt_nopen counts the
\* open streams and keeps the limit, outpkt_close() never has its freed entries
\* searched, and two entries never write to one packet.
THEOREM OpenFilesSafe ==
  Spec => [](OpenFilesCounted /\ FreedListNotWalked /\ OneEntryPerPacket)
<1>1. Init => IInv  BY InitIInv
<1>2. IInv /\ [Next]_vars => IInv'  BY NextIInv
<1>3. IInv => OpenFilesCounted /\ FreedListNotWalked /\ OneEntryPerPacket
  BY DEF IInv, Counted, RoomOnceFreed, OpenFilesCounted, FreedListNotWalked
<1> QED  BY <1>1, <1>2, <1>3, PTL DEF Spec

-----------------------------------------------------------------------------
\* While nothing fails: a file that is still written to begins with a header,
\* then has messages, one at least, but for the packet outpkt_open() is making.
IsPart(c) == /\ Len(c) >= 1 /\ c[1] = HDR
             /\ \A j \in 2 .. Len(c) : c[j] \in 1 .. MaxMsg

Waits(i) == ~closing \/ cur < i \/ (cur = i /\ pc \notin {"rename", "free"})
Fresh(i) == cur = i /\ pc \in {"fopen", "write"} /\ ~closing /\ mode = "w"
Data(e)  == tmp[e.seq] \o e.buf

Unfinished(i) ==
  /\ list[i].fp = NULL => list[i].buf = <<>>
  /\ \/ Fresh(i) /\ pc = "fopen"
     \/ /\ Exists(list[i].seq) /\ IsPart(Data(list[i]))
        /\ Fresh(i) \/ Len(Data(list[i])) >= 2

Files ==
  /\ faults \in Nat
  /\ faults = 0 => \A s \in DOMAIN tmp : tmp[s] \in Seq(Int)
  /\ pc \in {"fopen", "write"} /\ ~closing => nmsg < MaxMsg
  /\ closing => mode = "a" \/ pc = "next"
Content ==
  faults = 0 =>
    /\ PublishedComplete
    /\ \A i \in DOMAIN list : Waits(i) => Unfinished(i)
    /\ pc = "rename" => Exists(list[cur].seq) /\ IsPacket(tmp[list[cur].seq])

\* A file that has been written to, or made.
LEMMA TmpSet ==
  ASSUME NEW s, NEW c, SetTmp(s, c)
  PROVE  /\ DOMAIN tmp' = DOMAIN tmp \cup {s} /\ tmp'[s] = c
         /\ \A t \in DOMAIN tmp : t # s => tmp'[t] = tmp[t]
BY DEF SetTmp

\* What is written goes behind what was there.
LEMMA Behind ==
  ASSUME NEW c \in Seq(Int), NEW b \in Seq(Int), NEW x \in Int
  PROVE  /\ (c \o b) \in Seq(Int)
         /\ c \o <<>> = c /\ (c \o b) \o <<>> = c \o b
         /\ c \o Append(b, x) = Append(c \o b, x)
OBVIOUS

\* A message makes a part longer.
LEMMA PartGrows ==
  ASSUME NEW c \in Seq(Int), IsPart(c), NEW x \in 1 .. MaxMsg
  PROVE  IsPart(Append(c, x)) /\ Len(Append(c, x)) >= 2
BY DEF IsPart

\* The 0-word makes a packet of it.
LEMMA PartEnds ==
  ASSUME NEW c \in Seq(Int), IsPart(c), Len(c) >= 2
  PROVE  IsPacket(Append(c, END))
<1>1. /\ Len(Append(c, END)) = Len(c) + 1 /\ Append(c, END)[Len(c) + 1] = END
      /\ \A j \in 1 .. Len(c) : Append(c, END)[j] = c[j]
  BY DEF END
<1>2. Len(c) \in Nat
  OBVIOUS
<1> QED  BY <1>1, <1>2 DEF IsPart, IsPacket

\* A call that fails is counted.
LEMMA OutcomeCounts ==
  ASSUME NEW call, NEW ok \in BOOLEAN, faults \in Nat, Outcome(call, ok)
  PROVE  faults' \in Nat /\ (faults' = 0 => ok /\ faults = 0)
<1>1. CASE ok
  BY <1>1 DEF Outcome
<1>2. CASE ~ok
  <2>1. faults' = faults + 1
    BY <1>2 DEF Outcome
  <2> QED  BY <2>1
<1> QED  BY <1>1, <1>2

\* An entry whose stream, buffer and file are left alone.
LEMMA LeftAlone ==
  ASSUME NEW j, Unfinished(j), Fresh(j) /\ pc = "fopen" => Fresh(j)' /\ pc' = "fopen",
         Fresh(j) => Fresh(j)' \/ pc = "fopen",
         list'[j].fp = list[j].fp, list'[j].seq = list[j].seq, list'[j].buf = list[j].buf,
         Exists(list[j].seq) => /\ list[j].seq \in DOMAIN tmp'
                                /\ tmp'[list[j].seq] = tmp[list[j].seq]
  PROVE  Unfinished(j)'
<1>1. CASE Fresh(j) /\ pc = "fopen"
  BY <1>1 DEF Unfinished
<1>2. CASE ~(Fresh(j) /\ pc = "fopen")
  <2>1. /\ Exists(list[j].seq) /\ IsPart(Data(list[j]))
        /\ Fresh(j) \/ Len(Data(list[j])) >= 2
    BY <1>2 DEF Unfinished
  <2>2. Data(list[j])' = Data(list[j]) /\ Exists(list[j].seq)'
    BY <2>1 DEF Data, Exists
  <2>3. IsPart(Data(list[j]))'
    BY <2>1, <2>2 DEF IsPart
  <2> QED  BY <1>2, <2>1, <2>2, <2>3 DEF Unfinished
<1> QED  BY <1>1, <1>2

\* What the list and the places in it are.
LEMMA EntriesAre ==
  ASSUME IInv
  PROVE  /\ list \in Seq(Entry) /\ DOMAIN list = 1 .. Len(list) /\ Len(list) \in Nat
         /\ cur \in Nat
         /\ \A j \in DOMAIN list : list[j] \in Entry /\ list[j].buf \in Seq(Int)
         /\ pc \in Busy => cur \in DOMAIN list
BY EntryFields DEF IInv, Shape

\* outpkt_open() of a destination that has an entry leaves the files alone;
LEMMA OpenFoundFiles ==
  ASSUME NEW k \in Key, IInv, Files, Content, OpenFound(k)
  PROVE  (Files /\ Content)'
<1>1. PICK i \in Find(k) :
        /\ list' = [list EXCEPT ![i].n = @ + 1]
        /\ cur' = i
        /\ pc' = IF list[i].fp = NULL THEN "fopen" ELSE "write"
  BY DEF OpenFound
<1>2. /\ pc = "idle" /\ nmsg < MaxMsg /\ mode' = "a"
      /\ UNCHANGED <<closing, tmp, pkt, nmsg, faults>> /\ ~closing
  BY DEF OpenFound, disk, IInv, Shape
<1>3. DOMAIN list' = DOMAIN list
  BY <1>1
<1>4. \A j \in DOMAIN list : /\ list'[j].fp = list[j].fp /\ list'[j].seq = list[j].seq
                             /\ list'[j].buf = list[j].buf
  BY <1>1, EntriesAre DEF Entry
<1>5. Files'
  BY <1>2 DEF Files
<1>6. ASSUME faults = 0, NEW j \in DOMAIN list PROVE Unfinished(j)'
  <2>1. Unfinished(j) /\ ~Fresh(j)
    BY <1>2, <1>6 DEF Content, Waits, Fresh
  <2> QED  BY <1>2, <1>4, <2>1, LeftAlone DEF Exists
<1>7. Content'
  BY <1>1, <1>2, <1>3, <1>6 DEF Content, PublishedComplete
<1> QED  BY <1>5, <1>7

\* a new entry has no file yet.
LEMMA OpenNewFiles ==
  ASSUME NEW k \in Key, IInv, Files, Content, OpenNew(k)
  PROVE  (Files /\ Content)'
<1> DEFINE e == [key |-> k, seq |-> nseq', n |-> 1, fp |-> NULL, buf |-> <<>>]
<1>1. /\ list' = Append(list, e) /\ cur' = Len(list') /\ mode' = "w" /\ pc' = "fopen"
      /\ pc = "idle" /\ nmsg < MaxMsg /\ ~closing
      /\ UNCHANGED <<closing, tmp, pkt, nmsg, faults>>
  BY DEF OpenNew, disk, IInv, Shape
<1>2. e.fp = NULL /\ e.buf = <<>>
  OBVIOUS
<1> HIDE DEF e
<1>3. /\ DOMAIN list' = 1 .. Len(list) + 1 /\ Len(list') = Len(list) + 1
      /\ \A j \in DOMAIN list : list'[j] = list[j]
      /\ list'[Len(list) + 1] = e
  BY <1>1, EntriesAre
<1>4. Files'
  BY <1>1 DEF Files
<1>5. ASSUME faults = 0, NEW j \in DOMAIN list' PROVE Unfinished(j)'
  <2>1. CASE j \in DOMAIN list
    <3>1. Unfinished(j) /\ ~Fresh(j)
      BY <1>1, <1>5, <2>1 DEF Content, Waits, Fresh
    <3> QED  BY <1>1, <1>3, <2>1, <3>1, LeftAlone DEF Exists
  <2>2. CASE j = Len(list) + 1
    BY <1>1, <1>2, <1>3, <2>2 DEF Unfinished, Fresh
  <2> QED  BY <1>3, <2>1, <2>2, EntriesAre
<1>6. Content'
  BY <1>1, <1>5 DEF Content, PublishedComplete
<1> QED  BY <1>4, <1>6

\* outpkt_close_ln() takes what is buffered to the file of its entry.
LEMMA CloseLnFiles ==
  ASSUME IInv, Files, Content, CloseLn
  PROVE  (Files /\ Content)'
<1>1. /\ pc = "fopen" /\ cur \in DOMAIN list /\ list[cur].fp = NULL
      /\ UNCHANGED <<cur, closing, mode, pkt, nmsg>>
      /\ Open # {}
  BY OpenPositive, ConstantsAssumption DEF CloseLn, IInv, Shape, Counted, Busy
<1>2. PICK i \in Open, ok \in BOOLEAN :
        /\ Outcome("fclose", ok) /\ Flush(i, ok)
        /\ list' = [list EXCEPT ![i].fp = NULL, ![i].buf = <<>>]
        /\ IF ok THEN UNCHANGED <<pc, failed>> ELSE FopenFails
  BY <1>1 DEF CloseLn
<1> DEFINE s == list[i].seq
<1>3. /\ i \in DOMAIN list /\ i # cur /\ list[i] \in Entry /\ list[i].buf \in Seq(Int)
      /\ DOMAIN list' = DOMAIN list /\ list'[i].fp = NULL /\ list'[i].buf = <<>>
      /\ list'[i].seq = s
      /\ \A j \in DOMAIN list : j # i => list'[j] = list[j]
  BY <1>1, <1>2, EntriesAre DEF Open, NULL, OPEN, Entry
<1>4. faults' \in Nat /\ (faults' = 0 => ok /\ faults = 0)
  BY <1>2, OutcomeCounts DEF Files
<1>5. /\ Exists(s) => SetTmp(s, tmp[s] \o (IF ok THEN list[i].buf ELSE <<CUT>>))
      /\ ~Exists(s) => UNCHANGED tmp
  BY <1>2 DEF Flush
<1>6. \A t \in DOMAIN tmp : t \in DOMAIN tmp' /\ (t # s => tmp'[t] = tmp[t])
  BY <1>5, TmpSet DEF Exists
<1>7. ASSUME faults' = 0 PROVE \A t \in DOMAIN tmp' : tmp'[t] \in Seq(Int)
  <2>1. <<CUT>> \in Seq(Int) /\ faults = 0
    BY <1>4, <1>7 DEF CUT
  <2>2. Exists(s) => (tmp[s] \o (IF ok THEN list[i].buf ELSE <<CUT>>)) \in Seq(Int)
    BY <1>3, <2>1 DEF Files, Exists
  <2>3. CASE Exists(s)
    <3> DEFINE c == tmp[s] \o (IF ok THEN list[i].buf ELSE <<CUT>>)
    <3>1. SetTmp(s, c) /\ c \in Seq(Int)
      BY <1>5, <2>2, <2>3
    <3> HIDE DEF c, s
    <3> QED  BY <2>1, <3>1 DEF SetTmp, Files
  <2>4. CASE ~Exists(s)
    BY <1>5, <2>1, <2>4 DEF Files
  <2> QED  BY <2>3, <2>4
<1>8. Files'
  BY <1>1, <1>2, <1>4, <1>7 DEF Files, FopenFails
<1>9. ASSUME faults' = 0, NEW j \in DOMAIN list, Waits(j)' PROVE Unfinished(j)'
  <2>1. /\ Waits(j) /\ pc' = pc /\ (Fresh(j) => Fresh(j)') /\ ok /\ Unfinished(j)
    BY <1>1, <1>2, <1>4, <1>9 DEF Waits, Fresh, Content
  <2>2. CASE j = i
    <3>1. Exists(s) /\ IsPart(Data(list[i])) /\ Len(Data(list[i])) >= 2
      BY <1>3, <2>1, <2>2 DEF Unfinished, Fresh
    <3>2. tmp'[s] = Data(list[i]) /\ s \in DOMAIN tmp'
      <4>1. SetTmp(s, Data(list[i]))
        BY <1>5, <2>1, <3>1 DEF Data
      <4> QED  BY <4>1 DEF SetTmp
    <3>3. Data(list[i])' = Data(list[i])
      BY <1>3, <1>4, <1>9, <3>1, <3>2, Behind DEF Data, Files, Exists
    <3> QED  BY <1>3, <2>2, <3>1, <3>2, <3>3 DEF Unfinished, Exists, IsPart
  <2>3. CASE j # i
    <3>1. list[j].seq # s
      BY <1>3, <2>3 DEF IInv, OneEntryPerPacket
    <3> QED  BY <1>1, <1>3, <1>6, <2>1, <2>3, <3>1, LeftAlone DEF Exists
  <2> QED  BY <2>2, <2>3
<1>10. Content'
  BY <1>1, <1>2, <1>3, <1>4, <1>9 DEF Content, PublishedComplete
<1> QED  BY <1>8, <1>10

\* outpkt_fopen() makes a file for a new packet, and keeps that of another.
LEMMA FopenFiles ==
  ASSUME IInv, Files, Content, Fopen
  PROVE  (Files /\ Content)'
<1> DEFINE s == list[cur].seq
           b == IF mode = "w" THEN <<HDR>> ELSE <<>>
<1>1. /\ pc = "fopen" /\ cur \in DOMAIN list /\ list[cur].fp = NULL /\ list[cur] \in Entry
      /\ UNCHANGED <<cur, closing, mode, pkt, nmsg>>
  BY EntriesAre DEF Fopen, IInv, Shape, Busy
<1>2. CASE Outcome("fopen", FALSE) /\ FopenFails /\ UNCHANGED <<list, nopen, tmp>>
  <2>1. faults' \in Nat /\ faults' # 0
    BY <1>2, OutcomeCounts DEF Files
  <2>2. pc' = IF closing THEN "free" ELSE "idle"
    BY <1>2 DEF FopenFails
  <2> QED  BY <1>1, <1>2, <2>1, <2>2 DEF Files, Content
<1>3. CASE /\ Outcome("fopen", TRUE)
           /\ list' = [list EXCEPT ![cur].fp = OPEN, ![cur].buf = b]
           /\ IF mode = "w" \/ ~Exists(s) THEN SetTmp(s, <<>>) ELSE UNCHANGED tmp
           /\ pc' = IF closing THEN "close" ELSE "write"
  <2>1. faults' \in Nat /\ (faults' = 0 => faults = 0)
    BY <1>3, OutcomeCounts DEF Files
  <2>2. /\ DOMAIN list' = DOMAIN list /\ list'[cur].fp = OPEN /\ list'[cur].buf = b
        /\ list'[cur].seq = s
        /\ \A j \in DOMAIN list : j # cur => list'[j] = list[j]
    BY <1>1, <1>3, EntriesAre DEF Entry
  <2>3. /\ \A t \in DOMAIN tmp : t \in DOMAIN tmp' /\ (t # s => tmp'[t] = tmp[t])
        /\ faults = 0 => \A t \in DOMAIN tmp' : tmp'[t] \in Seq(Int)
        /\ mode = "w" => s \in DOMAIN tmp' /\ tmp'[s] = <<>>
        /\ mode # "w" /\ Exists(s) => tmp' = tmp
    <3>1. CASE mode = "w" \/ ~Exists(s)
      <4>1. SetTmp(s, <<>>)
        BY <1>3, <3>1
      <4> QED  BY <3>1, <4>1 DEF SetTmp, Files, Exists
    <3>2. CASE ~(mode = "w" \/ ~Exists(s))
      BY <1>3, <3>2 DEF Files
    <3> QED  BY <3>1, <3>2
  <2>4. Files'
    BY <1>1, <1>3, <2>1, <2>3 DEF Files
  <2>5. ASSUME faults' = 0, NEW j \in DOMAIN list, Waits(j)' PROVE Unfinished(j)'
    <3>1. Waits(j) /\ Unfinished(j)
      BY <1>1, <2>1, <2>5 DEF Waits, Content
    <3>2. CASE j = cur /\ mode = "w"
      <4>1. Fresh(j)'
        BY <1>1, <1>3, <3>2 DEF Fresh, Files
      <4>2. Data(list[j])' = <<HDR>> /\ Exists(list[j].seq)'
        <5>1. <<>> \o <<HDR>> = <<HDR>>
          BY DEF HDR
        <5> QED  BY <2>2, <2>3, <3>2, <5>1 DEF Data, Exists
      <4>3. list'[j].fp # NULL
        BY <2>2, <3>2 DEF NULL, OPEN
      <4> QED  BY <4>1, <4>2, <4>3 DEF Unfinished, IsPart
    <3>3. CASE j = cur /\ mode # "w"
      <4>1. /\ list[j].buf = <<>> /\ Exists(s) /\ IsPart(Data(list[j]))
            /\ Len(Data(list[j])) >= 2
        BY <1>1, <3>1, <3>3 DEF Unfinished, Fresh
      <4>2. Data(list[j])' = Data(list[j]) /\ Exists(list[j].seq)'
        BY <2>2, <2>3, <3>3, <4>1 DEF Data, Exists
      <4>3. list'[j].fp # NULL
        BY <2>2, <3>3 DEF NULL, OPEN
      <4> QED  BY <4>1, <4>2, <4>3 DEF Unfinished, IsPart
    <3>4. CASE j # cur
      <4>1. list[j].seq # s
        BY <1>1, <3>4 DEF IInv, OneEntryPerPacket
      <4> QED  BY <2>2, <2>3, <3>1, <3>4, <4>1, LeftAlone DEF Exists, Fresh
    <3> QED  BY <3>2, <3>3, <3>4
  <2>6. Content'
    BY <1>1, <1>3, <2>1, <2>2, <2>5 DEF Content, PublishedComplete
  <2> QED  BY <2>4, <2>6
<1> QED  BY <1>2, <1>3 DEF Fopen

\* The message goes behind what has been written, in the buffer or the file.
LEMMA WriteFiles ==
  ASSUME IInv, Files, Content, Write
  PROVE  (Files /\ Content)'
<1>1. /\ pc = "write" /\ ~closing /\ nmsg \in Nat
      /\ cur \in DOMAIN list /\ list[cur] \in Entry /\ list[cur].fp = OPEN
      /\ list[cur].buf \in Seq(Int)
      /\ pc' = "idle" /\ UNCHANGED <<cur, closing, mode, pkt>>
  BY EntriesAre DEF IInv, Shape, Write, Busy
<1>2. PICK flush \in BOOLEAN, ok \in BOOLEAN :
        LET e == list[cur]
            data == Append(e.buf, IF ok THEN nmsg + 1 ELSE CUT)
        IN  /\ Outcome("write", ok)
            /\ IF flush /\ Exists(e.seq)
                 THEN SetTmp(e.seq, tmp[e.seq] \o data) ELSE UNCHANGED tmp
            /\ list' = [list EXCEPT ![cur].buf = IF flush THEN <<>> ELSE data]
  BY DEF Write
<1> DEFINE s == list[cur].seq
           x == IF ok THEN nmsg + 1 ELSE CUT
           data == Append(list[cur].buf, x)
<1>3. x \in Int /\ data \in Seq(Int)
  BY <1>1 DEF CUT
<1>4. faults' \in Nat /\ (faults' = 0 => faults = 0 /\ ok)
  BY <1>2, OutcomeCounts DEF Files
<1>5. /\ DOMAIN list' = DOMAIN list /\ list'[cur].fp = OPEN /\ list'[cur].seq = s
      /\ list'[cur].buf = IF flush THEN <<>> ELSE data
      /\ \A j \in DOMAIN list : j # cur => list'[j] = list[j]
  BY <1>1, <1>2, EntriesAre DEF Entry
<1>6. IF flush /\ Exists(s) THEN SetTmp(s, tmp[s] \o data) ELSE UNCHANGED tmp
  BY <1>2
<1> HIDE DEF data, x
<1>7. /\ \A t \in DOMAIN tmp : t \in DOMAIN tmp' /\ (t # s => tmp'[t] = tmp[t])
      /\ faults = 0 => \A t \in DOMAIN tmp' : tmp'[t] \in Seq(Int)
      /\ Exists(s) => tmp'[s] = IF flush THEN tmp[s] \o data ELSE tmp[s]
  <2>1. CASE flush /\ Exists(s)
    <3>1. faults = 0 => (tmp[s] \o data) \in Seq(Int)
      BY <1>3, <2>1 DEF Files, Exists
    <3> QED  BY <1>6, <2>1, <3>1 DEF SetTmp, Files, Exists
  <2>2. CASE ~(flush /\ Exists(s))
    BY <1>6, <2>2 DEF Files
  <2> QED  BY <2>1, <2>2
<1>8. Files'
  BY <1>1, <1>4, <1>7 DEF Files
<1>9. ASSUME faults' = 0, NEW j \in DOMAIN list PROVE Unfinished(j)'
  <2>1. Unfinished(j) /\ ok
    BY <1>1, <1>4, <1>9 DEF Waits, Content
  <2>2. CASE j = cur
    <3>1. Exists(s) /\ IsPart(Data(list[j])) /\ tmp[s] \in Seq(Int)
      BY <1>1, <1>4, <1>9, <2>1, <2>2 DEF Unfinished, Files, Exists
    <3>2. x \in 1 .. MaxMsg
      BY <1>1, <2>1, ConstantsAssumption DEF Files, x
    <3>3. Data(list[j])' = Append(Data(list[j]), x) /\ Data(list[j]) \in Seq(Int)
      <4>1. /\ tmp[s] \o data = Append(tmp[s] \o list[cur].buf, x)
            /\ (tmp[s] \o data) \o <<>> = tmp[s] \o data
            /\ (tmp[s] \o list[cur].buf) \in Seq(Int)
        <5>1. list[cur].buf \in Seq(Int) /\ x \in Int /\ tmp[s] \in Seq(Int)
          BY <1>1, <1>3, <3>1
        <5>2. ASSUME NEW u \in Seq(Int), NEW v \in Seq(Int), NEW y \in Int
              PROVE  /\ u \o Append(v, y) = Append(u \o v, y)
                     /\ (u \o Append(v, y)) \o <<>> = u \o Append(v, y)
                     /\ (u \o v) \in Seq(Int)
          <6>1. Append(v, y) \in Seq(Int)
            OBVIOUS
          <6> QED  BY ONLY <5>2, <6>1, Behind
        <5> QED  BY ONLY <5>1, <5>2 DEF data
      <4> QED  BY <1>5, <1>7, <2>2, <3>1, <4>1 DEF Data
    <3>4. IsPart(Data(list[j])') /\ Len(Data(list[j])') >= 2
      BY <3>1, <3>2, <3>3, PartGrows
    <3>5. list'[j].fp # NULL /\ Exists(list[j].seq)'
      BY <1>5, <1>7, <2>2, <3>1 DEF NULL, OPEN, Exists
    <3> QED  BY <3>4, <3>5 DEF Unfinished, IsPart
  <2>3. CASE j # cur
    <3>1. list[j].seq # s
      BY <1>1, <1>9, <2>3 DEF IInv, OneEntryPerPacket
    <3> QED  BY <1>5, <1>7, <1>9, <2>1, <2>3, <3>1, LeftAlone DEF Exists, Fresh
  <2> QED  BY <2>2, <2>3
<1>10. Content'
  BY <1>1, <1>4, <1>5, <1>9 DEF Content, PublishedComplete
<1> QED  BY <1>8, <1>10

\* The steps of outpkt_close() that leave all files and the list alone.
LEMMA WalkFiles ==
  ASSUME IInv, Files, Content, StartClose \/ NextEntry \/ Free
  PROVE  (Files /\ Content)'
<1>1. /\ UNCHANGED <<list, tmp, pkt, faults, nmsg>> /\ closing'
      /\ pc' \in {"next", "fopen", "close"}
      /\ mode' = "a" \/ pc' = "next"
      /\ pc \in {"idle", "next", "free"}
  BY DEF StartClose, NextEntry, Free, disk, IInv, Shape
<1>2. Files'
  BY <1>1 DEF Files
<1>3. ASSUME faults = 0, NEW j \in DOMAIN list, Waits(j)' PROVE Unfinished(j)'
  <2>1. Waits(j)
    <3>1. j \in Nat /\ cur \in Nat
      BY EntriesAre
    <3>2. CASE StartClose
      BY <3>2 DEF Waits, StartClose, IInv, Shape
    <3>3. CASE NextEntry
      BY <1>3, <3>3 DEF Waits, NextEntry
    <3>4. CASE Free
      <4>1. cur' = cur + 1 /\ closing /\ (cur' < j \/ cur' = j)
        BY <1>3, <3>4 DEF Waits, Free, IInv, Shape
      <4> QED  BY <3>1, <4>1 DEF Waits
    <3> QED  BY <3>2, <3>3, <3>4
  <2>2. Unfinished(j) /\ ~Fresh(j)
    BY <1>1, <1>3, <2>1 DEF Content, Fresh
  <2> QED  BY <1>1, <2>2, LeftAlone DEF Exists
<1>4. Content'
  BY <1>1, <1>3 DEF Content, PublishedComplete
<1> QED  BY <1>2, <1>4

\* outpkt_close() ends the file of its entry, which is a packet then,
LEMMA CloseEntryFiles ==
  ASSUME IInv, Files, Content, CloseEntry
  PROVE  (Files /\ Content)'
<1> DEFINE s == list[cur].seq
<1>1. /\ pc = "close" /\ closing /\ pc' = "rename" /\ cur \in DOMAIN list
      /\ list[cur].buf \in Seq(Int) /\ list[cur].fp = OPEN
      /\ UNCHANGED <<cur, closing, mode, pkt, nmsg>>
      /\ list' = [list EXCEPT ![cur].fp = NULL, ![cur].buf = <<>>]
  BY EntriesAre DEF CloseEntry, IInv, Shape, Busy
<1>2. PICK ok \in BOOLEAN :
        /\ Outcome("fclose", ok)
        /\ SetTmp(s, tmp[s] \o (IF ok THEN Append(list[cur].buf, END) ELSE <<CUT>>))
  BY DEF CloseEntry
<1>3. faults' \in Nat /\ (faults' = 0 => faults = 0 /\ ok)
  BY <1>2, OutcomeCounts DEF Files
<1>4. /\ DOMAIN list' = DOMAIN list /\ list'[cur].seq = s
      /\ \A j \in DOMAIN list : j # cur => list'[j] = list[j]
  BY <1>1, EntriesAre DEF Entry
<1> DEFINE c == tmp[s] \o (IF ok THEN Append(list[cur].buf, END) ELSE <<CUT>>)
<1>5. /\ DOMAIN tmp' = DOMAIN tmp \cup {s} /\ tmp'[s] = c
      /\ \A t \in DOMAIN tmp : t # s => tmp'[t] = tmp[t]
  BY <1>2 DEF SetTmp
<1>6. faults = 0 /\ Exists(s) => c \in Seq(Int)
  BY <1>1 DEF Files, Exists, END, CUT
<1>7. faults' = 0 => Exists(s) /\ IsPacket(c)
  <2>1. SUFFICES ASSUME faults' = 0 PROVE Exists(s) /\ IsPacket(c)
    OBVIOUS
  <2>2. Exists(s) /\ IsPart(Data(list[cur])) /\ Len(Data(list[cur])) >= 2
    <3>1. Waits(cur) /\ ~Fresh(cur)
      BY <1>1 DEF Waits, Fresh
    <3> QED  BY <1>1, <1>3, <2>1, <3>1 DEF Content, Unfinished
  <2>3. tmp[s] \in Seq(Int) /\ END \in Int
    BY <1>3, <2>1, <2>2 DEF Files, Exists, END
  <2>4. c = Append(Data(list[cur]), END) /\ Data(list[cur]) \in Seq(Int)
    <3>1. c = tmp[s] \o Append(list[cur].buf, END)
      BY <1>3, <2>1
    <3>2. list[cur].buf \in Seq(Int)
      BY <1>1
    <3>3. ASSUME NEW u \in Seq(Int), NEW v \in Seq(Int), NEW y \in Int
          PROVE  u \o Append(v, y) = Append(u \o v, y) /\ (u \o v) \in Seq(Int)
      BY ONLY <3>3, Behind
    <3> HIDE DEF c
    <3> QED  BY ONLY <2>3, <3>1, <3>2, <3>3 DEF Data
  <2> QED  BY <2>2, <2>4, PartEnds
<1> HIDE DEF c
<1>8. Files'
  BY <1>1, <1>3, <1>5, <1>6, <1>7 DEF Files, Exists
<1>9. ASSUME faults' = 0, NEW j \in DOMAIN list, Waits(j)' PROVE Unfinished(j)'
  <2>1. Waits(j) /\ j # cur /\ ~Fresh(j)
    BY <1>1, <1>9, EntriesAre DEF Waits, Fresh
  <2>2. Unfinished(j)
    BY <1>3, <1>9, <2>1 DEF Content
  <2>3. list[j].seq # s
    BY <1>1, <1>9, <2>1 DEF IInv, OneEntryPerPacket
  <2> QED  BY <1>4, <1>5, <1>9, <2>1, <2>2, <2>3, LeftAlone DEF Exists
<1>10. Content'
  BY <1>1, <1>3, <1>4, <1>5, <1>7, <1>9 DEF Content, PublishedComplete, Exists
<1> QED  BY <1>8, <1>10

\* and gives it its name.
LEMMA RenameFiles ==
  ASSUME IInv, Files, Content, Rename
  PROVE  (Files /\ Content)'
<1> DEFINE s == list[cur].seq
<1>1. /\ pc = "rename" /\ pc' = "free" /\ closing /\ cur \in DOMAIN list
      /\ UNCHANGED <<list, cur, closing, mode, nmsg, faults>>
      /\ pkt' = [t \in DOMAIN pkt \cup {s} |->
                   IF t = s THEN [key |-> list[cur].key, data |-> tmp[s]] ELSE pkt[t]]
      /\ tmp' = [t \in DOMAIN tmp \ {s} |-> tmp[t]]
  BY EntriesAre DEF Rename, IInv, Shape, Busy
<1>2. Files'
  BY <1>1 DEF Files
<1>3. faults = 0 => PublishedComplete'
  BY <1>1 DEF Content, PublishedComplete
<1>4. ASSUME faults = 0, NEW j \in DOMAIN list, Waits(j)' PROVE Unfinished(j)'
  <2>1. Waits(j) /\ j # cur /\ ~Fresh(j)
    BY <1>1, <1>4, EntriesAre DEF Waits, Fresh
  <2>2. Unfinished(j)
    BY <1>4, <2>1 DEF Content
  <2>3. list[j].seq # s
    BY <1>1, <1>4, <2>1 DEF IInv, OneEntryPerPacket
  <2> QED  BY <1>1, <1>4, <2>1, <2>2, <2>3, LeftAlone DEF Exists
<1> QED  BY <1>1, <1>2, <1>3, <1>4 DEF Content, PublishedComplete

\* The end of outpkt_close() and a kill leave no entry that is written to.
LEMMA EmptyFiles ==
  ASSUME Files, Content, EndClose \/ Crash
  PROVE  (Files /\ Content)'
<1>1. /\ list' = <<>> /\ pc' = "idle" /\ ~closing' /\ UNCHANGED <<tmp, pkt, nmsg, faults>>
  BY DEF EndClose, Crash, disk
<1> QED  BY <1>1 DEF Files, Content, PublishedComplete

LEMMA InitContent == Init => IInv /\ Files /\ Content
<1> SUFFICES ASSUME Init PROVE Files /\ Content
  BY InitIInv
<1> QED  BY DEF Init, Files, Content, PublishedComplete

LEMMA NextContent ==
  ASSUME IInv, Files, Content, [Next]_vars
  PROVE  (Files /\ Content)'
<1>1. CASE UNCHANGED vars
  <2>1. UNCHANGED <<list, pc, cur, closing, mode, tmp, pkt, nmsg, faults>>
    BY <1>1 DEF vars
  <2>2. Files'
    BY <2>1 DEF Files
  <2>3. \A j : Unfinished(j)' <=> Unfinished(j)
    BY <2>1 DEF Unfinished, Fresh, Data, Exists, IsPart
  <2>4. \A j : Waits(j)' <=> Waits(j)
    BY <2>1 DEF Waits
  <2> QED  BY <2>1, <2>2, <2>3, <2>4 DEF Content, PublishedComplete, Exists, IsPacket
<1>2. CASE Step
  <2>1. CASE \E k \in Key : OpenFound(k) \/ OpenNew(k)
    BY <2>1, OpenFoundFiles, OpenNewFiles
  <2>2. CASE CloseLn \/ Fopen \/ Write
    BY <2>2, CloseLnFiles, FopenFiles, WriteFiles
  <2>3. CASE StartClose \/ NextEntry \/ Free
    BY <2>3, WalkFiles
  <2>4. CASE CloseEntry \/ Rename \/ EndClose
    BY <2>4, CloseEntryFiles, RenameFiles, EmptyFiles
  <2> QED  BY <1>2, <2>1, <2>2, <2>3, <2>4 DEF Step
<1> QED  BY <1>1, <1>2, EmptyFiles DEF Next, Done


\* The .pkt files that a reader of the output directory finds are packets: their
\* .tmp files had their header, a message and the 0-word (outpkt_fopen(),
\* outpkt_close_ln(), outpkt_close()), however often they were reopened, and
\* wherever the process was killed.
THEOREM PacketsWhole == Spec => []PublishedComplete
<1>1. Init => IInv /\ Files /\ Content  BY InitContent
<1>2. IInv /\ Files /\ Content /\ [Next]_vars => (IInv /\ Files /\ Content)'
  BY NextIInv, NextContent
<1>3. Content => PublishedComplete
  BY DEF Content, PublishedComplete
<1> QED  BY <1>1, <1>2, <1>3, PTL DEF Spec

-----------------------------------------------------------------------------
LEMMA LeastOf ==
  ASSUME NEW S \in SUBSET Nat, S # {}
  PROVE  \E d \in S : \A e \in S : d =< e
<1>1. PICK d \in S : \A e \in S : <<e, d>> \notin OpToRel(<, Nat)
  BY NatLessThanWellFounded, WFMin
<1>2. \A e \in S : ~(e < d)
  BY <1>1 DEF OpToRel
<1>3. \A e \in S : d =< e
  BY <1>2
<1> QED  BY <1>3

\* What holds at the start of a loop and is kept by each turn holds throughout.
LEMMA UpTo ==
  ASSUME NEW n \in Nat, NEW G, 0 \in G, \A i \in 1..n : i - 1 \in G => i \in G
  PROVE  \A i \in 0..n : i \in G
<1> DEFINE B == {i \in 0..n : i \notin G}
<1> SUFFICES ASSUME B # {} PROVE FALSE
  OBVIOUS
<1>1. B \in SUBSET Nat
  OBVIOUS
<1>2. PICK d \in B : \A e \in B : d =< e
  <2> HIDE DEF B
  <2> QED  BY <1>1, LeastOf
<1>3. d \in 1..n /\ d \notin G
  BY <1>2
<1>4. d - 1 \in 0..n /\ d - 1 \notin B
  BY <1>2, <1>3
<1> QED  BY <1>3, <1>4

\* The messages of a file, one place after the other.
Picked(c, f) ==
  /\ f[0] = <<>>
  /\ \A i \in 1 .. Len(c) : f[i] = IF c[i] > 0 THEN Append(f[i - 1], c[i]) ELSE f[i - 1]
  /\ \A i \in 0 .. Len(c) : f[i] \in Seq(Int)
  /\ Messages(c) = f[Len(c)]

LEMMA MessagesPicked == ASSUME NEW c \in Seq(Int) PROVE \E f : Picked(c, f)
<1> DEFINE n == Len(c)
           Taken(v, i) == IF c[i] > 0 THEN Append(v, c[i]) ELSE v
           Is(f, m) == f = [i \in 0 .. m |-> IF i = 0 THEN <<>> ELSE Taken(f[i - 1], i)]
           G == {m \in 0 .. n : \E f : Is(f, m)}
<1>0. Messages(c) = (CHOOSE f : Is(f, n))[n] /\ n \in Nat
  BY DEF Messages
<1>00. \A v \in Seq(Int), i \in 1 .. n : Taken(v, i) \in Seq(Int)
  OBVIOUS
<1>01. \A v, i : Taken(v, i) = IF c[i] > 0 THEN Append(v, c[i]) ELSE v
  OBVIOUS
<1> HIDE DEF Taken
<1>1. 0 \in G
  <2>1. Is([i \in 0 .. 0 |-> <<>>], 0)
    OBVIOUS
  <2> HIDE DEF Is
  <2> QED  BY <1>0, <2>1
<1>2. ASSUME NEW m \in 1 .. n, m - 1 \in G PROVE m \in G
  <2>1. PICK g : Is(g, m - 1)
    BY <1>2
  <2>0. m \in Nat /\ m # 0 /\ m \in 0 .. n
    BY <1>0
  <2> DEFINE h == [i \in 0 .. m |-> IF i = m THEN Taken(g[m - 1], m) ELSE g[i]]
  <2>2. ASSUME NEW i \in 0 .. m PROVE h[i] = IF i = 0 THEN <<>> ELSE Taken(h[i - 1], i)
    <3>1. CASE i = m
      <4>1. h[i - 1] = g[i - 1]
        <5>1. i - 1 \in 0 .. m /\ i - 1 # m
          BY <2>0, <3>1
        <5> QED  BY <5>1
      <4> HIDE DEF h
      <4>2. h[i] = Taken(g[m - 1], m)
        BY <3>1 DEF h
      <4> QED  BY <2>0, <3>1, <4>1, <4>2
    <3>2. CASE i # m
      <4>0. i \in 0 .. m - 1 /\ (i # 0 => i - 1 \in 0 .. m /\ i - 1 # m)
        BY <2>0, <3>2
      <4>1. h[i] = g[i] /\ (i # 0 => h[i - 1] = g[i - 1])
        BY <3>2, <4>0
      <4>2. g[i] = IF i = 0 THEN <<>> ELSE Taken(g[i - 1], i)
        BY <2>1, <4>0
      <4> HIDE DEF h
      <4> QED  BY <4>1, <4>2
    <3> QED  BY <3>1, <3>2
  <2>3. Is(h, m)
    <3> HIDE DEF h
    <3> QED  BY <2>2 DEF h
  <2> HIDE DEF h, Is
  <2> QED  BY <2>0, <2>3
<1>3. n \in G
  <2> HIDE DEF G, Is
  <2>1. \A i \in 1 .. n : i - 1 \in G => i \in G
    BY <1>2
  <2> HIDE DEF n
  <2>3. \A i \in 0 .. n : i \in G
    BY <1>0, <1>1, <2>1, UpTo
  <2> QED  BY <1>0, <2>3
<1>4. PICK g : Is(g, n)
  BY <1>3
<1> DEFINE f == CHOOSE f : Is(f, n)
<1>5. Is(f, n)
  BY <1>4
<1>6. Messages(c) = f[n]
  BY <1>0
<1> HIDE DEF f, n
<1>7. f[0] = <<>> /\ \A i \in 1 .. n : f[i] = Taken(f[i - 1], i)
  BY <1>0, <1>5
<1> HIDE DEF Is
<1> DEFINE H == {i \in 0 .. n : f[i] \in Seq(Int)}
<1>8. 0 \in H
  <2>1. <<>> \in Seq(Int) /\ 0 \in 0 .. n
    BY <1>0
  <2> QED  BY <1>7, <2>1
<1>9. ASSUME NEW i \in 1 .. n, i - 1 \in H PROVE i \in H
  <2>1. f[i - 1] \in Seq(Int) /\ i \in 0 .. n
    BY <1>0, <1>9
  <2> QED  BY <1>00, <1>7, <2>1
<1>10. \A i \in 0 .. n : i \in H
  <2> HIDE DEF H
  <2> QED  BY <1>0, <1>8, <1>9, UpTo
<1>11. \A i \in 0 .. n : f[i] \in Seq(Int)
  BY <1>10
<1> HIDE DEF H
<1> QED  BY <1>01, <1>6, <1>7, <1>11 DEF Picked, n

\* What is written behind something comes behind its messages.
LEMMA MessagesJoin ==
  ASSUME NEW c \in Seq(Int), NEW d \in Seq(Int)
  PROVE  /\ Messages(c \o d) = Messages(c) \o Messages(d)
         /\ Messages(c) \in Seq(Int)
<1> DEFINE n == Len(c)  m == Len(d)  e == c \o d
<1>1. PICK f : Picked(c, f)
  BY MessagesPicked
<1>2. PICK g : Picked(d, g)
  BY MessagesPicked
<1>3. e \in Seq(Int)
  OBVIOUS
<1>4. PICK h : Picked(e, h)
  BY <1>3, MessagesPicked
<1>5. /\ n \in Nat /\ m \in Nat /\ Len(e) = n + m
      /\ \A i \in 1 .. n : e[i] = c[i]
      /\ \A i \in 1 .. m : e[n + i] = d[i] /\ d[i] \in Int
  OBVIOUS
<1> HIDE DEF e
<1>6. /\ f[0] = <<>> /\ \A i \in 0 .. n : f[i] \in Seq(Int)
      /\ \A i \in 1 .. n : f[i] = IF c[i] > 0 THEN Append(f[i - 1], c[i]) ELSE f[i - 1]
      /\ Messages(c) = f[n]
  BY <1>1 DEF Picked
<1>7. /\ g[0] = <<>> /\ \A i \in 0 .. m : g[i] \in Seq(Int)
      /\ \A i \in 1 .. m : g[i] = IF d[i] > 0 THEN Append(g[i - 1], d[i]) ELSE g[i - 1]
      /\ Messages(d) = g[m]
  BY <1>2 DEF Picked
<1> HIDE DEF n, m
<1>8. /\ h[0] = <<>> /\ Messages(e) = h[n + m]
      /\ \A i \in 1 .. n + m :
           h[i] = IF e[i] > 0 THEN Append(h[i - 1], e[i]) ELSE h[i - 1]
  BY <1>4, <1>5 DEF Picked
<1>9. h[n] = f[n]
  <2> DEFINE H == {i \in 0 .. n : h[i] = f[i]}
  <2>1. 0 \in H
    BY <1>5, <1>6, <1>8
  <2>2. ASSUME NEW i \in 1 .. n, i - 1 \in H PROVE i \in H
    <3>1. i \in 1 .. n + m /\ i \in 0 .. n /\ e[i] = c[i]
      BY <1>5
    <3>2. h[i] = IF e[i] > 0 THEN Append(h[i - 1], e[i]) ELSE h[i - 1]
      BY <1>8, <3>1
    <3>3. f[i] = IF c[i] > 0 THEN Append(f[i - 1], c[i]) ELSE f[i - 1]
      BY <1>6
    <3> QED  BY <2>2, <3>1, <3>2, <3>3
  <2> HIDE DEF H
  <2>3. \A i \in 0 .. n : i \in H
    BY <1>5, <2>1, <2>2, UpTo
  <2> QED  BY <1>5, <2>3 DEF H
<1>10. h[n + m] = f[n] \o g[m]
  <2> DEFINE H == {i \in 0 .. m : h[n + i] = f[n] \o g[i]}
  <2>1. f[n] \in Seq(Int)
    BY <1>5, <1>6
  <2>2. 0 \in H
    <3>1. n + 0 = n /\ f[n] \o <<>> = f[n]
      BY <1>5, <2>1
    <3>2. h[n + 0] = f[n] \o g[0]
      BY <1>7, <1>9, <3>1
    <3>3. 0 \in 0 .. m
      BY <1>5
    <3> QED  BY <3>2, <3>3
  <2>3. ASSUME NEW i \in 1 .. m, i - 1 \in H PROVE i \in H
    <3>1. /\ n + i \in 1 .. n + m /\ (n + i) - 1 = n + (i - 1) /\ i - 1 \in 0 .. m
          /\ i \in 0 .. m
      BY <1>5
    <3>2. d[i] \in Int /\ e[n + i] = d[i]
      BY <1>5
    <3>3. h[n + i] = IF d[i] > 0 THEN Append(h[n + (i - 1)], d[i]) ELSE h[n + (i - 1)]
      BY <1>8, <3>1, <3>2
    <3>4. g[i] = IF d[i] > 0 THEN Append(g[i - 1], d[i]) ELSE g[i - 1]
      BY <1>7
    <3>5. h[n + (i - 1)] = f[n] \o g[i - 1]
      BY <2>3
    <3>6. g[i - 1] \in Seq(Int)
      BY <1>7, <3>1
    <3>7. f[n] \o Append(g[i - 1], d[i]) = Append(f[n] \o g[i - 1], d[i])
      <4>1. ASSUME NEW u \in Seq(Int), NEW v \in Seq(Int), NEW y \in Int
            PROVE  u \o Append(v, y) = Append(u \o v, y)
        BY ONLY <4>1, Behind
      <4> QED  BY <2>1, <3>2, <3>6, <4>1
    <3>8. h[n + i] = f[n] \o g[i]
      BY <3>3, <3>4, <3>5, <3>7
    <3> QED  BY <3>1, <3>8
  <2> HIDE DEF H
  <2>4. \A i \in 0 .. m : i \in H
    BY <1>5, <2>2, <2>3, UpTo
  <2>5. m \in H
    BY <1>5, <2>4
  <2> QED  BY <2>5 DEF H
<1>11. Messages(e) = Messages(c) \o Messages(d)
  BY <1>6, <1>7, <1>8, <1>10
<1> QED  BY <1>5, <1>6, <1>11 DEF e

LEMMA MessagesOne ==
  /\ Messages(<<>>) = <<>>
  /\ \A x \in Int : Messages(<<x>>) = IF x > 0 THEN <<x>> ELSE <<>>
<1>1. Messages(<<>>) = <<>>
  <2>1. <<>> \in Seq(Int) /\ Len(<<>>) = 0
    OBVIOUS
  <2>2. PICK f : Picked(<<>>, f)
    BY <2>1, MessagesPicked
  <2> QED  BY <2>1, <2>2 DEF Picked
<1>2. ASSUME NEW x \in Int PROVE Messages(<<x>>) = IF x > 0 THEN <<x>> ELSE <<>>
  <2> DEFINE c == <<x>>
  <2>1. c \in Seq(Int) /\ Len(c) = 1 /\ c[1] = x /\ Append(<<>>, x) = <<x>>
    OBVIOUS
  <2> HIDE DEF c
  <2>2. PICK f : Picked(c, f)
    BY <2>1, MessagesPicked
  <2>3. f[0] = <<>> /\ f[1] = (IF x > 0 THEN Append(f[0], x) ELSE f[0]) /\ Messages(c) = f[1]
    <3>1. 1 \in 1 .. Len(c) /\ 1 - 1 = 0
      BY <2>1
    <3> QED  BY <2>1, <2>2, <3>1 DEF Picked
  <2> QED  BY <2>1, <2>3 DEF c
<1> QED  BY <1>1, <1>2

\* A packet has messages.
LEMMA PacketHas == ASSUME NEW c \in Seq(Int), IsPacket(c) PROVE Messages(c) # <<>>
<1> DEFINE n == Len(c)
<1>1. PICK f : Picked(c, f)
  BY MessagesPicked
<1>2. n \in Nat /\ n >= 3 /\ c[2] > 0 /\ c[2] \in Int
  BY ConstantsAssumption DEF IsPacket
<1>0. \A i \in 1 .. n : c[i] \in Int
  OBVIOUS
<1>3. /\ \A i \in 0 .. n : f[i] \in Seq(Int)
      /\ \A i \in 1 .. n : f[i] = IF c[i] > 0 THEN Append(f[i - 1], c[i]) ELSE f[i - 1]
      /\ Messages(c) = f[n]
  BY <1>1 DEF Picked
<1> HIDE DEF n
<1> DEFINE H == {i \in 0 .. n : i >= 2 => f[i] # <<>>}
<1>4. 0 \in H
  BY <1>2
<1>5. ASSUME NEW i \in 1 .. n, i - 1 \in H PROVE i \in H
  <2>1. f[i] = IF c[i] > 0 THEN Append(f[i - 1], c[i]) ELSE f[i - 1]
    BY <1>3
  <2>2. i - 1 \in 0 .. n /\ i \in 0 .. n /\ f[i - 1] \in Seq(Int) /\ c[i] \in Int
    BY <1>0, <1>2, <1>3
  <2>3. Append(f[i - 1], c[i]) # <<>>
    <3>1. ASSUME NEW v \in Seq(Int), NEW y \in Int PROVE Append(v, y) # <<>>
      BY AppendProperties
    <3> QED  BY <2>2, <3>1
  <2>4. i >= 2 => (i = 2 \/ f[i - 1] # <<>>)
    BY <1>5, <2>2
  <2>5. i >= 2 => f[i] # <<>>
    <3>1. CASE i = 2
      BY <1>2, <2>1, <2>3, <3>1
    <3>2. CASE i # 2
      BY <2>1, <2>3, <2>4, <3>2
    <3> QED  BY <3>1, <3>2
  <2> QED  BY <2>2, <2>5
<1> HIDE DEF H
<1>6. \A i \in 0 .. n : i \in H
  BY <1>2, <1>4, <1>5, UpTo
<1>7. f[n] # <<>>
  BY <1>2, <1>6 DEF H
<1> QED  BY <1>3, <1>7

\* The entries whose messages are not published yet, and what their files are:
\* an open stream has one, a closed one has nothing buffered, and the packet that
\* outpkt_open() is making has none of that number.
Due(i) == ~closing \/ cur < i \/ (cur = i /\ pc # "free")

EntryFiles ==
  /\ \A s \in DOMAIN tmp : s \in 1 .. nseq /\ tmp[s] \in Seq(Int)
  /\ \A i \in DOMAIN list : /\ list[i].seq \in 1 .. nseq
                            /\ list[i].fp = OPEN => Exists(list[i].seq)
                            /\ list[i].fp = NULL => list[i].buf = <<>>
CurFile ==
  /\ pc = "fopen" /\ mode = "w" => ~Exists(list[cur].seq)
  /\ pc = "rename" => Exists(list[cur].seq) /\ list[cur].fp = NULL

\* Packets are numbered in the order in which their entries come, so that the
\* packet of a destination that is made last has the greatest number.
InOrder ==
  /\ \A i, j \in DOMAIN list : i < j => list[i].seq < list[j].seq
  /\ \A s \in DOMAIN pkt :
       /\ s \in 1 .. nseq
       /\ \A i \in DOMAIN list : Due(i) => s < list[i].seq
Ranked == \A k \in Key : \A i \in 1 .. Cardinality(Packets(k)) : Nth(Packets(k), i) # {}

Stored == crashes \in Nat /\ EntryFiles /\ CurFile /\ InOrder /\ Ranked

\* A step that leaves alone all but one entry and its file.
LEMMA OneTouched ==
  ASSUME IInv, EntryFiles, NEW i \in DOMAIN list,
         DOMAIN list' = DOMAIN list, list'[i].seq = list[i].seq,
         \A j \in DOMAIN list : j # i => list'[j] = list[j],
         DOMAIN tmp' \subseteq DOMAIN tmp \cup {list[i].seq},
         DOMAIN tmp \subseteq DOMAIN tmp',
         \A t \in DOMAIN tmp : t # list[i].seq => tmp'[t] = tmp[t],
         list[i].seq \in DOMAIN tmp' => tmp'[list[i].seq] \in Seq(Int),
         list'[i].fp = OPEN => list[i].seq \in DOMAIN tmp',
         list'[i].fp = NULL => list'[i].buf = <<>>,
         nseq' = nseq
  PROVE  EntryFiles'
<1>1. \A s \in DOMAIN tmp' : s \in 1 .. nseq /\ tmp'[s] \in Seq(Int)
  BY DEF EntryFiles
<1>2. \A j \in DOMAIN list : /\ list'[j].seq \in 1 .. nseq
                             /\ list'[j].fp = OPEN => list'[j].seq \in DOMAIN tmp'
                             /\ list'[j].fp = NULL => list'[j].buf = <<>>
  <2> SUFFICES ASSUME NEW j \in DOMAIN list
               PROVE  /\ list'[j].seq \in 1 .. nseq
                      /\ list'[j].fp = OPEN => list'[j].seq \in DOMAIN tmp'
                      /\ list'[j].fp = NULL => list'[j].buf = <<>>
    OBVIOUS
  <2>1. CASE j = i
    BY <2>1 DEF EntryFiles
  <2>2. CASE j # i
    BY <2>2 DEF EntryFiles, Exists
  <2> QED  BY <2>1, <2>2
<1> QED  BY <1>1, <1>2 DEF EntryFiles, Exists

LEMMA OrderKept ==
  ASSUME InOrder, Ranked, DOMAIN list' = DOMAIN list,
         \A j \in DOMAIN list : list'[j].seq = list[j].seq,
         \A j \in DOMAIN list : Due(j)' => Due(j),
         pkt' = pkt, nseq' = nseq
  PROVE  InOrder' /\ Ranked'
<1>1. InOrder'
  BY DEF InOrder
<1>2. Ranked'
  BY DEF Ranked, Packets
<1> QED  BY <1>1, <1>2

LEMMA OpenFoundStored ==
  ASSUME NEW k \in Key, IInv, Files, Stored, OpenFound(k)
  PROVE  Stored'
<1>1. PICK i \in Find(k) :
        /\ list' = [list EXCEPT ![i].n = @ + 1]
        /\ cur' = i
  BY DEF OpenFound
<1>2. /\ ~closing /\ mode' = "a" /\ pc' \in {"fopen", "write"}
      /\ UNCHANGED <<closing, tmp, pkt, nseq, crashes>>
  BY DEF OpenFound, disk, IInv, Shape
<1>3. DOMAIN list' = DOMAIN list /\ i \in DOMAIN list
  BY <1>1 DEF Find
<1>4. \A j \in DOMAIN list : /\ list'[j].fp = list[j].fp /\ list'[j].seq = list[j].seq
                             /\ list'[j].buf = list[j].buf
  BY <1>1, EntriesAre DEF Entry
<1>5. EntryFiles'
  BY <1>2, <1>3, <1>4 DEF Stored, EntryFiles, Exists
<1>6. InOrder' /\ Ranked'
  BY <1>2, <1>3, <1>4, OrderKept DEF Stored, Due
<1>7. CurFile'
  BY <1>2 DEF CurFile
<1> QED  BY <1>2, <1>5, <1>6, <1>7 DEF Stored

LEMMA OpenNewStored ==
  ASSUME NEW k \in Key, IInv, Files, Stored, OpenNew(k)
  PROVE  Stored'
<1> DEFINE e == [key |-> k, seq |-> nseq', n |-> 1, fp |-> NULL, buf |-> <<>>]
           m == Len(list)
<1>1. /\ list' = Append(list, e) /\ cur' = Len(list') /\ mode' = "w" /\ pc' = "fopen"
      /\ pc = "idle" /\ ~closing /\ nseq' = nseq + 1 /\ nseq \in Nat
      /\ UNCHANGED <<closing, tmp, pkt, crashes>>
  BY DEF OpenNew, disk, IInv, Shape
<1>2. e.fp = NULL /\ e.buf = <<>> /\ e.seq = nseq + 1
  BY <1>1
<1> HIDE DEF e
<1>3. /\ DOMAIN list' = 1 .. m + 1 /\ cur' = m + 1 /\ m \in Nat
      /\ DOMAIN list = 1 .. m
      /\ \A j \in 1 .. m : list'[j] = list[j]
      /\ list'[m + 1] = e
  BY <1>1, EntriesAre
<1> HIDE DEF m
<1>4. nseq + 1 \notin DOMAIN tmp
  BY <1>1 DEF Stored, EntryFiles
<1>5. EntryFiles'
  <2>1. \A s \in DOMAIN tmp' : s \in 1 .. nseq' /\ tmp'[s] \in Seq(Int)
    BY <1>1 DEF Stored, EntryFiles
  <2>2. ASSUME NEW j \in 1 .. m + 1
        PROVE  /\ list'[j].seq \in 1 .. nseq'
               /\ list'[j].fp = OPEN => list'[j].seq \in DOMAIN tmp'
               /\ list'[j].fp = NULL => list'[j].buf = <<>>
    <3>1. CASE j \in 1 .. m
      BY <1>1, <1>3, <3>1 DEF Stored, EntryFiles, Exists
    <3>2. CASE j = m + 1
      BY <1>1, <1>2, <1>3, <3>2 DEF NULL, OPEN
    <3> QED  BY <1>3, <3>1, <3>2
  <2> QED  BY <1>3, <2>1, <2>2 DEF EntryFiles, Exists
<1>6. CurFile'
  BY <1>1, <1>2, <1>3, <1>4 DEF CurFile, Exists
<1>7. InOrder'
  <2>1. \A j \in 1 .. m : list[j].seq \in 1 .. nseq
    BY <1>3 DEF Stored, EntryFiles
  <2>2. \A i, j \in DOMAIN list' : i < j => list'[i].seq < list'[j].seq
    <3> SUFFICES ASSUME NEW i \in 1 .. m + 1, NEW j \in 1 .. m + 1, i < j
                 PROVE  list'[i].seq < list'[j].seq
      BY <1>3
    <3>1. i \in 1 .. m
      BY <1>3
    <3>2. CASE j \in 1 .. m
      BY <1>3, <3>1, <3>2 DEF Stored, InOrder
    <3>3. CASE j = m + 1
      BY <1>1, <1>2, <1>3, <2>1, <3>1, <3>3
    <3> QED  BY <1>3, <3>2, <3>3
  <2>3. ASSUME NEW s \in DOMAIN pkt, NEW j \in 1 .. m + 1
        PROVE  s \in 1 .. nseq' /\ s < list'[j].seq
    <3>1. s \in 1 .. nseq
      BY DEF Stored, InOrder
    <3>2. CASE j \in 1 .. m
      BY <1>1, <1>3, <3>1, <3>2 DEF Stored, InOrder, Due
    <3>3. CASE j = m + 1
      BY <1>1, <1>2, <1>3, <3>1, <3>3
    <3> QED  BY <1>1, <1>3, <3>1, <3>2, <3>3
  <2>4. \A s \in DOMAIN pkt : s \in 1 .. nseq'
    BY <1>1 DEF Stored, InOrder
  <2> QED  BY <1>1, <1>3, <2>2, <2>3, <2>4 DEF InOrder
<1>8. Ranked'
  BY <1>1 DEF Stored, Ranked, Packets
<1> QED  BY <1>1, <1>5, <1>6, <1>7, <1>8 DEF Stored

\* What CloseLn finds and does.
LEMMA CloseLnDoes ==
  ASSUME IInv, Files, CloseLn
  PROVE  \E i \in DOMAIN list, ok \in BOOLEAN :
           /\ list[i].fp = OPEN /\ i # cur /\ Outcome("fclose", ok)
           /\ DOMAIN list' = DOMAIN list
           /\ list'[i].fp = NULL /\ list'[i].buf = <<>>
           /\ list'[i].seq = list[i].seq /\ list'[i].key = list[i].key
           /\ \A j \in DOMAIN list : j # i => list'[j] = list[j]
           /\ Exists(list[i].seq) =>
                SetTmp(list[i].seq,
                       tmp[list[i].seq] \o (IF ok THEN list[i].buf ELSE <<CUT>>))
           /\ ~Exists(list[i].seq) => tmp' = tmp
           /\ IF ok THEN pc' = "fopen" ELSE pc' = IF closing THEN "free" ELSE "idle"
<1>1. pc = "fopen" /\ cur \in DOMAIN list /\ list[cur].fp = NULL /\ Open # {}
  BY OpenPositive, ConstantsAssumption DEF CloseLn, IInv, Shape, Counted, Busy
<1>2. PICK i \in Open, ok \in BOOLEAN :
        /\ Outcome("fclose", ok) /\ Flush(i, ok)
        /\ list' = [list EXCEPT ![i].fp = NULL, ![i].buf = <<>>]
        /\ IF ok THEN UNCHANGED <<pc, failed>> ELSE FopenFails
  BY <1>1 DEF CloseLn
<1>3. i \in DOMAIN list /\ list[i].fp = OPEN /\ i # cur /\ list[i] \in Entry
  BY <1>1, EntriesAre DEF Open, NULL, OPEN
<1>4. /\ DOMAIN list' = DOMAIN list
      /\ list'[i].fp = NULL /\ list'[i].buf = <<>>
      /\ list'[i].seq = list[i].seq /\ list'[i].key = list[i].key
      /\ \A j \in DOMAIN list : j # i => list'[j] = list[j]
  BY <1>2, <1>3, EntriesAre DEF Entry
<1>5. IF ok THEN pc' = "fopen" ELSE pc' = IF closing THEN "free" ELSE "idle"
  BY <1>1, <1>2 DEF FopenFails
<1> QED  BY <1>2, <1>3, <1>4, <1>5 DEF Flush

LEMMA CloseLnStored ==
  ASSUME IInv, Files, Stored, CloseLn
  PROVE  Stored'
<1>1. PICK i \in DOMAIN list, ok \in BOOLEAN :
           /\ list[i].fp = OPEN /\ i # cur /\ Outcome("fclose", ok)
           /\ DOMAIN list' = DOMAIN list
           /\ list'[i].fp = NULL /\ list'[i].buf = <<>>
           /\ list'[i].seq = list[i].seq /\ list'[i].key = list[i].key
           /\ \A j \in DOMAIN list : j # i => list'[j] = list[j]
           /\ Exists(list[i].seq) =>
                SetTmp(list[i].seq,
                       tmp[list[i].seq] \o (IF ok THEN list[i].buf ELSE <<CUT>>))
           /\ ~Exists(list[i].seq) => tmp' = tmp
           /\ IF ok THEN pc' = "fopen" ELSE pc' = IF closing THEN "free" ELSE "idle"
  BY CloseLnDoes
<1> DEFINE s == list[i].seq
           c == tmp[s] \o (IF ok THEN list[i].buf ELSE <<CUT>>)
<1>2. /\ pc = "fopen" /\ UNCHANGED <<cur, closing, mode, pkt, nseq, crashes>>
      /\ cur \in DOMAIN list
  BY DEF CloseLn, IInv, Shape, Busy
<1>3. Exists(s) /\ c \in Seq(Int)
  <2>1. Exists(s) /\ tmp[s] \in Seq(Int)
    BY <1>1 DEF Stored, EntryFiles, Exists
  <2>2. (IF ok THEN list[i].buf ELSE <<CUT>>) \in Seq(Int)
    BY EntriesAre DEF CUT
  <2> QED  BY <2>1, <2>2
<1>4. DOMAIN tmp' = DOMAIN tmp /\ tmp'[s] = c /\ \A t \in DOMAIN tmp : t # s => tmp'[t] = tmp[t]
  <2>1. SetTmp(s, c) /\ s \in DOMAIN tmp
    BY <1>1, <1>3 DEF Exists
  <2> HIDE DEF c, s
  <2> QED  BY <2>1, TmpSet
<1> HIDE DEF c
<1>5. EntryFiles'
  BY <1>1, <1>2, <1>3, <1>4, OneTouched DEF Stored, NULL, OPEN
<1>6. CurFile'
  BY <1>1, <1>2, <1>4 DEF Stored, CurFile, Exists
<1>7. InOrder' /\ Ranked'
  <2>1. \A j \in DOMAIN list : list'[j].seq = list[j].seq
    BY <1>1
  <2>2. \A j \in DOMAIN list : Due(j)' => Due(j)
    BY <1>1, <1>2 DEF Due
  <2> QED  BY <1>1, <1>2, <2>1, <2>2, OrderKept DEF Stored
<1> QED  BY <1>2, <1>5, <1>6, <1>7 DEF Stored

\* What Fopen does.
LEMMA FopenDoes ==
  ASSUME IInv, Fopen
  PROVE  /\ pc = "fopen" /\ cur \in DOMAIN list /\ list[cur].fp = NULL
         /\ UNCHANGED <<cur, closing, mode, pkt, nseq, nmsg, crashes>>
         /\ \/ /\ Outcome("fopen", FALSE) /\ UNCHANGED <<list, tmp>>
               /\ pc' = IF closing THEN "free" ELSE "idle"
            \/ /\ Outcome("fopen", TRUE)
               /\ DOMAIN list' = DOMAIN list /\ list'[cur].fp = OPEN
               /\ list'[cur].buf = IF mode = "w" THEN <<HDR>> ELSE <<>>
               /\ list'[cur].seq = list[cur].seq /\ list'[cur].key = list[cur].key
               /\ \A j \in DOMAIN list : j # cur => list'[j] = list[j]
               /\ IF mode = "w" \/ ~Exists(list[cur].seq)
                    THEN SetTmp(list[cur].seq, <<>>) ELSE tmp' = tmp
               /\ pc' = IF closing THEN "close" ELSE "write"
<1>1. /\ pc = "fopen" /\ cur \in DOMAIN list /\ list[cur].fp = NULL
      /\ UNCHANGED <<cur, closing, mode, pkt, nseq, nmsg, crashes>>
  BY DEF Fopen, IInv, Shape, Busy
<1>2. CASE Outcome("fopen", FALSE) /\ FopenFails /\ UNCHANGED <<list, nopen, tmp>>
  BY <1>1, <1>2 DEF FopenFails
<1>3. CASE /\ Outcome("fopen", TRUE)
           /\ list' = [list EXCEPT ![cur].fp = OPEN,
                                   ![cur].buf = IF mode = "w" THEN <<HDR>> ELSE <<>>]
           /\ IF mode = "w" \/ ~Exists(list[cur].seq)
                THEN SetTmp(list[cur].seq, <<>>) ELSE UNCHANGED tmp
           /\ pc' = IF closing THEN "close" ELSE "write"
  <2>1. /\ DOMAIN list' = DOMAIN list /\ list'[cur].fp = OPEN
        /\ list'[cur].buf = IF mode = "w" THEN <<HDR>> ELSE <<>>
        /\ list'[cur].seq = list[cur].seq /\ list'[cur].key = list[cur].key
        /\ \A j \in DOMAIN list : j # cur => list'[j] = list[j]
    BY <1>1, <1>3, EntriesAre DEF Entry
  <2> QED  BY <1>1, <1>3, <2>1
<1> QED  BY <1>2, <1>3 DEF Fopen

LEMMA FopenStored ==
  ASSUME IInv, Files, Stored, Fopen
  PROVE  Stored'
<1> DEFINE s == list[cur].seq
<1>1. /\ pc = "fopen" /\ cur \in DOMAIN list /\ list[cur].fp = NULL
      /\ UNCHANGED <<cur, closing, mode, pkt, nseq, nmsg, crashes>>
  BY FopenDoes
<1>2. CASE /\ UNCHANGED <<list, tmp>>
           /\ pc' = IF closing THEN "free" ELSE "idle"
  <2>1. EntryFiles'
    BY <1>1, <1>2 DEF Stored, EntryFiles, Exists
  <2>2. InOrder' /\ Ranked'
    <3>1. \A j \in DOMAIN list : Due(j)' => Due(j)
      BY <1>1, <1>2 DEF Due
    <3> QED  BY <1>1, <1>2, <3>1, OrderKept DEF Stored
  <2>3. CurFile'
    BY <1>2 DEF CurFile
  <2> QED  BY <1>1, <2>1, <2>2, <2>3 DEF Stored
<1>3. CASE /\ DOMAIN list' = DOMAIN list /\ list'[cur].fp = OPEN
           /\ list'[cur].seq = list[cur].seq
           /\ \A j \in DOMAIN list : j # cur => list'[j] = list[j]
           /\ IF mode = "w" \/ ~Exists(s) THEN SetTmp(s, <<>>) ELSE tmp' = tmp
           /\ pc' = IF closing THEN "close" ELSE "write"
  <2>1. /\ DOMAIN tmp' = DOMAIN tmp \cup {s} /\ tmp'[s] \in Seq(Int)
        /\ \A t \in DOMAIN tmp : t # s => tmp'[t] = tmp[t]
    <3>1. CASE mode = "w" \/ ~Exists(s)
      <4>1. SetTmp(s, <<>>) /\ <<>> \in Seq(Int)
        BY <1>3, <3>1
      <4> QED  BY <4>1, TmpSet
    <3>2. CASE ~(mode = "w" \/ ~Exists(s))
      BY <1>3, <3>2 DEF Exists, Stored, EntryFiles
    <3> QED  BY <3>1, <3>2
  <2>2. EntryFiles'
    <3>1. /\ DOMAIN tmp' \subseteq DOMAIN tmp \cup {s} /\ DOMAIN tmp \subseteq DOMAIN tmp'
          /\ s \in DOMAIN tmp'
      BY <2>1
    <3>2. list'[cur].fp # NULL
      BY <1>3 DEF NULL, OPEN
    <3> QED  BY <1>1, <1>3, <2>1, <3>1, <3>2, OneTouched DEF Stored
  <2>3. CurFile'
    BY <1>3 DEF CurFile
  <2>4. InOrder' /\ Ranked'
    <3>1. \A j \in DOMAIN list : Due(j)' => Due(j)
      BY <1>1, <1>3 DEF Due
    <3>2. \A j \in DOMAIN list : list'[j].seq = list[j].seq
      BY <1>3
    <3> QED  BY <1>1, <1>3, <3>1, <3>2, OrderKept DEF Stored
  <2> QED  BY <1>1, <2>2, <2>3, <2>4 DEF Stored
<1> QED  BY <1>2, <1>3, FopenDoes

\* What Write does.
LEMMA WriteDoes ==
  ASSUME IInv, Write
  PROVE  /\ pc = "write" /\ cur \in DOMAIN list /\ list[cur].fp = OPEN
         /\ pc' = "idle" /\ nmsg' = nmsg + 1
         /\ UNCHANGED <<cur, closing, mode, pkt, nseq, crashes>>
         /\ \E flush, ok \in BOOLEAN :
              LET data == Append(list[cur].buf, IF ok THEN nmsg + 1 ELSE CUT) IN
              /\ Outcome("write", ok) /\ data \in Seq(Int)
              /\ IF flush /\ Exists(list[cur].seq)
                   THEN SetTmp(list[cur].seq, tmp[list[cur].seq] \o data)
                   ELSE tmp' = tmp
              /\ DOMAIN list' = DOMAIN list /\ list'[cur].fp = OPEN
              /\ list'[cur].buf = IF flush THEN <<>> ELSE data
              /\ list'[cur].seq = list[cur].seq /\ list'[cur].key = list[cur].key
              /\ \A j \in DOMAIN list : j # cur => list'[j] = list[j]
<1>1. /\ pc = "write" /\ cur \in DOMAIN list /\ list[cur].fp = OPEN /\ nmsg \in Nat
      /\ pc' = "idle" /\ nmsg' = nmsg + 1
      /\ UNCHANGED <<cur, closing, mode, pkt, nseq, crashes>>
  BY DEF Write, IInv, Shape, Busy
<1>2. PICK flush \in BOOLEAN, ok \in BOOLEAN :
        LET e == list[cur]
            data == Append(e.buf, IF ok THEN nmsg + 1 ELSE CUT)
        IN  /\ Outcome("write", ok)
            /\ IF flush /\ Exists(e.seq)
                 THEN SetTmp(e.seq, tmp[e.seq] \o data) ELSE UNCHANGED tmp
            /\ list' = [list EXCEPT ![cur].buf = IF flush THEN <<>> ELSE data]
  BY DEF Write
<1> DEFINE data == Append(list[cur].buf, IF ok THEN nmsg + 1 ELSE CUT)
<1>3. data \in Seq(Int)
  BY <1>1, EntriesAre DEF CUT
<1>4. /\ Outcome("write", ok)
      /\ IF flush /\ Exists(list[cur].seq)
           THEN SetTmp(list[cur].seq, tmp[list[cur].seq] \o data) ELSE tmp' = tmp
      /\ list' = [list EXCEPT ![cur].buf = IF flush THEN <<>> ELSE data]
  BY <1>2
<1> HIDE DEF data
<1>5. /\ DOMAIN list' = DOMAIN list /\ list'[cur].fp = OPEN
      /\ list'[cur].buf = IF flush THEN <<>> ELSE data
      /\ list'[cur].seq = list[cur].seq /\ list'[cur].key = list[cur].key
      /\ \A j \in DOMAIN list : j # cur => list'[j] = list[j]
  BY <1>1, <1>4, EntriesAre DEF Entry
<1> QED  BY <1>1, <1>3, <1>4, <1>5 DEF data

LEMMA WriteStored ==
  ASSUME IInv, Files, Stored, Write
  PROVE  Stored'
<1> DEFINE s == list[cur].seq
<1>1. /\ pc = "write" /\ cur \in DOMAIN list /\ list[cur].fp = OPEN
      /\ pc' = "idle" /\ UNCHANGED <<cur, closing, mode, pkt, nseq, crashes>>
  BY WriteDoes
<1>2. PICK flush \in BOOLEAN, data \in Seq(Int) :
        /\ IF flush /\ Exists(s) THEN SetTmp(s, tmp[s] \o data) ELSE tmp' = tmp
        /\ DOMAIN list' = DOMAIN list /\ list'[cur].fp = OPEN
        /\ list'[cur].seq = s
        /\ \A j \in DOMAIN list : j # cur => list'[j] = list[j]
  <2>1. PICK flush \in BOOLEAN, ok \in BOOLEAN :
          LET data == Append(list[cur].buf, IF ok THEN nmsg + 1 ELSE CUT) IN
          /\ data \in Seq(Int)
          /\ IF flush /\ Exists(s) THEN SetTmp(s, tmp[s] \o data) ELSE tmp' = tmp
          /\ DOMAIN list' = DOMAIN list /\ list'[cur].fp = OPEN
          /\ list'[cur].seq = s
          /\ \A j \in DOMAIN list : j # cur => list'[j] = list[j]
    BY WriteDoes
  <2> QED  BY <2>1
<1>3. Exists(s) /\ tmp[s] \in Seq(Int)
  BY <1>1 DEF Stored, EntryFiles, Exists
<1>4. /\ DOMAIN tmp' = DOMAIN tmp /\ tmp'[s] \in Seq(Int)
      /\ \A t \in DOMAIN tmp : t # s => tmp'[t] = tmp[t]
  <2>1. CASE flush
    <3>1. SetTmp(s, tmp[s] \o data) /\ (tmp[s] \o data) \in Seq(Int) /\ s \in DOMAIN tmp
      BY <1>2, <1>3, <2>1 DEF Exists
    <3> HIDE DEF s
    <3> QED  BY <3>1, TmpSet
  <2>2. CASE ~flush
    BY <1>2, <1>3, <2>2
  <2> QED  BY <2>1, <2>2
<1>5. EntryFiles'
  BY <1>1, <1>2, <1>3, <1>4, OneTouched DEF Stored, NULL, OPEN, Exists
<1>6. CurFile'
  BY <1>1 DEF CurFile
<1>7. InOrder' /\ Ranked'
  <2>1. \A j \in DOMAIN list : Due(j)' => Due(j)
    BY <1>1 DEF Due
  <2>2. \A j \in DOMAIN list : list'[j].seq = list[j].seq
    BY <1>2
  <2> QED  BY <1>1, <1>2, <2>1, <2>2, OrderKept DEF Stored
<1> QED  BY <1>1, <1>5, <1>6, <1>7 DEF Stored

\* What CloseEntry does.
LEMMA CloseEntryDoes ==
  ASSUME IInv, CloseEntry
  PROVE  /\ pc = "close" /\ closing /\ cur \in DOMAIN list /\ list[cur].fp = OPEN
         /\ pc' = "rename"
         /\ UNCHANGED <<cur, closing, mode, pkt, nseq, nmsg, crashes>>
         /\ DOMAIN list' = DOMAIN list /\ list'[cur].fp = NULL /\ list'[cur].buf = <<>>
         /\ list'[cur].seq = list[cur].seq /\ list'[cur].key = list[cur].key
         /\ \A j \in DOMAIN list : j # cur => list'[j] = list[j]
         /\ \E ok \in BOOLEAN :
              LET data == IF ok THEN Append(list[cur].buf, END) ELSE <<CUT>> IN
              /\ Outcome("fclose", ok) /\ data \in Seq(Int)
              /\ SetTmp(list[cur].seq, tmp[list[cur].seq] \o data)
<1>1. /\ pc = "close" /\ closing /\ cur \in DOMAIN list /\ list[cur].fp = OPEN
      /\ pc' = "rename"
      /\ UNCHANGED <<cur, closing, mode, pkt, nseq, nmsg, crashes>>
      /\ list' = [list EXCEPT ![cur].fp = NULL, ![cur].buf = <<>>]
  BY DEF CloseEntry, IInv, Shape, Busy
<1>2. /\ DOMAIN list' = DOMAIN list /\ list'[cur].fp = NULL /\ list'[cur].buf = <<>>
      /\ list'[cur].seq = list[cur].seq /\ list'[cur].key = list[cur].key
      /\ \A j \in DOMAIN list : j # cur => list'[j] = list[j]
  BY <1>1, EntriesAre DEF Entry
<1>3. PICK ok \in BOOLEAN :
        /\ Outcome("fclose", ok)
        /\ SetTmp(list[cur].seq,
                  tmp[list[cur].seq] \o (IF ok THEN Append(list[cur].buf, END) ELSE <<CUT>>))
  BY DEF CloseEntry
<1>4. (IF ok THEN Append(list[cur].buf, END) ELSE <<CUT>>) \in Seq(Int)
  <2>1. list[cur].buf \in Seq(Int) /\ END \in Int /\ CUT \in Int
    BY <1>1, EntriesAre DEF END, CUT
  <2> QED  BY <2>1
<1> QED  BY <1>1, <1>2, <1>3, <1>4

LEMMA CloseEntryStored ==
  ASSUME IInv, Files, Stored, CloseEntry
  PROVE  Stored'
<1> DEFINE s == list[cur].seq
<1>1. /\ pc = "close" /\ closing /\ cur \in DOMAIN list /\ list[cur].fp = OPEN
      /\ pc' = "rename" /\ UNCHANGED <<cur, closing, mode, pkt, nseq, crashes>>
      /\ DOMAIN list' = DOMAIN list /\ list'[cur].fp = NULL /\ list'[cur].buf = <<>>
      /\ list'[cur].seq = s
      /\ \A j \in DOMAIN list : j # cur => list'[j] = list[j]
  BY CloseEntryDoes
<1>2. PICK data \in Seq(Int) : SetTmp(s, tmp[s] \o data)
  BY CloseEntryDoes
<1>3. Exists(s) /\ tmp[s] \in Seq(Int)
  BY <1>1 DEF Stored, EntryFiles, Exists
<1>4. /\ DOMAIN tmp' = DOMAIN tmp /\ tmp'[s] \in Seq(Int)
      /\ \A t \in DOMAIN tmp : t # s => tmp'[t] = tmp[t]
  <2>1. (tmp[s] \o data) \in Seq(Int) /\ s \in DOMAIN tmp
    BY <1>3 DEF Exists
  <2> HIDE DEF s
  <2> QED  BY <1>2, <2>1, TmpSet
<1>5. EntryFiles'
  BY <1>1, <1>3, <1>4, OneTouched DEF Stored, NULL, OPEN, Exists
<1>6. CurFile'
  BY <1>1, <1>3, <1>4 DEF CurFile, Exists
<1>7. InOrder' /\ Ranked'
  <2>1. \A j \in DOMAIN list : Due(j)' => Due(j)
    BY <1>1 DEF Due
  <2>2. \A j \in DOMAIN list : list'[j].seq = list[j].seq
    BY <1>1
  <2> QED  BY <1>1, <2>1, <2>2, OrderKept DEF Stored
<1> QED  BY <1>1, <1>5, <1>6, <1>7 DEF Stored

\* A number behind all others of a set is its last one.
LEMMA NthGrows ==
  ASSUME NEW S \in SUBSET Nat, IsFiniteSet(S), NEW s \in Nat, \A t \in S : t < s
  PROVE  /\ Cardinality(S) \in Nat
         /\ Cardinality(S \cup {s}) = Cardinality(S) + 1
         /\ \A i \in 1 .. Cardinality(S) : Nth(S \cup {s}, i) = Nth(S, i)
         /\ Nth(S \cup {s}, Cardinality(S) + 1) = {s}
<1> DEFINE T == S \cup {s}
           n == Cardinality(S)
<1>1. s \notin S
  OBVIOUS
<1>2. n \in Nat /\ Cardinality(T) = n + 1
  BY <1>1, FS_AddElement, FS_CardinalityType
<1>3. ASSUME NEW t \in S
      PROVE  /\ {u \in T : u <= t} = {u \in S : u <= t}
             /\ Cardinality({u \in S : u <= t}) \in Nat
             /\ Cardinality({u \in S : u <= t}) <= n
  <2>1. {u \in T : u <= t} = {u \in S : u <= t}
    OBVIOUS
  <2>2. {u \in S : u <= t} \subseteq S
    OBVIOUS
  <2> QED  BY <2>1, <2>2, FS_Subset, FS_CardinalityType
<1>4. {u \in T : u <= s} = T
  <2>1. \A u \in T : u <= s
    OBVIOUS
  <2> HIDE DEF T
  <2> QED  BY <2>1
<1> HIDE DEF n
<1>5. ASSUME NEW i \in 1 .. n PROVE Nth(T, i) = Nth(S, i)
  <2>1. \A t \in T : t \in Nth(T, i) <=> t \in Nth(S, i)
    <3> SUFFICES ASSUME NEW t \in T PROVE t \in Nth(T, i) <=> t \in Nth(S, i)
      OBVIOUS
    <3>1. CASE t \in S
      BY <1>3, <3>1 DEF Nth
    <3>2. CASE t = s
      BY <1>1, <1>2, <1>4, <3>2 DEF Nth
    <3> QED  BY <3>1, <3>2
  <2>2. Nth(T, i) \subseteq T /\ Nth(S, i) \subseteq T
    BY DEF Nth
  <2> QED  BY <2>1, <2>2
<1>6. Nth(T, n + 1) = {s}
  <2>1. s \in Nth(T, n + 1)
    BY <1>2, <1>4 DEF Nth
  <2>2. ASSUME NEW t \in S PROVE t \notin Nth(T, n + 1)
    <3>1. Cardinality({u \in T : u <= t}) # n + 1
      BY <1>2, <1>3
    <3> QED  BY <3>1 DEF Nth
  <2>3. Nth(T, n + 1) \subseteq T
    BY DEF Nth
  <2> QED  BY <2>1, <2>2, <2>3
<1> QED  BY <1>2, <1>5, <1>6 DEF n

\* What Rename does: the packet gets its name, and is the last of its destination.
LEMMA RenameDoes ==
  ASSUME IInv, Stored, Rename
  PROVE  /\ pc = "rename" /\ pc' = "free" /\ closing /\ cur \in DOMAIN list
         /\ list[cur].fp = NULL /\ list[cur].buf = <<>>
         /\ Exists(list[cur].seq) /\ tmp[list[cur].seq] \in Seq(Int)
         /\ UNCHANGED <<list, cur, closing, mode, nseq, nmsg, crashes, faults>>
         /\ DOMAIN tmp' = DOMAIN tmp \ {list[cur].seq}
         /\ \A t \in DOMAIN tmp' : tmp'[t] = tmp[t]
         /\ DOMAIN pkt' = DOMAIN pkt \cup {list[cur].seq}
         /\ list[cur].seq \in 1 .. nseq
         /\ \A t \in DOMAIN pkt : t < list[cur].seq /\ pkt'[t] = pkt[t] /\ t \in 1 .. nseq
         /\ pkt'[list[cur].seq].key = list[cur].key
         /\ pkt'[list[cur].seq].data = tmp[list[cur].seq]
<1> DEFINE s == list[cur].seq
<1>1. /\ pc = "rename" /\ pc' = "free" /\ closing /\ cur \in DOMAIN list
      /\ list[cur].fp = NULL /\ Exists(s)
      /\ UNCHANGED <<list, cur, closing, mode, nseq, nmsg, crashes, faults>>
      /\ pkt' = [t \in DOMAIN pkt \cup {s} |->
                   IF t = s THEN [key |-> list[cur].key, data |-> tmp[s]] ELSE pkt[t]]
      /\ tmp' = [t \in DOMAIN tmp \ {s} |-> tmp[t]]
  BY EntriesAre DEF Rename, IInv, Shape, Busy, Stored, CurFile
<1>2. list[cur].buf = <<>> /\ tmp[s] \in Seq(Int) /\ s \in 1 .. nseq
  BY <1>1 DEF Stored, EntryFiles, Exists
<1>3. \A t \in DOMAIN pkt : t < s /\ t \in 1 .. nseq
  BY <1>1 DEF Stored, InOrder, Due
<1>4. nseq \in Nat
  BY DEF IInv, Shape
<1>5. \A t \in DOMAIN pkt : pkt'[t] = pkt[t]
  <2> SUFFICES ASSUME NEW t \in DOMAIN pkt PROVE pkt'[t] = pkt[t]
    OBVIOUS
  <2>1. t # s
    BY <1>2, <1>3, <1>4
  <2> QED  BY <1>1, <2>1
<1> QED  BY <1>1, <1>2, <1>3, <1>5

\* The packets of its destination are one more, those of others are the same.
LEMMA RenamePackets ==
  ASSUME IInv, Stored, Rename, NEW k \in Key
  PROVE  /\ k # list[cur].key => Packets(k)' = Packets(k)
         /\ k = list[cur].key =>
              /\ Packets(k)' = Packets(k) \cup {list[cur].seq}
              /\ Cardinality(Packets(k)) \in Nat
              /\ Cardinality(Packets(k)') = Cardinality(Packets(k)) + 1
              /\ \A i \in 1 .. Cardinality(Packets(k)) :
                   Nth(Packets(k)', i) = Nth(Packets(k), i)
              /\ Nth(Packets(k)', Cardinality(Packets(k)) + 1) = {list[cur].seq}
<1> DEFINE s == list[cur].seq
<1>1. /\ DOMAIN pkt' = DOMAIN pkt \cup {s} /\ s \in 1 .. nseq
      /\ \A t \in DOMAIN pkt : t < s /\ pkt'[t] = pkt[t] /\ t \in 1 .. nseq
      /\ pkt'[s].key = list[cur].key
  BY RenameDoes
<1>2. nseq \in Nat
  BY DEF IInv, Shape
<1> HIDE DEF s
<1>3. k # list[cur].key => Packets(k)' = Packets(k)
  BY <1>1 DEF Packets
<1>4. k = list[cur].key => Packets(k)' = Packets(k) \cup {s}
  BY <1>1 DEF Packets
<1>5. Packets(k) \in SUBSET (1 .. nseq) /\ \A t \in Packets(k) : t < s
  BY <1>1 DEF Packets
<1>6. IsFiniteSet(Packets(k))
  <2>1. IsFiniteSet(1 .. nseq)
    BY <1>2, FS_Interval
  <2> QED  BY <1>5, <2>1, FS_Subset
<1>7. Packets(k) \in SUBSET Nat /\ s \in Nat
  BY <1>1, <1>2, <1>5
<1> DEFINE S == Packets(k)
<1>8. /\ Cardinality(S) \in Nat
      /\ Cardinality(S \cup {s}) = Cardinality(S) + 1
      /\ \A i \in 1 .. Cardinality(S) : Nth(S \cup {s}, i) = Nth(S, i)
      /\ Nth(S \cup {s}, Cardinality(S) + 1) = {s}
  <2>1. S \in SUBSET Nat /\ IsFiniteSet(S) /\ s \in Nat /\ \A t \in S : t < s
    BY <1>5, <1>6, <1>7
  <2> HIDE DEF S
  <2> QED  BY <2>1, NthGrows
<1> QED  BY <1>3, <1>4, <1>8 DEF s

LEMMA RenameStored ==
  ASSUME IInv, Files, Stored, Rename
  PROVE  Stored'
<1> DEFINE s == list[cur].seq
<1>1. /\ pc = "rename" /\ pc' = "free" /\ closing /\ cur \in DOMAIN list
      /\ list[cur].fp = NULL
      /\ UNCHANGED <<list, cur, closing, mode, nseq, nmsg, crashes, faults>>
      /\ DOMAIN tmp' = DOMAIN tmp \ {s}
      /\ \A t \in DOMAIN tmp' : tmp'[t] = tmp[t]
      /\ DOMAIN pkt' = DOMAIN pkt \cup {s} /\ s \in 1 .. nseq
  BY RenameDoes
<1>2. EntryFiles'
  <2>1. ASSUME NEW j \in DOMAIN list PROVE list[j].fp = OPEN => list[j].seq \in DOMAIN tmp'
    <3>1. CASE j = cur
      BY <1>1, <3>1 DEF NULL, OPEN
    <3>2. CASE j # cur
      BY <1>1, <3>2 DEF Stored, EntryFiles, Exists, IInv, OneEntryPerPacket
    <3> QED  BY <3>1, <3>2
  <2> QED  BY <1>1, <2>1 DEF Stored, EntryFiles, Exists
<1>3. CurFile'
  BY <1>1 DEF CurFile
<1>4. InOrder'
  <2>1. \A i, j \in DOMAIN list : i < j => list[i].seq < list[j].seq
    BY DEF Stored, InOrder
  <2>2. ASSUME NEW j \in DOMAIN list, Due(j)'
        PROVE  Due(j) /\ s < list[j].seq
    <3>1. cur < j
      BY <1>1, <2>2 DEF Due
    <3> QED  BY <1>1, <2>1, <3>1 DEF Due
  <2> QED  BY <1>1, <2>1, <2>2 DEF Stored, InOrder
<1>5. Ranked'
  <2> SUFFICES ASSUME NEW k \in Key, NEW i \in 1 .. Cardinality(Packets(k)')
               PROVE  Nth(Packets(k)', i) # {}
    BY DEF Ranked
  <2>1. CASE k # list[cur].key
    BY <2>1, RenamePackets DEF Stored, Ranked
  <2>2. CASE k = list[cur].key
    <3> DEFINE n == Cardinality(Packets(k))
    <3>1. /\ n \in Nat /\ Cardinality(Packets(k)') = n + 1
          /\ \A m \in 1 .. n : Nth(Packets(k)', m) = Nth(Packets(k), m)
          /\ Nth(Packets(k)', n + 1) = {s}
      BY <2>2, RenamePackets
    <3>2. \A m \in 1 .. n : Nth(Packets(k), m) # {}
      BY DEF Stored, Ranked
    <3> HIDE DEF n, s
    <3>3. i \in 1 .. n + 1
      BY <3>1
    <3>4. CASE i = n + 1
      BY <3>1, <3>4
    <3>5. CASE i # n + 1
      <4>1. i \in 1 .. n
        BY <3>1, <3>3, <3>5
      <4> QED  BY <3>1, <3>2, <4>1
    <3> QED  BY <3>4, <3>5
  <2> QED  BY <2>1, <2>2
<1> QED  BY <1>1, <1>2, <1>3, <1>4, <1>5 DEF Stored

\* The steps of outpkt_close() between entries.
LEMMA WalkDoes ==
  ASSUME IInv, StartClose \/ NextEntry \/ Free
  PROVE  /\ UNCHANGED <<list, tmp, pkt, nseq, nmsg, crashes, faults>>
         /\ pc' \in {"next", "fopen", "close"} /\ closing'
         /\ pc' = "fopen" => mode' = "a"
         /\ \A j \in DOMAIN list : Due(j)' <=> Due(j)
<1>1. /\ UNCHANGED <<list, tmp, pkt, nseq, nmsg, crashes, faults>>
      /\ pc' \in {"next", "fopen", "close"} /\ closing'
      /\ pc' = "fopen" => mode' = "a"
  BY DEF StartClose, NextEntry, Free, disk, IInv, Shape
<1>2. ASSUME NEW j \in DOMAIN list PROVE Due(j)' <=> Due(j)
  <2>1. j \in Nat /\ j >= 1 /\ cur \in Nat
    BY EntriesAre
  <2>2. CASE StartClose
    BY <2>1, <2>2 DEF StartClose, Due, IInv, Shape
  <2>3. CASE NextEntry
    BY <2>3 DEF NextEntry, Due
  <2>4. CASE Free
    <3>1. cur' = cur + 1 /\ closing' = closing /\ pc = "free" /\ pc' = "next"
      BY <2>4 DEF Free
    <3>2. cur' < j \/ cur' = j <=> cur < j
      BY <2>1, <3>1
    <3> QED  BY <3>1, <3>2 DEF Due
  <2> QED  BY <2>2, <2>3, <2>4
<1> QED  BY <1>1, <1>2

LEMMA WalkStored ==
  ASSUME IInv, Files, Stored, StartClose \/ NextEntry \/ Free
  PROVE  Stored'
<1>1. /\ UNCHANGED <<list, tmp, pkt, nseq, nmsg, crashes, faults>>
      /\ pc' \in {"next", "fopen", "close"}
      /\ pc' = "fopen" => mode' = "a"
      /\ \A j \in DOMAIN list : Due(j)' <=> Due(j)
  BY WalkDoes
<1>2. EntryFiles'
  BY <1>1 DEF Stored, EntryFiles, Exists
<1>3. CurFile'
  BY <1>1 DEF CurFile
<1>4. InOrder' /\ Ranked'
  BY <1>1, OrderKept DEF Stored
<1> QED  BY <1>1, <1>2, <1>3, <1>4 DEF Stored

LEMMA EmptyStored ==
  ASSUME IInv, Files, Stored, EndClose \/ Crash
  PROVE  Stored'
<1>1. /\ list' = <<>> /\ DOMAIN list' = {} /\ pc' = "idle"
      /\ UNCHANGED <<tmp, pkt, nseq>> /\ crashes' \in Nat
  BY DEF EndClose, Crash, disk, Stored
<1>2. EntryFiles'
  BY <1>1 DEF Stored, EntryFiles
<1>3. CurFile'
  BY <1>1 DEF CurFile
<1>4. InOrder'
  BY <1>1 DEF Stored, InOrder
<1>5. Ranked'
  BY <1>1 DEF Stored, Ranked, Packets
<1> QED  BY <1>1, <1>2, <1>3, <1>4, <1>5 DEF Stored

LEMMA InitStored == Init => Stored
<1> SUFFICES ASSUME Init PROVE Stored
  OBVIOUS
<1>1. list = <<>> /\ tmp = <<>> /\ pkt = <<>> /\ pc = "idle" /\ crashes = 0
  BY DEF Init
<1>2. DOMAIN list = {} /\ DOMAIN tmp = {} /\ DOMAIN pkt = {}
  BY <1>1
<1>3. \A k : Packets(k) = {}
  BY <1>2 DEF Packets
<1>4. Ranked
  BY <1>3, FS_EmptySet DEF Ranked
<1> QED  BY <1>1, <1>2, <1>4 DEF Stored, EntryFiles, CurFile, InOrder

LEMMA NextStored ==
  ASSUME IInv, Files, Stored, [Next]_vars
  PROVE  Stored'
<1>1. CASE \E k \in Key : OpenFound(k) \/ OpenNew(k)
  BY <1>1, OpenFoundStored, OpenNewStored
<1>2. CASE CloseLn \/ Fopen \/ Write
  BY <1>2, CloseLnStored, FopenStored, WriteStored
<1>3. CASE StartClose \/ NextEntry \/ Free
  BY <1>3, WalkStored
<1>4. CASE CloseEntry \/ Rename
  BY <1>4, CloseEntryStored, RenameStored
<1>5. CASE EndClose \/ Crash
  BY <1>5, EmptyStored
<1>6. CASE UNCHANGED vars
  <2>1. UNCHANGED <<list, tmp, pkt, nseq, crashes, pc, cur, closing, mode>>
    BY <1>6 DEF vars
  <2>2. EntryFiles' /\ CurFile'
    BY <2>1 DEF Stored, EntryFiles, CurFile, Exists
  <2>3. InOrder' /\ Ranked'
    <3>1. \A j \in DOMAIN list : Due(j)' => Due(j)
      BY <2>1 DEF Due
    <3> QED  BY <2>1, <3>1, OrderKept DEF Stored
  <2> QED  BY <2>1, <2>2, <2>3 DEF Stored
<1> QED  BY <1>1, <1>2, <1>3, <1>4, <1>5, <1>6 DEF Next, Step, Done

\* A prefix, and what is written behind a file.
LEMMA PrefixOf ==
  ASSUME NEW u \in Seq(Int), NEW v \in Seq(Int)
  PROVE  /\ Spool!IsPrefix(u, u \o v) /\ Spool!IsPrefix(u, u) /\ Spool!IsPrefix(<<>>, u)
         /\ u \o <<>> = u /\ (u \o v) \in Seq(Int)
<1>1. Spool!IsPrefix(u, u \o v)
  <2>1. Len(u) <= Len(u \o v) /\ SubSeq(u, 1, Len(u)) = SubSeq(u \o v, 1, Len(u))
    OBVIOUS
  <2> QED  BY <2>1 DEF Spool!IsPrefix
<1>2. Spool!IsPrefix(u, u) /\ u \o <<>> = u /\ (u \o v) \in Seq(Int)
  BY DEF Spool!IsPrefix
<1>3. Spool!IsPrefix(<<>>, u)
  <2>1. Len(<<>>) = 0 /\ Len(u) \in Nat
    OBVIOUS
  <2>2. SubSeq(<<>>, 1, 0) = SubSeq(u, 1, 0)
    OBVIOUS
  <2> QED  BY <2>1, <2>2 DEF Spool!IsPrefix
<1> QED  BY <1>1, <1>2, <1>3

LEMMA MessagesWritten ==
  ASSUME NEW a \in Seq(Int), NEW b \in Seq(Int)
  PROVE  /\ Messages(a \o b) \in Seq(Int)
         /\ Messages((a \o b) \o <<>>) = Messages(a \o b)
         /\ Messages(a \o <<>>) = Messages(a)
         /\ \A x \in Int :
              /\ Messages(a \o Append(b, x))
                   = IF x > 0 THEN Append(Messages(a \o b), x) ELSE Messages(a \o b)
              /\ Messages((a \o Append(b, x)) \o <<>>) = Messages(a \o Append(b, x))
              /\ x <= 0 => Spool!IsPrefix(Messages((a \o <<x>>) \o <<>>), Messages(a \o b))
<1>1. (a \o b) \in Seq(Int) /\ (a \o b) \o <<>> = a \o b /\ a \o <<>> = a
  BY PrefixOf
<1>2. /\ Messages(a \o b) \in Seq(Int) /\ Messages(a) \in Seq(Int) /\ Messages(b) \in Seq(Int)
      /\ Messages(a \o b) = Messages(a) \o Messages(b)
  BY <1>1, MessagesJoin
<1>3. ASSUME NEW x \in Int
      PROVE  /\ Messages(a \o Append(b, x))
                  = IF x > 0 THEN Append(Messages(a \o b), x) ELSE Messages(a \o b)
             /\ Messages((a \o Append(b, x)) \o <<>>) = Messages(a \o Append(b, x))
             /\ x <= 0 => Spool!IsPrefix(Messages((a \o <<x>>) \o <<>>), Messages(a \o b))
  <2>1. Append(b, x) \in Seq(Int) /\ <<x>> \in Seq(Int) /\ (a \o <<x>>) \in Seq(Int)
    OBVIOUS
  <2>2. a \o Append(b, x) = (a \o b) \o <<x>> /\ (a \o Append(b, x)) \in Seq(Int)
    OBVIOUS
  <2>3. Messages((a \o b) \o <<x>>) = Messages(a \o b) \o Messages(<<x>>)
    BY <1>1, <2>1, MessagesJoin
  <2>4. Messages(a \o b) \o Messages(<<x>>)
          = IF x > 0 THEN Append(Messages(a \o b), x) ELSE Messages(a \o b)
    <3>1. ASSUME NEW u \in Seq(Int) PROVE u \o <<x>> = Append(u, x) /\ u \o <<>> = u
      OBVIOUS
    <3>2. Messages(<<x>>) = IF x > 0 THEN <<x>> ELSE <<>>
      BY MessagesOne
    <3> QED  BY <1>2, <3>1, <3>2
  <2>5. (a \o Append(b, x)) \o <<>> = a \o Append(b, x)
        /\ (a \o <<x>>) \o <<>> = a \o <<x>>
    BY <2>1, <2>2, PrefixOf
  <2>6. ASSUME x <= 0 PROVE Spool!IsPrefix(Messages((a \o <<x>>) \o <<>>), Messages(a \o b))
    <3>1. Messages(a \o <<x>>) = Messages(a) \o Messages(<<x>>)
      BY <2>1, MessagesJoin
    <3>2. Messages(<<x>>) = <<>>
      BY <2>6, MessagesOne
    <3>3. Messages(a \o <<x>>) = Messages(a)
      BY <1>2, <3>1, <3>2, PrefixOf
    <3> QED  BY <1>2, <2>5, <3>3, PrefixOf
  <2> QED  BY <2>2, <2>3, <2>4, <2>5, <2>6
<1> QED  BY <1>1, <1>2, <1>3

\* What waits for a destination is what its entry holds.
LEMMA PendingIs ==
  ASSUME IInv, NEW k \in Key
  PROVE  /\ Waiting(k) = {i \in DOMAIN list : list[i].key = k /\ Due(i)}
         /\ Waiting(k) = {} => PendingOf(k) = <<>>
         /\ \A i \in Waiting(k) : PendingOf(k) = Held(i)
<1>1. Waiting(k) = {i \in DOMAIN list : list[i].key = k /\ Due(i)}
  BY DEF Waiting, Find, Due
<1>2. \A i, j \in Waiting(k) : i = j
  BY <1>1 DEF IInv, OneEntryPerPacket
<1>3. \A i \in Waiting(k) : PendingOf(k) = Held(i)
  <2> SUFFICES ASSUME NEW i \in Waiting(k) PROVE PendingOf(k) = Held(i)
    OBVIOUS
  <2>1. Waiting(k) = {i}
    BY <1>2
  <2>2. (CHOOSE j \in Waiting(k) : TRUE) = i
    BY <2>1
  <2> QED  BY <2>1, <2>2 DEF PendingOf
<1> QED  BY <1>1, <1>3 DEF PendingOf

LEMMA PendingIsNext ==
  ASSUME IInv', NEW k \in Key
  PROVE  /\ Waiting(k)' = {i \in DOMAIN list' : list'[i].key = k /\ Due(i)'}
         /\ Waiting(k)' = {} => PendingOf(k)' = <<>>
         /\ \A i \in Waiting(k)' : PendingOf(k)' = Held(i)'
<1>1. Waiting(k)' = {i \in DOMAIN list' : list'[i].key = k /\ Due(i)'}
  BY DEF Waiting, Find, Due
<1>2. \A i, j \in Waiting(k)' : i = j
  BY <1>1 DEF IInv, OneEntryPerPacket
<1>3. \A i \in Waiting(k)' : PendingOf(k)' = Held(i)'
  <2> SUFFICES ASSUME NEW i \in Waiting(k)' PROVE PendingOf(k)' = Held(i)'
    OBVIOUS
  <2>1. Waiting(k)' = {i}
    BY <1>2
  <2>2. (CHOOSE j \in Waiting(k)' : TRUE) = i
    BY <2>1
  <2> QED  BY <2>1, <2>2 DEF PendingOf
<1> QED  BY <1>1, <1>3 DEF PendingOf

LEMMA HeldSeq ==
  ASSUME IInv, EntryFiles, NEW j \in DOMAIN list
  PROVE  /\ Held(j) \in Seq(Int)
         /\ Exists(list[j].seq) =>
              /\ tmp[list[j].seq] \in Seq(Int) /\ list[j].buf \in Seq(Int)
              /\ Held(j) = Messages(tmp[list[j].seq] \o list[j].buf)
<1>1. CASE Exists(list[j].seq)
  <2>1. tmp[list[j].seq] \in Seq(Int) /\ list[j].buf \in Seq(Int)
    BY <1>1, EntriesAre DEF EntryFiles, Exists
  <2> QED  BY <1>1, <2>1, MessagesWritten DEF Held
<1>2. CASE ~Exists(list[j].seq)
  <2>1. <<>> \in Seq(Int)
    OBVIOUS
  <2> QED  BY <1>2, <2>1 DEF Held
<1> QED  BY <1>1, <1>2

\* An entry whose file is left alone.
LEMMA HeldAlone ==
  ASSUME NEW j \in DOMAIN list, NEW s, list[j].seq # s,
         list'[j].seq = list[j].seq, list'[j].buf = list[j].buf,
         DOMAIN tmp' \ {s} = DOMAIN tmp \ {s},
         \A t \in DOMAIN tmp \ {s} : tmp'[t] = tmp[t]
  PROVE  Held(j)' = Held(j)
<1>1. list[j].seq \in DOMAIN tmp' <=> list[j].seq \in DOMAIN tmp
  OBVIOUS
<1>2. list[j].seq \in DOMAIN tmp => tmp'[list[j].seq] = tmp[list[j].seq]
  OBVIOUS
<1> QED  BY <1>1, <1>2 DEF Held, Exists

\* Entries that stay, and hold what they held or less.
LEMMA PendingSame ==
  ASSUME IInv, IInv', NEW k \in Key, DOMAIN list' = DOMAIN list,
         \A j \in DOMAIN list :
           /\ list'[j].key = list[j].key
           /\ list[j].key = k => (Due(j)' <=> Due(j)) /\ Held(j)' = Held(j)
  PROVE  PendingOf(k)' = PendingOf(k)
<1>1. Waiting(k)' = Waiting(k)
  <2>1. Waiting(k) = {i \in DOMAIN list : list[i].key = k /\ Due(i)}
    BY PendingIs
  <2>2. Waiting(k)' = {i \in DOMAIN list' : list'[i].key = k /\ Due(i)'}
    BY PendingIsNext
  <2> QED  BY <2>1, <2>2
<1>2. CASE Waiting(k) = {}
  BY <1>1, <1>2, PendingIs, PendingIsNext
<1>3. CASE Waiting(k) # {}
  <2>1. PICK j \in Waiting(k) : j \in DOMAIN list /\ list[j].key = k
    BY <1>3, PendingIs
  <2>2. PendingOf(k) = Held(j) /\ PendingOf(k)' = Held(j)'
    BY <1>1, <2>1, PendingIs, PendingIsNext
  <2> QED  BY <2>1, <2>2
<1> QED  BY <1>2, <1>3

LEMMA PendingLess ==
  ASSUME IInv, IInv', EntryFiles, NEW k \in Key, DOMAIN list' = DOMAIN list,
         \A j \in DOMAIN list : /\ list'[j].key = list[j].key
                                /\ Due(j)' => Due(j)
                                /\ Spool!IsPrefix(Held(j)', Held(j))
  PROVE  Spool!IsPrefix(PendingOf(k)', PendingOf(k))
<1>1. Waiting(k)' \subseteq Waiting(k)
  BY PendingIs, PendingIsNext
<1>2. CASE Waiting(k)' = {}
  <2>1. PendingOf(k)' = <<>>
    BY <1>2, PendingIsNext
  <2>2. PendingOf(k) \in Seq(Int)
    <3>1. CASE Waiting(k) = {}
      <4>1. <<>> \in Seq(Int)
        OBVIOUS
      <4> QED  BY <3>1, <4>1, PendingIs
    <3>2. CASE Waiting(k) # {}
      <4>1. PICK j \in Waiting(k) : j \in DOMAIN list
        BY <3>2, PendingIs
      <4> QED  BY <4>1, PendingIs, HeldSeq
    <3> QED  BY <3>1, <3>2
  <2> QED  BY <2>1, <2>2, PrefixOf
<1>3. CASE Waiting(k)' # {}
  <2>1. PICK j \in Waiting(k)' : j \in Waiting(k) /\ j \in DOMAIN list
    BY <1>1, <1>3, PendingIs
  <2>2. PendingOf(k)' = Held(j)' /\ PendingOf(k) = Held(j)
    BY <2>1, PendingIs, PendingIsNext
  <2> QED  BY <2>1, <2>2
<1> QED  BY <1>2, <1>3

LEMMA PublishedSame ==
  ASSUME pkt' = pkt
  PROVE  \A k : PublishedOf(k)' = PublishedOf(k)
BY DEF PublishedOf, Packets

-----------------------------------------------------------------------------
\* How steps look in PacketSpool.
LEMMA SpoolStutters ==
  ASSUME \A k \in Key : PendingOf(k)' = PendingOf(k),
         \A k \in Key : PublishedOf(k)' = PublishedOf(k),
         crashes' = crashes, faults' = faults
  PROVE  UNCHANGED Spool!spool
BY DEF Spool!spool

LEMMA SpoolAccepts ==
  ASSUME NEW k \in Key, NEW m \in 1 .. MaxMsg,
         PendingOf(k)' = Append(PendingOf(k), m),
         \A l \in Key : l # k => PendingOf(l)' = PendingOf(l),
         \A l \in Key : PublishedOf(l)' = PublishedOf(l),
         crashes' = crashes, faults' = faults
  PROVE  Spool!Next
<1>1. [l \in Key |-> PendingOf(l)]'
        = [[l \in Key |-> PendingOf(l)] EXCEPT ![k] = Append(@, m)]
  OBVIOUS
<1>2. Spool!Accept(k)
  BY <1>1 DEF Spool!Accept
<1> QED  BY <1>2 DEF Spool!Next

LEMMA SpoolLoses ==
  ASSUME \A k \in Key : Spool!IsPrefix(PendingOf(k)', PendingOf(k)),
         \A k \in Key : PublishedOf(k)' = PublishedOf(k),
         (crashes + faults)' = (crashes + faults) + 1
  PROVE  Spool!Next
<1>1. Spool!Lose
  BY DEF Spool!Lose
<1> QED  BY <1>1 DEF Spool!Next

LEMMA SpoolPublishes ==
  ASSUME NEW k \in Key, PendingOf(k) # <<>> \/ crashes + faults > 0,
         PendingOf(k)' = <<>>, PublishedOf(k)' = Append(PublishedOf(k), PendingOf(k)),
         \A l \in Key : l # k => /\ PendingOf(l)' = PendingOf(l)
                                 /\ PublishedOf(l)' = PublishedOf(l),
         crashes' = crashes, faults' = faults
  PROVE  Spool!Next
<1>1. [l \in Key |-> PendingOf(l)]' = [[l \in Key |-> PendingOf(l)] EXCEPT ![k] = <<>>]
  OBVIOUS
<1>2. [l \in Key |-> PublishedOf(l)]'
        = [[l \in Key |-> PublishedOf(l)] EXCEPT ![k] = Append(@, PendingOf(k))]
  OBVIOUS
<1>3. Spool!Publish(k)
  BY <1>1, <1>2 DEF Spool!Publish
<1> QED  BY <1>3 DEF Spool!Next

LEMMA OutcomeIs ==
  ASSUME NEW call, NEW ok \in BOOLEAN, Outcome(call, ok)
  PROVE  faults' = IF ok THEN faults ELSE faults + 1
BY DEF Outcome

\* Handing a message over begins with its entry: nothing waits there yet, or
\* what waits stays.
LEMMA OpenFoundRefines ==
  ASSUME NEW k \in Key, IInv, IInv', Files, Stored, OpenFound(k)
  PROVE  UNCHANGED Spool!spool
<1>1. PICK i \in Find(k) : list' = [list EXCEPT ![i].n = @ + 1]
  BY DEF OpenFound
<1>2. ~closing /\ UNCHANGED <<closing, tmp, pkt, crashes, faults>>
  BY DEF OpenFound, disk, IInv, Shape
<1>3. DOMAIN list' = DOMAIN list
  BY <1>1
<1>4. \A j \in DOMAIN list : /\ list'[j].key = list[j].key /\ list'[j].seq = list[j].seq
                             /\ list'[j].buf = list[j].buf
  BY <1>1, EntriesAre DEF Entry
<1>5. \A j \in DOMAIN list : (Due(j)' <=> Due(j)) /\ Held(j)' = Held(j)
  BY <1>2, <1>4 DEF Due, Held, Exists
<1> QED  BY <1>2, <1>3, <1>4, <1>5, PendingSame, PublishedSame, SpoolStutters

LEMMA OpenNewRefines ==
  ASSUME NEW k \in Key, IInv, IInv', Files, Stored, OpenNew(k)
  PROVE  UNCHANGED Spool!spool
<1>0. PICK m \in Nat : m = Len(list)
  BY EntriesAre
<1> DEFINE e == [key |-> k, seq |-> nseq', n |-> 1, fp |-> NULL, buf |-> <<>>]
<1>1. /\ list' = Append(list, e) /\ ~closing /\ nseq' = nseq + 1 /\ nseq \in Nat
      /\ UNCHANGED <<closing, tmp, pkt, crashes, faults>> /\ Find(k) = {}
  BY DEF OpenNew, disk, IInv, Shape
<1>2. e.key = k /\ e.seq = nseq + 1
  BY <1>1
<1> HIDE DEF e
<1>3. /\ DOMAIN list' = 1 .. m + 1 /\ m \in Nat /\ DOMAIN list = 1 .. m
      /\ \A j \in 1 .. m : list'[j] = list[j]
      /\ list'[m + 1] = e
  BY <1>0, <1>1, EntriesAre
<1>4. nseq + 1 \notin DOMAIN tmp
  BY <1>1 DEF Stored, EntryFiles
<1>5. \A j : Due(j) /\ Due(j)'
  BY <1>1 DEF Due
<1>6. \A j \in 1 .. m : Held(j)' = Held(j)
  BY <1>1, <1>3 DEF Held, Exists
<1>7. Held(m + 1)' = <<>>
  <2>1. list'[m + 1].seq \notin DOMAIN tmp'
    BY <1>1, <1>2, <1>3, <1>4
  <2> QED  BY <2>1 DEF Held, Exists
<1>8. ASSUME NEW l \in Key PROVE PendingOf(l)' = PendingOf(l)
  <2>1. CASE l = k
    <3>1. Waiting(k) = {}
      BY <1>1, PendingIs DEF Find
    <3>2. m + 1 \in Waiting(k)'
      BY <1>2, <1>3, <1>5, PendingIsNext
    <3>3. PendingOf(k) = <<>>
      BY <3>1, PendingIs
    <3>4. PendingOf(k)' = Held(m + 1)'
      BY <3>2, PendingIsNext
    <3> QED  BY <1>7, <2>1, <3>3, <3>4
  <2>2. CASE l # k
    <3>1. Waiting(l) = {j \in 1 .. m : list[j].key = l}
      BY <1>3, <1>5, PendingIs
    <3>2. Waiting(l)' = {j \in 1 .. m + 1 : list'[j].key = l}
      BY <1>3, <1>5, PendingIsNext
    <3>3. Waiting(l)' = Waiting(l)
      BY <1>2, <1>3, <2>2, <3>1, <3>2
    <3>4. CASE Waiting(l) = {}
      BY <3>3, <3>4, PendingIs, PendingIsNext
    <3>5. CASE Waiting(l) # {}
      <4>1. PICK j \in Waiting(l) : j \in 1 .. m
        BY <3>1, <3>5
      <4> QED  BY <1>6, <3>3, <4>1, PendingIs, PendingIsNext
    <3> QED  BY <3>4, <3>5
  <2> QED  BY <2>1, <2>2
<1> QED  BY <1>1, <1>8, PublishedSame, SpoolStutters

\* Closing a file for another moves what is buffered into it, or loses it.
LEMMA CloseLnRefines ==
  ASSUME IInv, IInv', Files, Stored, CloseLn
  PROVE  Spool!Next \/ UNCHANGED Spool!spool
<1>1. PICK i \in DOMAIN list, ok \in BOOLEAN :
           /\ list[i].fp = OPEN /\ i # cur /\ Outcome("fclose", ok)
           /\ DOMAIN list' = DOMAIN list
           /\ list'[i].fp = NULL /\ list'[i].buf = <<>>
           /\ list'[i].seq = list[i].seq /\ list'[i].key = list[i].key
           /\ \A j \in DOMAIN list : j # i => list'[j] = list[j]
           /\ Exists(list[i].seq) =>
                SetTmp(list[i].seq,
                       tmp[list[i].seq] \o (IF ok THEN list[i].buf ELSE <<CUT>>))
           /\ ~Exists(list[i].seq) => tmp' = tmp
           /\ IF ok THEN pc' = "fopen" ELSE pc' = IF closing THEN "free" ELSE "idle"
  BY CloseLnDoes
<1> DEFINE s == list[i].seq
           a == tmp[s]
           b == list[i].buf
<1>2. pc = "fopen" /\ UNCHANGED <<cur, closing, pkt, crashes>>
  BY DEF CloseLn
<1>3. /\ Exists(s) /\ a \in Seq(Int) /\ b \in Seq(Int)
      /\ Held(i) = Messages(a \o b) /\ Held(i) \in Seq(Int)
  <2>1. Exists(s) /\ EntryFiles
    BY <1>1 DEF Stored, EntryFiles
  <2> QED  BY <2>1, HeldSeq
<1>4. /\ DOMAIN tmp' = DOMAIN tmp /\ tmp'[s] = a \o (IF ok THEN b ELSE <<CUT>>)
      /\ \A t \in DOMAIN tmp : t # s => tmp'[t] = tmp[t]
  <2> DEFINE c == a \o (IF ok THEN b ELSE <<CUT>>)
  <2>1. SetTmp(s, c) /\ s \in DOMAIN tmp
    BY <1>1, <1>3 DEF Exists
  <2> HIDE DEF c
  <2>2. DOMAIN tmp' = DOMAIN tmp /\ tmp'[s] = c /\ \A t \in DOMAIN tmp : t # s => tmp'[t] = tmp[t]
    <3> HIDE DEF s
    <3> QED  BY <2>1, TmpSet
  <2> QED  BY <2>2 DEF c
<1>5. ASSUME NEW j \in DOMAIN list, j # i PROVE Held(j)' = Held(j)
  <2>1. list[j].seq # s
    BY <1>5 DEF IInv, OneEntryPerPacket
  <2> QED  BY <1>1, <1>4, <1>5, <2>1, HeldAlone
<1>6. \A j \in DOMAIN list : list'[j].key = list[j].key
  BY <1>1
<1>7. Held(i)' = Messages((a \o (IF ok THEN b ELSE <<CUT>>)) \o <<>>)
  BY <1>1, <1>3, <1>4 DEF Held, Exists
<1>8. CASE ok
  <2>1. Held(i)' = Held(i)
    BY <1>3, <1>7, <1>8, MessagesWritten
  <2>2. \A j \in DOMAIN list : Due(j)' <=> Due(j)
    BY <1>1, <1>2, <1>8 DEF Due
  <2>3. \A j \in DOMAIN list : Held(j)' = Held(j)
    BY <1>5, <2>1
  <2>4. faults' = faults
    BY <1>1, <1>8, OutcomeIs
  <2> QED  BY <1>1, <1>2, <1>6, <2>2, <2>3, <2>4, PendingSame, PublishedSame, SpoolStutters
<1>9. CASE ~ok
  <2>1. CUT \in Int /\ CUT <= 0
    BY DEF CUT
  <2>2. Spool!IsPrefix(Held(i)', Held(i))
    BY <1>3, <1>7, <1>9, <2>1, MessagesWritten
  <2>3. ASSUME NEW j \in DOMAIN list PROVE Spool!IsPrefix(Held(j)', Held(j))
    <3>1. CASE j = i
      BY <2>2, <3>1
    <3>2. CASE j # i
      <4>1. Held(j) \in Seq(Int)
        BY HeldSeq DEF Stored
      <4> QED  BY <1>5, <3>2, <4>1, PrefixOf
    <3> QED  BY <3>1, <3>2
  <2>4. \A j \in DOMAIN list : Due(j)' => Due(j)
    BY <1>2 DEF Due
  <2>5. (crashes + faults)' = (crashes + faults) + 1
    BY <1>1, <1>2, <1>9, OutcomeIs DEF Stored, Files
  <2>6. \A k \in Key : Spool!IsPrefix(PendingOf(k)', PendingOf(k))
    BY <1>1, <1>6, <2>3, <2>4, PendingLess DEF Stored
  <2> QED  BY <1>2, <2>5, <2>6, PublishedSame, SpoolLoses
<1> QED  BY <1>8, <1>9

\* Opening a file changes nothing of what is in it, unless it fails while
\* outpkt_close() is at work: then the packet is never published.
LEMMA FopenRefines ==
  ASSUME IInv, IInv', Files, Stored, Fopen
  PROVE  Spool!Next \/ UNCHANGED Spool!spool
<1> DEFINE s == list[cur].seq
           a == tmp[s]
           b == IF mode = "w" THEN <<HDR>> ELSE <<>>
<1>1. /\ pc = "fopen" /\ cur \in DOMAIN list /\ list[cur].fp = NULL
      /\ UNCHANGED <<cur, closing, mode, pkt, crashes>>
  BY FopenDoes
<1>2. CASE /\ Outcome("fopen", FALSE) /\ UNCHANGED <<list, tmp>>
           /\ pc' = IF closing THEN "free" ELSE "idle"
  <2>1. \A j \in DOMAIN list : Due(j)' => Due(j)
    BY <1>1, <1>2 DEF Due
  <2>2. \A j \in DOMAIN list : Spool!IsPrefix(Held(j)', Held(j))
    <3> SUFFICES ASSUME NEW j \in DOMAIN list PROVE Spool!IsPrefix(Held(j)', Held(j))
      OBVIOUS
    <3>1. Held(j) \in Seq(Int)
      BY HeldSeq DEF Stored
    <3>2. Held(j)' = Held(j)
      BY <1>2 DEF Held, Exists
    <3> QED  BY <3>1, <3>2, PrefixOf
  <2>3. (crashes + faults)' = (crashes + faults) + 1
    <3>1. faults' = faults + 1
      BY <1>2, OutcomeIs
    <3> QED  BY <1>1, <3>1 DEF Stored, Files
  <2>4. \A k \in Key : Spool!IsPrefix(PendingOf(k)', PendingOf(k))
    BY <1>2, <2>1, <2>2, PendingLess DEF Stored
  <2> QED  BY <1>1, <2>3, <2>4, PublishedSame, SpoolLoses
<1>3. CASE /\ Outcome("fopen", TRUE)
           /\ DOMAIN list' = DOMAIN list /\ list'[cur].fp = OPEN
           /\ list'[cur].buf = b
           /\ list'[cur].seq = s /\ list'[cur].key = list[cur].key
           /\ \A j \in DOMAIN list : j # cur => list'[j] = list[j]
           /\ IF mode = "w" \/ ~Exists(s) THEN SetTmp(s, <<>>) ELSE tmp' = tmp
           /\ pc' = IF closing THEN "close" ELSE "write"
  <2>1. list[cur].buf = <<>> /\ (mode = "w" => ~Exists(s))
    BY <1>1 DEF Stored, EntryFiles, CurFile
  <2>2. /\ DOMAIN tmp' = DOMAIN tmp \cup {s}
        /\ tmp'[s] = IF Exists(s) THEN a ELSE <<>>
        /\ \A t \in DOMAIN tmp : t # s => tmp'[t] = tmp[t]
    <3>1. CASE ~Exists(s)
      <4>1. SetTmp(s, <<>>)
        BY <1>3, <3>1
      <4> QED  BY <3>1, <4>1, TmpSet
    <3>2. CASE Exists(s)
      BY <1>3, <2>1, <3>2 DEF Exists
    <3> QED  BY <3>1, <3>2
  <2>3. Held(cur)' = Held(cur)
    <3>1. Held(cur)' = Messages(tmp'[s] \o b)
      BY <1>1, <1>3, <2>2 DEF Held, Exists
    <3>2. CASE Exists(s)
      <4>1. b = <<>> /\ tmp'[s] = a
        BY <2>1, <2>2, <3>2
      <4>2. Held(cur) = Messages(a \o <<>>)
        BY <2>1, <3>2 DEF Held
      <4> QED  BY <3>1, <4>1, <4>2
    <3>3. CASE ~Exists(s)
      <4>1. HDR \in Int /\ ~(HDR > 0)
        BY DEF HDR
      <4>2. Messages(<<>> \o b) = <<>>
        <5>1. <<>> \o <<HDR>> = <<HDR>> /\ <<>> \o <<>> = <<>>
          BY <4>1
        <5> QED  BY <4>1, <5>1, MessagesOne
      <4>3. Held(cur) = <<>>
        BY <3>3 DEF Held
      <4> QED  BY <2>2, <3>1, <3>3, <4>2, <4>3
    <3> QED  BY <3>2, <3>3
  <2>4. ASSUME NEW j \in DOMAIN list, j # cur PROVE Held(j)' = Held(j)
    <3>1. list[j].seq # s
      BY <1>1, <2>4 DEF IInv, OneEntryPerPacket
    <3>2. DOMAIN tmp' \ {s} = DOMAIN tmp \ {s}
      BY <2>2
    <3> QED  BY <1>3, <2>2, <2>4, <3>1, <3>2, HeldAlone
  <2>5. \A j \in DOMAIN list : /\ list'[j].key = list[j].key
                               /\ Due(j)' <=> Due(j)
                               /\ Held(j)' = Held(j)
    BY <1>1, <1>3, <2>3, <2>4 DEF Due
  <2>6. faults' = faults
    BY <1>3, OutcomeIs
  <2> QED  BY <1>1, <1>3, <2>5, <2>6, PendingSame, PublishedSame, SpoolStutters
<1> QED  BY <1>2, <1>3, FopenDoes

\* A message that is written waits behind the others; if the write fails, it is
\* lost, and nothing else.
LEMMA WriteRefines ==
  ASSUME IInv, IInv', Files, Stored, Write
  PROVE  Spool!Next \/ UNCHANGED Spool!spool
<1>0. PICK c \in DOMAIN list, k \in Key, s \in Nat :
        /\ c = cur /\ list[c].key = k /\ list[c].seq = s
  <2>1. cur \in DOMAIN list
    BY WriteDoes
  <2> QED  BY <2>1, EntriesAre, EntryFields
<1> DEFINE a == tmp[s]
           b == list[c].buf
<1>1. /\ pc = "write" /\ c \in DOMAIN list /\ list[c].fp = OPEN /\ pc' = "idle"
      /\ UNCHANGED <<cur, closing, mode, pkt, nseq, crashes>>
  BY <1>0, WriteDoes
<1>2. PICK flush \in BOOLEAN, ok \in BOOLEAN :
        LET data == Append(b, IF ok THEN nmsg + 1 ELSE CUT) IN
        /\ Outcome("write", ok)
        /\ IF flush /\ Exists(s) THEN SetTmp(s, a \o data) ELSE tmp' = tmp
        /\ DOMAIN list' = DOMAIN list
        /\ list'[c].buf = IF flush THEN <<>> ELSE data
        /\ list'[c].seq = s /\ list'[c].key = k
        /\ \A j \in DOMAIN list : j # c => list'[j] = list[j]
  BY <1>0, WriteDoes
<1> DEFINE x == IF ok THEN nmsg + 1 ELSE CUT
           data == Append(b, x)
<1>3. /\ Exists(s) /\ a \in Seq(Int) /\ b \in Seq(Int)
      /\ Held(c) = Messages(a \o b) /\ Held(c) \in Seq(Int)
  <2>1. Exists(s) /\ EntryFiles
    BY <1>0, <1>1 DEF Stored, EntryFiles
  <2> QED  BY <1>0, <1>1, <2>1, HeldSeq
<1>4. x \in Int /\ (ok => x \in 1 .. MaxMsg /\ x > 0) /\ (~ok => ~(x > 0))
  <2>1. ~closing /\ nmsg \in Nat
    BY <1>1 DEF IInv, Shape
  <2> QED  BY <1>1, <2>1, ConstantsAssumption DEF Files, CUT
<1>5. /\ Outcome("write", ok)
      /\ IF flush THEN SetTmp(s, a \o data) ELSE tmp' = tmp
      /\ DOMAIN list' = DOMAIN list
      /\ list'[c].buf = IF flush THEN <<>> ELSE data
      /\ list'[c].seq = s /\ list'[c].key = k
      /\ \A j \in DOMAIN list : j # c => list'[j] = list[j]
  BY <1>2, <1>3
<1> HIDE DEF x
<1>6. /\ DOMAIN tmp' = DOMAIN tmp /\ tmp'[s] = IF flush THEN a \o data ELSE a
      /\ \A t \in DOMAIN tmp : t # s => tmp'[t] = tmp[t]
  <2> DEFINE d == a \o data
  <2>1. CASE flush
    <3>1. SetTmp(s, d) /\ s \in DOMAIN tmp
      BY <1>3, <1>5, <2>1 DEF Exists
    <3> HIDE DEF d
    <3>2. DOMAIN tmp' = DOMAIN tmp /\ tmp'[s] = d
          /\ \A t \in DOMAIN tmp : t # s => tmp'[t] = tmp[t]
      <4> QED  BY <3>1, TmpSet
    <3> QED  BY <2>1, <3>2 DEF d
  <2>2. CASE ~flush
    BY <1>0, <1>5, <2>2
  <2> QED  BY <2>1, <2>2
<1>7. Held(c)' = IF ok THEN Append(Held(c), x) ELSE Held(c)
  <2>1. Held(c)' = Messages(tmp'[s] \o list'[c].buf)
    BY <1>3, <1>5, <1>6 DEF Held, Exists
  <2>2. Held(c)' = Messages(a \o data)
    <3>1. Messages((a \o data) \o <<>>) = Messages(a \o data)
      BY <1>3, <1>4, MessagesWritten
    <3> HIDE DEF data
    <3> QED  BY <1>5, <1>6, <2>1, <3>1
  <2>3. Messages(a \o data) = IF x > 0 THEN Append(Messages(a \o b), x) ELSE Messages(a \o b)
    BY <1>3, <1>4, MessagesWritten
  <2> QED  BY <1>3, <1>4, <2>2, <2>3
<1>8. \A j \in DOMAIN list : Due(j) /\ Due(j)'
  BY <1>1 DEF Due, IInv, Shape
<1>9. \A j \in DOMAIN list : list'[j].key = list[j].key
  BY <1>0, <1>5
<1>10. ASSUME NEW j \in DOMAIN list, j # c PROVE Held(j)' = Held(j)
  <2>1. list[j].seq # s
    BY <1>0, <1>1, <1>10 DEF IInv, OneEntryPerPacket
  <2> QED  BY <1>5, <1>6, <1>10, <2>1, HeldAlone
<1>11. CASE ~ok
  <2>1. \A j \in DOMAIN list : Spool!IsPrefix(Held(j)', Held(j))
    <3> SUFFICES ASSUME NEW j \in DOMAIN list PROVE Spool!IsPrefix(Held(j)', Held(j))
      OBVIOUS
    <3>1. Held(j) \in Seq(Int)
      BY HeldSeq DEF Stored
    <3>2. Held(j)' = Held(j)
      BY <1>7, <1>10, <1>11
    <3> QED  BY <3>1, <3>2, PrefixOf
  <2>2. \A l \in Key : Spool!IsPrefix(PendingOf(l)', PendingOf(l))
    BY <1>5, <1>8, <1>9, <2>1, PendingLess DEF Stored
  <2>3. (crashes + faults)' = (crashes + faults) + 1
    <3>1. faults' = faults + 1
      BY <1>5, <1>11, OutcomeIs
    <3> QED  BY <1>1, <3>1 DEF Stored, Files
  <2> QED  BY <1>1, <2>2, <2>3, PublishedSame, SpoolLoses
<1>12. CASE ok
  <2>0. k \in Key
    BY <1>1, EntriesAre, EntryFields
  <2>1. c \in Waiting(k) /\ c \in Waiting(k)'
    BY <1>0, <1>1, <1>5, <1>8, <2>0, PendingIs, PendingIsNext
  <2>2. PendingOf(k)' = Append(PendingOf(k), x)
    <3>1. PendingOf(k) = Held(c)
      BY <2>0, <2>1, PendingIs
    <3>2. PendingOf(k)' = Held(c)'
      BY <2>0, <2>1, PendingIsNext
    <3> QED  BY <1>7, <1>12, <3>1, <3>2
  <2>3. ASSUME NEW l \in Key, l # k PROVE PendingOf(l)' = PendingOf(l)
    <3>1. \A j \in DOMAIN list : list[j].key = l => j # c
      BY <1>0, <2>3
    <3>2. \A j \in DOMAIN list :
            /\ list'[j].key = list[j].key
            /\ list[j].key = l => (Due(j)' <=> Due(j)) /\ Held(j)' = Held(j)
      BY <1>8, <1>9, <1>10, <3>1
    <3> QED  BY <1>5, <3>2, PendingSame
  <2>4. faults' = faults
    BY <1>5, <1>12, OutcomeIs
  <2>5. x \in 1 .. MaxMsg
    BY <1>4, <1>12
  <2>6. \A l \in Key : PublishedOf(l)' = PublishedOf(l)
    BY <1>1, PublishedSame
  <2> QED  BY <1>1, <2>0, <2>2, <2>3, <2>4, <2>5, <2>6, SpoolAccepts
<1> QED  BY <1>11, <1>12

\* The 0-word is no message.
LEMMA EndWritten ==
  ASSUME NEW a \in Seq(Int), NEW b \in Seq(Int)
  PROVE  Messages((a \o Append(b, END)) \o <<>>) = Messages(a \o b)
<1>1. \A x \in Int :
        /\ Messages(a \o Append(b, x))
             = IF x > 0 THEN Append(Messages(a \o b), x) ELSE Messages(a \o b)
        /\ Messages((a \o Append(b, x)) \o <<>>) = Messages(a \o Append(b, x))
  BY MessagesWritten
<1>2. END \in Int /\ ~(END > 0)
  BY DEF END
<1> QED  BY <1>1, <1>2

\* Closing the entry leaves what waits as it is, or loses the end of it.
LEMMA CloseEntryRefines ==
  ASSUME IInv, IInv', Files, Stored, CloseEntry
  PROVE  Spool!Next \/ UNCHANGED Spool!spool
<1>0. PICK c \in DOMAIN list, k \in Key, s \in Nat :
        /\ c = cur /\ list[c].key = k /\ list[c].seq = s
  <2>1. cur \in DOMAIN list
    BY CloseEntryDoes
  <2> QED  BY <2>1, EntriesAre, EntryFields
<1> DEFINE a == tmp[s]
           b == list[c].buf
<1>1. /\ pc = "close" /\ closing /\ c \in DOMAIN list /\ list[c].fp = OPEN
      /\ pc' = "rename" /\ UNCHANGED <<cur, closing, mode, pkt, nseq, crashes>>
      /\ DOMAIN list' = DOMAIN list /\ list'[c].fp = NULL /\ list'[c].buf = <<>>
      /\ list'[c].seq = s /\ list'[c].key = list[c].key
      /\ \A j \in DOMAIN list : j # c => list'[j] = list[j]
  BY <1>0, CloseEntryDoes
<1>2. PICK ok \in BOOLEAN :
        LET data == IF ok THEN Append(b, END) ELSE <<CUT>> IN
        Outcome("fclose", ok) /\ SetTmp(s, a \o data)
  BY <1>0, CloseEntryDoes
<1> DEFINE data == IF ok THEN Append(b, END) ELSE <<CUT>>
<1>3. /\ Exists(s) /\ a \in Seq(Int) /\ b \in Seq(Int)
      /\ Held(c) = Messages(a \o b) /\ Held(c) \in Seq(Int)
  <2>1. Exists(s) /\ EntryFiles
    BY <1>0, <1>1 DEF Stored, EntryFiles
  <2> QED  BY <1>0, <1>1, <2>1, HeldSeq
<1>4. Outcome("fclose", ok) /\ SetTmp(s, a \o data)
  BY <1>2
<1> HIDE DEF data
<1>5. /\ DOMAIN tmp' = DOMAIN tmp /\ tmp'[s] = a \o data
      /\ \A t \in DOMAIN tmp : t # s => tmp'[t] = tmp[t]
  <2> DEFINE d == a \o data
  <2>1. SetTmp(s, d) /\ s \in DOMAIN tmp
    BY <1>3, <1>4 DEF Exists
  <2> HIDE DEF d
  <2>2. DOMAIN tmp' = DOMAIN tmp /\ tmp'[s] = d /\ \A t \in DOMAIN tmp : t # s => tmp'[t] = tmp[t]
    <3> QED  BY <2>1, TmpSet
  <2> QED  BY <2>2 DEF d
<1>6. Held(c)' = Messages((a \o data) \o <<>>)
  BY <1>1, <1>3, <1>5 DEF Held, Exists
<1>7. /\ \A j \in DOMAIN list : list'[j].key = list[j].key
      /\ \A j \in DOMAIN list : Due(j)' <=> Due(j)
  BY <1>1 DEF Due
<1>8. ASSUME NEW j \in DOMAIN list, j # c PROVE Held(j)' = Held(j)
  <2>1. list[j].seq # s
    BY <1>1, <1>8 DEF IInv, OneEntryPerPacket
  <2> QED  BY <1>1, <1>5, <1>8, <2>1, HeldAlone
<1>9. END \in Int /\ ~(END > 0) /\ CUT \in Int /\ CUT <= 0
  BY DEF END, CUT
<1>10. CASE ok
  <2>1. Held(c)' = Held(c)
    <3>1. data = Append(b, END)
      BY <1>10 DEF data
    <3>2. Messages((a \o Append(b, END)) \o <<>>) = Messages(a \o b)
      <4>1. a \in Seq(Int) /\ b \in Seq(Int)
        BY <1>3
      <4> HIDE DEF a, b
      <4> QED  BY <4>1, EndWritten
    <3> QED  BY <1>3, <1>6, <3>1, <3>2
  <2>2. \A j \in DOMAIN list : Held(j)' = Held(j)
    BY <1>8, <2>1
  <2>3. faults' = faults
    BY <1>4, <1>10, OutcomeIs
  <2> QED  BY <1>1, <1>7, <2>2, <2>3, PendingSame, PublishedSame, SpoolStutters
<1>11. CASE ~ok
  <2>1. Spool!IsPrefix(Held(c)', Held(c))
    <3>1. data = <<CUT>>
      BY <1>11 DEF data
    <3>2. Spool!IsPrefix(Messages((a \o <<CUT>>) \o <<>>), Messages(a \o b))
      BY <1>3, <1>9, MessagesWritten
    <3> QED  BY <1>3, <1>6, <3>1, <3>2
  <2>2. \A j \in DOMAIN list : Spool!IsPrefix(Held(j)', Held(j))
    <3> SUFFICES ASSUME NEW j \in DOMAIN list, j # c
                 PROVE  Spool!IsPrefix(Held(j)', Held(j))
      BY <2>1
    <3>1. Held(j) \in Seq(Int)
      BY HeldSeq DEF Stored
    <3> QED  BY <1>8, <3>1, PrefixOf
  <2>3. \A l \in Key : Spool!IsPrefix(PendingOf(l)', PendingOf(l))
    BY <1>1, <1>7, <2>2, PendingLess DEF Stored
  <2>4. (crashes + faults)' = (crashes + faults) + 1
    <3>1. faults' = faults + 1
      BY <1>4, <1>11, OutcomeIs
    <3> QED  BY <1>1, <3>1 DEF Stored, Files
  <2> QED  BY <1>1, <2>3, <2>4, PublishedSame, SpoolLoses
<1> QED  BY <1>10, <1>11

\* The rename publishes what waits, which is something unless something was lost.
LEMMA RenameRefines ==
  ASSUME IInv, IInv', Files, Content, Stored, Rename
  PROVE  Spool!Next
<1>0. PICK c \in DOMAIN list, k \in Key, s \in Nat :
        /\ c = cur /\ list[c].key = k /\ list[c].seq = s
  <2>1. cur \in DOMAIN list
    BY RenameDoes
  <2> QED  BY <2>1, EntriesAre, EntryFields
<1> DEFINE n == Cardinality(Packets(k))
<1>1. /\ pc = "rename" /\ pc' = "free" /\ closing /\ c \in DOMAIN list
      /\ list[c].fp = NULL /\ list[c].buf = <<>>
      /\ Exists(s) /\ tmp[s] \in Seq(Int)
      /\ UNCHANGED <<list, cur, closing, mode, nseq, nmsg, crashes, faults>>
      /\ DOMAIN tmp' = DOMAIN tmp \ {s}
      /\ \A t \in DOMAIN tmp' : tmp'[t] = tmp[t]
      /\ DOMAIN pkt' = DOMAIN pkt \cup {s}
      /\ \A t \in DOMAIN pkt : t < s /\ pkt'[t] = pkt[t] /\ t \in 1 .. nseq
      /\ pkt'[s].key = k /\ pkt'[s].data = tmp[s]
  BY <1>0, RenameDoes
<1>2. k \in Key
  BY <1>1, EntriesAre, EntryFields
<1>3. Held(c) = Messages(tmp[s]) /\ Held(c) \in Seq(Int)
  <2>1. Held(c) = Messages(tmp[s] \o <<>>) /\ Held(c) \in Seq(Int)
    BY <1>0, <1>1, HeldSeq DEF Stored
  <2> QED  BY <1>1, <2>1, MessagesWritten
<1>4. PendingOf(k) = Messages(tmp[s])
  <2>1. c \in Waiting(k)
    BY <1>0, <1>1, <1>2, PendingIs DEF Due
  <2> QED  BY <1>2, <1>3, <2>1, PendingIs
<1>5. PendingOf(k)' = <<>>
  <2>1. ASSUME NEW j \in DOMAIN list', list'[j].key = k PROVE ~Due(j)'
    <3>1. j = c
      BY <1>0, <1>1, <2>1 DEF IInv, OneEntryPerPacket
    <3>2. c \in Nat
      BY EntriesAre
    <3> QED  BY <1>0, <1>1, <3>1, <3>2 DEF Due
  <2>2. Waiting(k)' = {}
    BY <1>2, <2>1, PendingIsNext
  <2> QED  BY <1>2, <2>2, PendingIsNext
<1>6. PendingOf(k) # <<>> \/ crashes + faults > 0
  <2>1. CASE faults = 0
    BY <1>0, <1>1, <1>4, <2>1, PacketHas DEF Content
  <2>2. CASE faults # 0
    BY <2>2 DEF Stored, Files
  <2> QED  BY <2>1, <2>2
<1>7. PublishedOf(k)' = Append(PublishedOf(k), Messages(tmp[s]))
  <2>1. /\ n \in Nat /\ Cardinality(Packets(k)') = n + 1
        /\ \A i \in 1 .. n : Nth(Packets(k)', i) = Nth(Packets(k), i)
        /\ Nth(Packets(k)', n + 1) = {s}
    BY <1>0, <1>2, RenamePackets
  <2>2. /\ \A i \in 1 .. n : Nth(Packets(k), i) # {}
        /\ \A i \in 1 .. n : Nth(Packets(k), i) \subseteq DOMAIN pkt
    BY <1>0, <1>2 DEF Stored, Ranked, Nth, Packets
  <2> DEFINE Old(i) == Messages(pkt[CHOOSE t \in Nth(Packets(k), i) : TRUE].data)
             New(i) == Messages(pkt'[CHOOSE t \in Nth(Packets(k)', i) : TRUE].data)
  <2>3. PublishedOf(k) = [i \in 1 .. n |-> Old(i)]
    BY <1>0 DEF PublishedOf
  <2>4. PublishedOf(k)' = [i \in 1 .. n + 1 |-> New(i)]
    <3>1. PublishedOf(k)' = [i \in 1 .. Cardinality(Packets(k)') |-> New(i)]
      BY <1>1 DEF PublishedOf
    <3> HIDE DEF New
    <3> QED  BY <2>1, <3>1
  <2>5. ASSUME NEW i \in 1 .. n PROVE New(i) = Old(i)
    <3> DEFINE t == CHOOSE u \in Nth(Packets(k), i) : TRUE
    <3>1. t \in DOMAIN pkt
      BY <2>2
    <3>2. (CHOOSE u \in Nth(Packets(k)', i) : TRUE) = t
      BY <2>1
    <3> HIDE DEF t
    <3>3. pkt'[t] = pkt[t]
      BY <1>1, <3>1
    <3> QED  BY <3>2, <3>3 DEF t
  <2>6. New(n + 1) = Messages(tmp[s])
    <3>1. (CHOOSE u \in Nth(Packets(k)', n + 1) : TRUE) = s
      BY <2>1
    <3> QED  BY <1>1, <3>1
  <2> HIDE DEF Old, New, n
  <2> DEFINE q == [i \in 1 .. n |-> Old(i)]
             r == [i \in 1 .. n + 1 |-> New(i)]
  <2>7. r = Append(q, Messages(tmp[s]))
    <3>1. q \in Seq({Old(i) : i \in 1 .. n}) /\ Len(q) = n
      BY <2>1
    <3>2. Append(q, Messages(tmp[s]))
            = [i \in 1 .. n + 1 |-> IF i = n + 1 THEN Messages(tmp[s]) ELSE q[i]]
      BY <2>1, <3>1
    <3>3. \A i \in 1 .. n + 1 : r[i] = IF i = n + 1 THEN Messages(tmp[s]) ELSE q[i]
      <4> SUFFICES ASSUME NEW i \in 1 .. n + 1
                   PROVE  New(i) = IF i = n + 1 THEN Messages(tmp[s]) ELSE q[i]
        OBVIOUS
      <4>1. CASE i = n + 1
        BY <2>6, <4>1
      <4>2. CASE i # n + 1
        <5>1. i \in 1 .. n
          BY <2>1, <4>2
        <5> QED  BY <2>5, <4>2, <5>1
      <4> QED  BY <4>1, <4>2
    <3> QED  BY <3>2, <3>3
  <2> QED  BY <2>3, <2>4, <2>7
<1>8. ASSUME NEW l \in Key, l # k
      PROVE  PendingOf(l)' = PendingOf(l) /\ PublishedOf(l)' = PublishedOf(l)
  <2>1. Packets(l)' = Packets(l) /\ \A i : Nth(Packets(l)', i) = Nth(Packets(l), i)
    BY <1>0, <1>8, RenamePackets
  <2>2. PublishedOf(l)' = PublishedOf(l)
    <3> DEFINE m == Cardinality(Packets(l))
               At(i) == CHOOSE t \in Nth(Packets(l), i) : TRUE
    <3>1. \A i \in 1 .. m : At(i) \in DOMAIN pkt
      BY DEF Stored, Ranked, Nth, Packets
    <3>2. \A i \in 1 .. m : pkt'[At(i)] = pkt[At(i)]
      <4> HIDE DEF At, m
      <4> QED  BY <1>1, <3>1
    <3>3. PublishedOf(l)' = [i \in 1 .. m |-> Messages(pkt'[At(i)].data)]
      BY <2>1 DEF PublishedOf
    <3>4. PublishedOf(l) = [i \in 1 .. m |-> Messages(pkt[At(i)].data)]
      BY DEF PublishedOf
    <3> HIDE DEF At, m
    <3> QED  BY <3>2, <3>3, <3>4
  <2>3. \A j \in DOMAIN list : list[j].key = l => (Due(j)' <=> Due(j)) /\ Held(j)' = Held(j)
    <3> SUFFICES ASSUME NEW j \in DOMAIN list, list[j].key = l
                 PROVE  (Due(j)' <=> Due(j)) /\ Held(j)' = Held(j)
      OBVIOUS
    <3>1. j # c /\ list[j].seq # s
      BY <1>0, <1>1, <1>8 DEF IInv, OneEntryPerPacket
    <3>2. Due(j)' <=> Due(j)
      BY <1>0, <1>1, <3>1 DEF Due
    <3>3. Held(j)' = Held(j)
      BY <1>1, <3>1, HeldAlone
    <3> QED  BY <3>2, <3>3
  <2>5. PendingOf(l)' = PendingOf(l)
    <3>1. DOMAIN list' = DOMAIN list /\ \A j \in DOMAIN list : list'[j].key = list[j].key
      BY <1>1
    <3> QED  BY <2>3, <3>1, PendingSame
  <2> QED  BY <2>2, <2>5
<1>9. PublishedOf(k)' = Append(PublishedOf(k), PendingOf(k))
  BY <1>4, <1>7
<1> QED  BY <1>1, <1>2, <1>5, <1>6, <1>8, <1>9, SpoolPublishes

LEMMA WalkRefines ==
  ASSUME IInv, IInv', Files, Stored, StartClose \/ NextEntry \/ Free
  PROVE  UNCHANGED Spool!spool
<1>1. /\ UNCHANGED <<list, tmp, pkt, crashes, faults>>
      /\ \A j \in DOMAIN list : Due(j)' <=> Due(j)
  BY WalkDoes
<1>2. \A j \in DOMAIN list : Held(j)' = Held(j)
  BY <1>1 DEF Held, Exists
<1> QED  BY <1>1, <1>2, PendingSame, PublishedSame, SpoolStutters

\* At the end of outpkt_close() nothing waits; a process that is killed loses
\* what does.
LEMMA EmptyRefines ==
  ASSUME IInv, IInv', Files, Stored, EndClose \/ Crash
  PROVE  Spool!Next \/ UNCHANGED Spool!spool
<1>1. DOMAIN list' = {} /\ UNCHANGED <<pkt, faults>>
  BY DEF EndClose, Crash, disk
<1>2. \A k \in Key : PendingOf(k)' = <<>>
  <2> SUFFICES ASSUME NEW k \in Key PROVE PendingOf(k)' = <<>>
    OBVIOUS
  <2>1. Waiting(k)' = {}
    BY <1>1, PendingIsNext
  <2> QED  BY <2>1, PendingIsNext
<1>3. CASE EndClose
  <2>1. \A j \in DOMAIN list : ~Due(j)
    <3> SUFFICES ASSUME NEW j \in DOMAIN list PROVE ~Due(j)
      OBVIOUS
    <3>1. j <= Len(list) /\ j \in Nat /\ Len(list) \in Nat /\ cur \in Nat
      BY EntriesAre
    <3> QED  BY <1>3, <3>1 DEF EndClose, Due, IInv, Shape
  <2>2. \A k \in Key : PendingOf(k) = <<>>
    <3> SUFFICES ASSUME NEW k \in Key PROVE PendingOf(k) = <<>>
      OBVIOUS
    <3>1. Waiting(k) = {}
      BY <2>1, PendingIs
    <3> QED  BY <3>1, PendingIs
  <2>3. crashes' = crashes
    BY <1>3 DEF EndClose
  <2>4. \A k \in Key : PendingOf(k)' = PendingOf(k)
    BY <1>2, <2>2
  <2>5. \A k \in Key : PublishedOf(k)' = PublishedOf(k)
    BY <1>1, PublishedSame
  <2> QED  BY <1>1, <2>3, <2>4, <2>5, SpoolStutters
<1>4. CASE Crash
  <2>1. \A k \in Key : Spool!IsPrefix(PendingOf(k)', PendingOf(k))
    <3> SUFFICES ASSUME NEW k \in Key PROVE Spool!IsPrefix(<<>>, PendingOf(k))
      BY <1>2
    <3>1. PendingOf(k) \in Seq(Int)
      <4>1. CASE Waiting(k) = {}
        <5>1. <<>> \in Seq(Int)
          OBVIOUS
        <5> QED  BY <4>1, <5>1, PendingIs
      <4>2. CASE Waiting(k) # {}
        <5>1. PICK j \in Waiting(k) : j \in DOMAIN list
          BY <4>2, PendingIs
        <5> QED  BY <5>1, PendingIs, HeldSeq DEF Stored
      <4> QED  BY <4>1, <4>2
    <3> QED  BY <3>1, PrefixOf
  <2>2. (crashes + faults)' = (crashes + faults) + 1
    <3>1. crashes' = crashes + 1
      BY <1>4 DEF Crash
    <3> QED  BY <1>1, <3>1 DEF Stored, Files
  <2> QED  BY <1>1, <2>1, <2>2, PublishedSame, SpoolLoses
<1> QED  BY <1>3, <1>4

LEMMA InitRefines == Init => Spool!Init
<1> SUFFICES ASSUME Init PROVE Spool!Init
  OBVIOUS
<1>1. DOMAIN list = {} /\ DOMAIN pkt = {} /\ crashes + faults = 0
  BY DEF Init
<1>2. \A k \in Key : PendingOf(k) = <<>>
  BY <1>1 DEF PendingOf, Waiting, Find
<1>3. ASSUME NEW k \in Key PROVE PublishedOf(k) = <<>>
  <2>1. Cardinality(Packets(k)) = 0
    BY <1>1, FS_EmptySet DEF Packets
  <2> DEFINE F(i) == Messages(pkt[CHOOSE s \in Nth(Packets(k), i) : TRUE].data)
  <2>2. PublishedOf(k) = [i \in 1 .. 0 |-> F(i)]
    BY <2>1 DEF PublishedOf
  <2> HIDE DEF F
  <2> QED  BY <2>2
<1> QED  BY <1>1, <1>2, <1>3 DEF Spool!Init

LEMMA NextRefines ==
  ASSUME IInv, IInv', Files, Content, Stored, [Next]_vars
  PROVE  [Spool!Next]_(Spool!spool)
<1>1. CASE \E k \in Key : OpenFound(k) \/ OpenNew(k)
  BY <1>1, OpenFoundRefines, OpenNewRefines
<1>2. CASE CloseLn \/ Fopen \/ Write
  BY <1>2, CloseLnRefines, FopenRefines, WriteRefines
<1>3. CASE StartClose \/ NextEntry \/ Free
  BY <1>3, WalkRefines
<1>4. CASE CloseEntry \/ Rename
  BY <1>4, CloseEntryRefines, RenameRefines
<1>5. CASE EndClose \/ Crash
  BY <1>5, EmptyRefines
<1>6. CASE UNCHANGED vars
  <2>1. /\ UNCHANGED <<list, tmp, pkt, crashes, faults>>
        /\ \A j \in DOMAIN list : Due(j)' <=> Due(j)
    BY <1>6 DEF vars, Due
  <2>2. \A j \in DOMAIN list : Held(j)' = Held(j)
    BY <2>1 DEF Held, Exists
  <2> QED  BY <2>1, <2>2, PendingSame, PublishedSame, SpoolStutters
<1> QED  BY <1>1, <1>2, <1>3, <1>4, <1>5, <1>6 DEF Next, Step, Done

\* outpkt_open(), with the streams it closes for others, and outpkt_close() do
\* what PacketSpool promises: messages for a destination wait in the order they
\* were handed over and appear as one packet, and only a crash or a failing call
\* loses any of them, those written last.
THEOREM SpoolImplemented == Spec => ImplementsSpool
<1> DEFINE Inv == IInv /\ Files /\ Content /\ Stored
<1>1. Init => Inv /\ Spool!Init
  BY InitContent, InitStored, InitRefines
<1>2. Inv /\ [Next]_vars => Inv'
  BY NextIInv, NextContent, NextStored
<1>3. Inv /\ Inv' /\ [Next]_vars => [Spool!Next]_(Spool!spool)
  BY NextRefines
<1> HIDE DEF Inv
<1> QED  BY <1>1, <1>2, <1>3, PTL DEF Spec, ImplementsSpool, Spool!Spec
=============================================================================
