---------------------------- MODULE Tick_proofs -----------------------------
(***************************************************************************)
(* For any number of TIC files, files, areas and nodes, any options, any   *)
(* failing calls and deaths of ftntick: no downlink of a file area is      *)
(* forgotten, and none is sent a TIC file that is not for it, or more      *)
(* often than ftntick was interrupted.  And the histories, that of the     *)
(* TICs and that of the messages: for any number of programs, keys, lines  *)
(* and runs of ftnexpire, when all ftntoss lock the same areas.bbs, the    *)
(* index covers the text, and no key gets a second line.                   *)
(***************************************************************************)
EXTENDS Tick, HistoryDb, SequenceTheorems, WellFoundedInduction, TLAPS

\* The nodes of an area, and the files of a directory, have each its place.
Distinct(s) == \A i, j \in DOMAIN s : s[i] = s[j] => i = j
Places(s)   == DOMAIN s \subseteq Nat

Record(r) == /\ Places(r.nodes) /\ Distinct(r.nodes)
             /\ \A k \in DOMAIN r.nodes : r.nodes[k] \in Node

Sound(c) ==
  /\ Places(c.order) /\ Distinct(c.order) /\ Range(c.order) \subseteq Tic
  /\ \A t \in Tic : c.info[t].area \in Area
  /\ c.areas = [a \in Area |-> c.areas[a]]
  /\ \A a \in Area : c.areas[a] # NONE => Record(c.areas[a])
  /\ c.create # NONE => Record(c.create)
  /\ c.hatch \in Tic \cup {NONE} /\ NONE \notin Tic

Listed == Range(config.order)
AtWork   == pc \notin {"idle", "next"}

Types ==
  /\ Sound(config)
  /\ known = [a \in Area |-> known[a]]
  /\ \A a \in Area : known[a] # NONE => Record(known[a])
  /\ tics \in [Tic -> {"none", "tic", "bad", "gone"}]
  /\ told \in [Node -> [Tic -> Nat]]
  /\ faults \in Nat

\* What is in the listing is there, and the TIC file at hand is no more in it.
Waiting ==
  /\ todo \subseteq DOMAIN config.order
  /\ \A k \in todo : tics[config.order[k]] = "tic"
  /\ AtWork => /\ cur \in Listed /\ tics[cur] = "tic"
             /\ \A k \in todo : config.order[k] # cur

\* ftnhatch writes a TIC file that ftntick does not read.
Hatched ==
  /\ \A t \in Listed : tics[t] # "none"
  /\ hnodes # {} => config.hatch \in Tic \ Listed

Sending == {"link", "put"}
Passing == {"pass"} \cup Sending
Filed   == {"replace", "copy", "write", "unlink", "history", "remove"} \cup Passing

\* The area of the TIC file at hand, and the nodes it goes to.
AreaFound ==
  /\ pc \in Filed => IF IsUnknown THEN config.unknown # NONE
                                  ELSE IsListed(Info(cur).from, Rec)
  /\ pc \in Passing => ~IsUnknown
  /\ pc \in Sending => new \subseteq NewNodes(cur, Rec)
  /\ pc = "put" => new # {}

\* A TIC file with which everything has been done.
Finished(t) ==
  IF known[Info(t).area] = NONE THEN config.unknown # NONE
  ELSE \A n \in Node : IsDownlink(n, t) => told[n][t] > 0

SoFarTold ==
  pc \in Sending => \A k \in NewNodes(cur, Rec) \ new : told[Rec.nodes[k]][cur] > 0
CurFinished == pc \in {"history", "remove"} => Finished(cur)
GoneFinished ==
  \A t \in Listed : tics[t] = "gone" => Finished(t) \/ t \in excused
AllTold == SoFarTold /\ CurFinished /\ GoneFinished

\* Whom the TIC file has been sent to since ftntick took it: it will not be
\* taken again, unless ftntick is interrupted.
Served(n, t) ==
  \/ tics[t] \in {"bad", "gone"}
  \/ t = cur /\ pc \in {"bad", "history", "remove"}
  \/ t = cur /\ pc \in Sending /\ \A k \in new : Rec.nodes[k] # n

ToldOnce ==
  \A n \in Node, t \in Listed :
    /\ told[n][t] <= 1 + faults
    /\ ~Served(n, t) => told[n][t] <= faults
    /\ told[n][t] > 0 => known[Info(t).area] # NONE /\ IsDownlink(n, t)

IInv == Types /\ Waiting /\ Hatched /\ AreaFound /\ AllTold /\ ToldOnce

-----------------------------------------------------------------------------
\* The least member of a set of places is one of them.
LEMMA MinIn ==
  ASSUME NEW S \in SUBSET Nat, S # {}
  PROVE  Min(S) \in S
<1>1. PICK d \in S : \A e \in S : <<e, d>> \notin OpToRel(<, Nat)
  BY NatLessThanWellFounded, WFMin
<1>2. \A e \in S : ~(e < d)
  BY <1>1 DEF OpToRel
<1>3. \A e \in S : d =< e
  BY <1>2
<1> QED  BY <1>3 DEF Min

\* Nothing is taken back: an area that is known stays so, what has been told
\* and excused stays so.
Grows ==
  /\ UNCHANGED config
  /\ \A a \in Area : known[a] # NONE => known'[a] = known[a]
  /\ config.unknown # NONE => UNCHANGED known
  /\ \A n \in Node, t \in Tic : told'[n][t] >= told[n][t]
  /\ excused \subseteq excused'
  /\ faults' \in Nat /\ faults' >= faults

\* A TIC file is written for a node.
LEMMA PutTold ==
  ASSUME Types, NEW n, NEW t, TickPut(n, t)
  PROVE  /\ told' \in [Node -> [Tic -> Nat]]
         /\ \A m \in Node, u \in Tic :
              told'[m][u] = IF m = n /\ u = t THEN told[m][u] + 1 ELSE told[m][u]
<1>1. told \in [Node -> [Tic -> Nat]]
  BY DEF Types
<1>2. told' = [told EXCEPT ![n] = [told[n] EXCEPT ![t] = @ + 1]]
  BY DEF TickPut
<1>3. CASE n \in Node
  <2>0. PICK g : g = told[n]
    OBVIOUS
  <2>1. PICK r : r = [g EXCEPT ![t] = @ + 1]
    OBVIOUS
  <2>2. /\ r \in [Tic -> Nat]
        /\ \A u \in Tic : r[u] = IF u = t THEN told[n][u] + 1 ELSE told[n][u]
    <3>1. g \in [Tic -> Nat]
      BY <1>1, <1>3, <2>0
    <3>2. \A u \in Tic : r[u] = IF u = t THEN g[u] + 1 ELSE g[u]
      BY <2>1, <3>1
    <3>3. r = [u \in Tic |-> r[u]]
      BY <2>1, <3>1
    <3>4. \A u \in Tic : r[u] \in Nat
      <4>1. \A u \in Tic : g[u] \in Nat
        BY <3>1
      <4> QED  BY ONLY <3>2, <4>1
    <3>5. r \in [Tic -> Nat]
      BY ONLY <3>3, <3>4
    <3> QED  BY <2>0, <3>2, <3>5
  <2>3. told' = [told EXCEPT ![n] = r]
    BY <1>2, <2>0, <2>1
  <2> QED  BY <1>1, <1>3, <2>2, <2>3
<1>4. CASE n \notin Node
  <2>1. told' = told
    BY <1>1, <1>2, <1>4
  <2> QED  BY <1>1, <1>4, <2>1
<1> QED  BY <1>3, <1>4

\* What the steps do to the areas, the TIC files and the nodes.
LEMMA NextTypes ==
  ASSUME Types, [Next]_vars
  PROVE  Types' /\ Grows
<1>1. CASE FindArea
  <2> DEFINE created == IsUnknown /\ config.unknown = NONE
                        /\ config.create # NONE /\ MayCreate
             a == Info(cur).area
  <2>1. UNCHANGED <<config, tics, told, excused, faults>>
    BY <1>1 DEF FindArea, Quiet, ghost
  <2>2. CASE ~created
    <3>1. UNCHANGED known
      BY <1>1, <2>2 DEF FindArea
    <3> QED  BY <2>1, <3>1 DEF Types, Grows
  <2>3. CASE created
    <3>1. /\ known' = [known EXCEPT ![a] = config.create]
          /\ known[a] = NONE /\ config.unknown = NONE /\ Record(config.create)
      BY <1>1, <2>3 DEF FindArea, IsUnknown, Types, Sound
    <3> HIDE DEF a
    <3>2. \A b \in Area : known'[b] = IF b = a THEN config.create ELSE known[b]
      BY <3>1 DEF Types
    <3>3. known' = [b \in Area |-> known'[b]]
      BY <3>1 DEF Types
    <3>4. \A b \in Area : known'[b] # NONE => Record(known'[b])
      BY <3>1, <3>2 DEF Types
    <3>5. Types'
      BY <2>1, <3>3, <3>4 DEF Types, Record
    <3>6. Grows
      BY <2>1, <3>1, <3>2 DEF Types, Grows
    <3> QED  BY <3>5, <3>6
  <2> QED  BY <2>2, <2>3
<1>2. CASE Put
  <2>1. /\ UNCHANGED <<config, known, tics, excused, faults>>
        /\ TickPut(NextNode, cur)
    BY <1>2 DEF Put, Quiet
  <2> QED  BY <2>1, PutTold DEF Types, Grows
<1>3. CASE HatchSend
  <2>1. /\ UNCHANGED <<config, known, tics, excused>>
        /\ \/ /\ \E n, t : TickPut(n, t)
              /\ UNCHANGED faults
           \/ UNCHANGED told /\ faults' = faults + 1
    BY <1>3 DEF HatchSend, tick
  <2> QED  BY <2>1, PutTold DEF Types, Grows
<1>4. CASE /\ UNCHANGED <<config, known, told>>
           /\ tics' \in [Tic -> {"none", "tic", "bad", "gone"}]
           /\ excused \subseteq excused'
           /\ faults' = faults \/ faults' = faults + 1
  BY <1>4 DEF Types, Grows
<1>5. CASE Start \/ NextTic \/ Check
  BY <1>4, <1>5 DEF Types, Start, NextTic, Check, Quiet, ghost
<1>6. CASE NoFile \/ Dupe \/ Bad
  BY <1>4, <1>6 DEF Types, NoFile, Dupe, Bad, Quiet, ghost
<1>7. CASE Replace \/ Copy \/ Write \/ Unlink
  BY <1>4, <1>7 DEF Types, Replace, Copy, Write, Unlink, Quiet, ghost
<1>8. CASE Pass
  BY <1>4, <1>8 DEF Types, Pass, Quiet
<1>9. CASE Link \/ Clean \/ History \/ RemoveTic
  BY <1>4, <1>9 DEF Types, Link, Clean, History, RemoveTic, Quiet, ghost
<1>10. CASE WriteFails \/ SendFails \/ HistoryFails \/ Kill
  BY <1>4, <1>10 DEF Types, WriteFails, SendFails, HistoryFails, Kill, Quiet, ghost
<1>11. CASE GetOld \/ Hatch
  BY <1>4, <1>11 DEF Types, GetOld, Hatch, ghost
<1>12. CASE \E t \in Tic : ArriveFile(t)
  BY <1>4, <1>12 DEF Types, ArriveFile, ghost
<1>13. CASE \E n \in Node : Fetch(n)
  BY <1>4, <1>13 DEF Types, Fetch
<1>14. CASE UNCHANGED vars
  BY <1>4, <1>14 DEF Types, vars, ghost
<1> QED  BY <1>1, <1>2, <1>3, <1>5, <1>6, <1>7, <1>8, <1>9, <1>10, <1>11, <1>12, <1>13,
            <1>14 DEF Next, Process

\* The first places and TIC files.
LEMMA InitIInv ==
  ASSUME \A c \in Configs : Sound(c), Init
  PROVE  IInv
<1>1. Types
  BY DEF Init, Types, Sound
<1>2. Waiting /\ AreaFound
  BY DEF Init, Waiting, AreaFound, AtWork, Filed, Passing, Sending
<1>3. \A t \in Listed : t \in Tic /\ tics[t] = "tic" /\ \A n \in Node : told[n][t] = 0
  <2>1. SUFFICES ASSUME NEW t \in Listed
                 PROVE  t \in Tic /\ tics[t] = "tic" /\ \A n \in Node : told[n][t] = 0
    OBVIOUS
  <2>2. t \in Tic /\ t \in Range(config.order)
    BY <1>1 DEF Listed, Types, Sound
  <2> QED  BY <2>2 DEF Init
<1>4. Hatched
  BY <1>3 DEF Init, Hatched
<1>5. AllTold
  BY <1>3 DEF Init, AllTold, SoFarTold, CurFinished, GoneFinished, Sending
<1>6. ToldOnce
  <2>1. faults = 0
    BY DEF Init
  <2> QED  BY <1>3, <2>1 DEF ToldOnce
<1> QED  BY <1>1, <1>2, <1>4, <1>5, <1>6 DEF IInv

\* The TIC files that were there stay those they are.
LEMMA ListedAre ==
  ASSUME Types
  PROVE  /\ Listed \subseteq Tic
         /\ \A k \in DOMAIN config.order : k \in Nat /\ config.order[k] \in Listed
         /\ \A k, j \in DOMAIN config.order : config.order[k] = config.order[j] => k = j
<1>1. Listed \subseteq Tic /\ Places(config.order) /\ Distinct(config.order)
  BY DEF Types, Sound, Listed
<1>2. \A k \in DOMAIN config.order : config.order[k] \in Listed
  BY DEF Listed, Range
<1> QED  BY <1>1, <1>2 DEF Places, Distinct

\* What do_tic() has still to look at, and what it is at.
LEMMA NextWaiting ==
  ASSUME Types, Waiting, Hatched, [Next]_vars
  PROVE  Waiting' /\ Hatched'
<1>0. UNCHANGED config /\ Listed' = Listed
  BY NextTypes DEF Grows, Listed
<1>1. CASE Start
  <2>1. /\ UNCHANGED <<tics, hnodes>> /\ pc' = "next"
        /\ todo' = {k \in DOMAIN config.order : tics[config.order[k]] = "tic"}
    BY <1>1 DEF Start, Quiet, Listing
  <2> QED  BY <1>0, <2>1 DEF Waiting, Hatched, AtWork
<1>2. CASE NextTic
  <2>0. UNCHANGED <<tics, hnodes>>
    BY <1>2 DEF NextTic, Quiet
  <2>1. CASE todo = {}
    <3>1. pc' = "idle" /\ todo' = todo
      BY <1>2, <2>1 DEF NextTic
    <3> QED  BY <1>0, <2>0, <3>1 DEF Waiting, Hatched, AtWork
  <2>2. CASE todo # {}
    <3>1. /\ pc' = "check" /\ cur' = config.order[Min(todo)]
          /\ todo' = todo \ {Min(todo)}
      BY <1>2, <2>2 DEF NextTic
    <3>2. todo \in SUBSET Nat /\ todo \subseteq DOMAIN config.order
      BY ListedAre DEF Waiting
    <3>3. Min(todo) \in todo
      BY <2>2, <3>2, MinIn
    <3> QED  BY <1>0, <2>0, <3>1, <3>2, <3>3, ListedAre DEF Waiting, Hatched
  <2> QED  BY <2>1, <2>2
<1>3. CASE /\ UNCHANGED <<tics, todo, cur, hnodes>>
           /\ pc' # "idle" /\ pc' # "next" => AtWork
  BY <1>0, <1>3 DEF Waiting, Hatched, AtWork
<1>4. CASE /\ UNCHANGED <<todo, hnodes>> /\ pc' = "next" /\ AtWork
           /\ \E w \in {"bad", "gone"} : tics' = [tics EXCEPT ![cur] = w]
  <2>1. /\ \A t \in Tic : t # cur => tics'[t] = tics[t]
        /\ cur \in Tic /\ tics'[cur] \in {"bad", "gone"}
    BY <1>4, ListedAre DEF Types, Waiting
  <2> QED  BY <1>0, <1>4, <2>1, ListedAre DEF Waiting, Hatched, AtWork
<1>5. CASE Check \/ Bad
  BY <1>3, <1>4, <1>5 DEF Check, Bad, AtWork, Quiet
<1>6. CASE NoFile
  BY <1>3, <1>4, <1>6 DEF NoFile, AtWork, Quiet
<1>7. CASE Dupe
  BY <1>3, <1>4, <1>7 DEF Dupe, AtWork, Quiet
<1>8. CASE FindArea
  BY <1>3, <1>8 DEF FindArea, AtWork, Quiet
<1>9. CASE Replace \/ Copy \/ Write \/ Unlink
  BY <1>3, <1>9 DEF Replace, Copy, Write, Unlink, AfterReplace, AtWork, Quiet
<1>10. CASE Pass
  BY <1>3, <1>10 DEF Pass, AtWork, Quiet
<1>11. CASE Link \/ Put \/ Clean \/ History \/ RemoveTic
  BY <1>3, <1>4, <1>11 DEF Link, Put, Clean, History, RemoveTic, names, AtWork, Quiet
<1>12. CASE WriteFails \/ SendFails \/ HistoryFails \/ Kill
  BY <1>3, <1>12 DEF WriteFails, SendFails, HistoryFails, Kill, AtWork, Quiet
<1>13. CASE Hatch
  <2>1. /\ UNCHANGED <<todo, cur, pc>> /\ tics[config.hatch] = "none"
        /\ tics' = [tics EXCEPT ![config.hatch] = "gone"]
        /\ config.hatch \in Tic
    BY <1>13 DEF Hatch, tick, Types, Sound
  <2>2. config.hatch \notin Listed
    BY <2>1 DEF Hatched
  <2>3. \A t \in Tic : t # config.hatch => tics'[t] = tics[t]
    BY <2>1 DEF Types
  <2> QED  BY <1>0, <2>1, <2>2, <2>3, ListedAre DEF Waiting, Hatched, AtWork
<1>14. CASE HatchSend
  <2>1. UNCHANGED <<tics, todo, cur, pc>> /\ hnodes # {}
    BY <1>14 DEF HatchSend, tick
  <2> QED  BY <1>0, <2>1 DEF Waiting, Hatched, AtWork
<1>15. CASE GetOld \/ (\E t \in Tic : ArriveFile(t)) \/ (\E n \in Node : Fetch(n))
  BY <1>3, <1>15 DEF GetOld, ArriveFile, Fetch, tick, AtWork
<1>16. CASE UNCHANGED vars
  BY <1>3, <1>16 DEF vars, tick, AtWork
<1> QED  BY <1>1, <1>2, <1>5, <1>6, <1>7, <1>8, <1>9, <1>10, <1>11, <1>12, <1>13, <1>14,
            <1>15, <1>16 DEF Next, Process

\* While the TIC file at hand and the areas are the same, so is its area.
LEMMA SameArea ==
  ASSUME UNCHANGED <<config, known, cur>>
  PROVE  /\ (IsUnknown <=> IsUnknown') /\ Rec' = Rec /\ Info(cur)' = Info(cur)
         /\ NewNodes(cur, Rec)' = NewNodes(cur, Rec)
         /\ IsListed(Info(cur).from, Rec)' = IsListed(Info(cur).from, Rec)
BY DEF IsUnknown, Rec, Info, NewNodes, AreaName, IsListed

\* What process_tic() has found out about the area.
LEMMA NextAreaFound ==
  ASSUME Types, Waiting, AreaFound, [Next]_vars
  PROVE  AreaFound'
<1>1. CASE UNCHANGED <<config, known, cur, new>> /\ pc' = pc
  BY <1>1, SameArea DEF AreaFound
<1>2. CASE pc' \notin Filed
  BY <1>2 DEF AreaFound, Filed, Passing, Sending
<1>3. CASE FindArea
  <2> DEFINE created == IsUnknown /\ config.unknown = NONE
                        /\ config.create # NONE /\ MayCreate
             r == IF created THEN config.create ELSE known[AreaName(cur)]
  <2>1. /\ UNCHANGED <<config, cur>>
        /\ known' = IF created THEN [known EXCEPT ![Info(cur).area] = r] ELSE known
        /\ pc' = IF r # NONE /\ ((IsUnknown /\ ~created) \/ IsListed(Info(cur).from, r))
                 THEN "replace" ELSE "bad"
    BY <1>3 DEF FindArea, Quiet
  <2>2. CASE pc' = "bad"
    BY <1>2, <2>2 DEF Filed, Passing, Sending
  <2>3. CASE pc' = "replace" /\ created
    <3>1. IsListed(Info(cur).from, config.create) /\ Info(cur)' = Info(cur)
      BY <2>1, <2>3 DEF Info
    <3>2. ~IsUnknown' /\ Rec' = config.create
      <4>1. cur \in Tic /\ Info(cur).area \in Area
        BY <1>3, ListedAre DEF FindArea, AtWork, Waiting, Types, Sound, Info
      <4>2. known'[Info(cur).area] = config.create /\ Info(cur)' = Info(cur)
        BY <2>1, <2>3, <4>1 DEF Types, Info
      <4> QED  BY <2>3, <4>2 DEF IsUnknown, Rec, AreaName
    <3> QED  BY <2>3, <3>1, <3>2 DEF AreaFound, Filed, Passing, Sending, IsListed
  <2>4. CASE pc' = "replace" /\ ~created
    <3>1. UNCHANGED <<config, known, cur>>
      BY <2>1, <2>4
    <3>2. r # NONE /\ (IsUnknown \/ IsListed(Info(cur).from, Rec))
      BY <2>1, <2>4 DEF Rec
    <3>3. IsUnknown => config.unknown # NONE
      BY <2>4, <3>2 DEF IsUnknown, AreaName
    <3> QED  BY <2>4, <3>1, <3>2, <3>3, SameArea DEF AreaFound, Filed, Passing, Sending
  <2> QED  BY <2>1, <2>2, <2>3, <2>4
<1>4. CASE /\ UNCHANGED <<config, known, cur>> /\ pc \in Filed /\ pc' \notin Passing
  BY <1>4, SameArea DEF AreaFound, Filed, Passing, Sending
<1>5. CASE Replace \/ Unlink
  <2>1. /\ UNCHANGED <<config, known, cur>> /\ pc \in Filed
        /\ pc' \notin Sending /\ (pc' = "pass" => ~IsUnknown)
    BY <1>5 DEF Replace, Unlink, AfterReplace, Quiet, Filed, Passing, Sending
  <2> QED  BY <2>1, SameArea DEF AreaFound, Passing, Sending
<1>6. CASE Pass
  <2>1. /\ UNCHANGED <<config, known, cur>> /\ pc = "pass"
        /\ new' = NewNodes(cur, Rec) /\ pc' \in {"history", "bad", "link"}
    BY <1>6 DEF Pass, Quiet
  <2> QED  BY <2>1, SameArea DEF AreaFound, Filed, Passing, Sending
<1>7. CASE Link
  <2>1. UNCHANGED <<config, known, cur, new>> /\ pc = "link" /\ new # {} /\ pc' = "put"
    BY <1>7 DEF Link, Quiet
  <2> QED  BY <2>1, SameArea DEF AreaFound, Filed, Passing, Sending
<1>8. CASE Put
  <2>1. /\ UNCHANGED <<config, known, cur>> /\ new' \subseteq new /\ pc = "put" /\ pc' = "link"
    BY <1>8 DEF Put, Quiet
  <2> QED  BY <2>1, SameArea DEF AreaFound, Filed, Passing, Sending
<1>9. CASE Copy \/ Write \/ Clean \/ History
  BY <1>2, <1>4, <1>9 DEF Copy, Write, Clean, History, Quiet, Filed, Passing, Sending
<1>10. CASE Start \/ NextTic \/ Check \/ NoFile \/ Dupe \/ Bad \/ RemoveTic
  BY <1>2, <1>10 DEF Start, NextTic, Check, NoFile, Dupe, Bad, RemoveTic, Filed, Passing, Sending
<1>11. CASE WriteFails \/ SendFails \/ HistoryFails \/ Kill
  BY <1>2, <1>11 DEF WriteFails, SendFails, HistoryFails, Kill, Filed, Passing, Sending
<1>12. CASE Hatch \/ HatchSend \/ GetOld
  BY <1>1, <1>12 DEF Hatch, HatchSend, GetOld, tick
<1>13. CASE (\E t \in Tic : ArriveFile(t)) \/ (\E n \in Node : Fetch(n))
  BY <1>1, <1>13 DEF ArriveFile, Fetch, tick
<1>14. CASE UNCHANGED vars
  BY <1>1, <1>14 DEF vars, tick
<1> QED  BY <1>3, <1>5, <1>6, <1>7, <1>8, <1>9, <1>10, <1>11, <1>12, <1>13, <1>14
         DEF Next, Process

\* Whom a TIC file is for does not change once its area is known.
LEMMA DownlinksStay ==
  ASSUME Types, [Next]_vars, NEW t \in Tic, known[Info(t).area] # NONE
  PROVE  /\ Info(t)' = Info(t) /\ known'[Info(t).area] = known[Info(t).area]
         /\ \A n \in Node : IsDownlink(n, t)' = IsDownlink(n, t)
<1>1. Grows /\ Info(t)' = Info(t) /\ Info(t).area \in Area
  BY NextTypes DEF Grows, Types, Sound, Info
<1>2. known'[Info(t).area] = known[Info(t).area]
  BY <1>1 DEF Grows
<1> QED  BY <1>1, <1>2 DEF IsDownlink, IsListed

\* What has been finished stays so.
LEMMA FinishedStays ==
  ASSUME Types, [Next]_vars, NEW t \in Tic, Finished(t)
  PROVE  Finished(t)'
<1>1. Grows /\ Info(t)' = Info(t)
  BY NextTypes DEF Grows, Info
<1>2. CASE known[Info(t).area] = NONE
  BY <1>1, <1>2 DEF Grows, Finished
<1>3. CASE known[Info(t).area] # NONE
  <2>1. \A n \in Node : IsDownlink(n, t) => told[n][t] > 0 /\ told[n][t] \in Nat
    BY <1>3 DEF Finished, Types
  <2>2. \A n \in Node : told'[n][t] >= told[n][t] /\ told'[n][t] \in Nat
    BY <1>1, NextTypes DEF Grows, Types
  <2> QED  BY <1>1, <1>3, <2>1, <2>2, DownlinksStay DEF Finished
<1> QED  BY <1>2, <1>3

\* A downlink has its place among those the file is sent to.
LEMMA DownlinkPlaced ==
  ASSUME NEW t, NEW n, IsDownlink(n, t)
  PROVE  \E k \in NewNodes(t, known[Info(t).area]) : known[Info(t).area].nodes[k] = n
BY DEF IsDownlink, NewNodes

\* Who has his place there, of an area that has the sender, is a downlink.
LEMMA PlacedDownlink ==
  ASSUME AreaFound, pc \in Sending, NEW k \in NewNodes(cur, Rec)
  PROVE  /\ known[Info(cur).area] # NONE /\ Rec = known[Info(cur).area]
         /\ IsDownlink(Rec.nodes[k], cur)
<1>1. ~IsUnknown /\ IsListed(Info(cur).from, Rec)
  BY DEF AreaFound, Passing, Filed
<1>2. known[Info(cur).area] # NONE /\ Rec = known[Info(cur).area]
  BY <1>1 DEF IsUnknown, Rec, AreaName
<1> QED  BY <1>1, <1>2 DEF IsDownlink, NewNodes

\* The TIC file at hand is one of those in the listing.
LEMMA CurTic ==
  ASSUME Types, Waiting, AtWork
  PROVE  /\ cur \in Tic /\ cur \in Listed /\ tics[cur] = "tic"
         /\ Info(cur).area \in Area
BY ListedAre DEF Waiting, Types, Sound, Info

\* The places the file is sent to are those of nodes, each its own.
LEMMA NewPlaces ==
  ASSUME Types, Waiting, AreaFound, pc \in Sending
  PROVE  /\ \A k \in NewNodes(cur, Rec) : k \in Nat /\ Rec.nodes[k] \in Node
         /\ \A k, j \in NewNodes(cur, Rec) : Rec.nodes[k] = Rec.nodes[j] => k = j
<1>1. ~IsUnknown
  BY DEF AreaFound, Passing
<1>2. Info(cur).area \in Area
  BY CurTic DEF AtWork, Sending
<1>3. Record(Rec)
  BY <1>1, <1>2 DEF Types, IsUnknown, Rec, AreaName
<1>4. \A k \in NewNodes(cur, Rec) : k \in DOMAIN Rec.nodes
  BY DEF NewNodes
<1> QED  BY <1>3, <1>4 DEF Record, Places, Distinct

\* Whose turn it is.
LEMMA NextPlace ==
  ASSUME Types, Waiting, AreaFound, pc = "put"
  PROVE  /\ Min(new) \in new /\ new \subseteq NewNodes(cur, Rec)
         /\ \A k \in NewNodes(cur, Rec) : Rec.nodes[k] \in Node
         /\ \A k, j \in NewNodes(cur, Rec) : Rec.nodes[k] = Rec.nodes[j] => k = j
<1>1. pc \in Sending /\ new # {} /\ new \subseteq NewNodes(cur, Rec)
  BY DEF AreaFound, Sending
<1>2. new \in SUBSET Nat
  BY <1>1, NewPlaces
<1> QED  BY <1>1, <1>2, NewPlaces, MinIn

\* A TIC file that goes has been finished, or somebody is to know of it.
LEMMA NextGone ==
  ASSUME Types, Waiting, Hatched, AllTold, [Next]_vars
  PROVE  GoneFinished'
<1>0. Grows /\ Listed' = Listed /\ Listed \subseteq Tic
  BY NextTypes, ListedAre DEF Grows, Listed
<1>1. SUFFICES ASSUME NEW t \in Listed, tics'[t] = "gone"
               PROVE  Finished(t)' \/ t \in excused'
  BY <1>0 DEF GoneFinished
<1>2. CASE tics[t] = "gone"
  BY <1>0, <1>2, FinishedStays DEF AllTold, GoneFinished, Grows
<1>3. CASE tics'[t] # tics[t]
  <2>1. CASE NoFile \/ Dupe
    <3>1. \/ UNCHANGED tics
          \/ tics' = [tics EXCEPT ![cur] = "gone"] /\ cur \in excused'
      BY <2>1 DEF NoFile, Dupe
    <3>2. t = cur \/ tics'[t] = tics[t]
      BY <3>1, <1>0 DEF Types
    <3> QED  BY <1>3, <3>1, <3>2
  <2>2. CASE Bad
    <3>1. tics' = [tics EXCEPT ![cur] = "bad"]
      BY <2>2 DEF Bad
    <3>2. tics'[t] = "bad" \/ tics'[t] = tics[t]
      BY <3>1, <1>0 DEF Types
    <3> QED  BY <1>1, <1>3, <3>2
  <2>3. CASE RemoveTic
    <3>1. tics' = [tics EXCEPT ![cur] = "gone"] /\ Finished(cur)
      BY <2>3 DEF RemoveTic, AllTold, CurFinished
    <3>2. t = cur \/ tics'[t] = tics[t]
      BY <3>1, <1>0 DEF Types
    <3>3. t = cur /\ Finished(t) /\ t \in Tic
      BY <1>0, <1>3, <3>1, <3>2
    <3> QED  BY <3>3, FinishedStays
  <2>4. CASE Hatch
    <3>1. tics' = [tics EXCEPT ![config.hatch] = "gone"] /\ tics[config.hatch] = "none"
      BY <2>4 DEF Hatch
    <3>2. t # config.hatch
      BY <3>1 DEF Hatched
    <3> QED  BY <1>0, <1>3, <3>1, <3>2 DEF Types
  <2>5. CASE UNCHANGED tics
    BY <1>3, <2>5
  <2>6. CASE Start \/ NextTic \/ Check \/ FindArea \/ Replace \/ Copy \/ Write \/ Unlink
    BY <2>5, <2>6 DEF Start, NextTic, Check, FindArea, Replace, Copy, Write, Unlink
  <2>7. CASE Pass \/ Link \/ Put \/ Clean \/ History
    BY <2>5, <2>7 DEF Pass, Link, Put, Clean, History
  <2>8. CASE WriteFails \/ SendFails \/ HistoryFails \/ Kill \/ HatchSend \/ GetOld
    BY <2>5, <2>8 DEF WriteFails, SendFails, HistoryFails, Kill, HatchSend, GetOld
  <2>9. CASE (\E u \in Tic : ArriveFile(u)) \/ (\E n \in Node : Fetch(n)) \/ UNCHANGED vars
    BY <2>5, <2>9 DEF ArriveFile, Fetch, vars
  <2> QED  BY <2>1, <2>2, <2>3, <2>4, <2>6, <2>7, <2>8, <2>9 DEF Next, Process
<1> QED  BY <1>1, <1>2, <1>3

\* The TIC file that is about to be removed is finished.
LEMMA NextFinished ==
  ASSUME Types, Waiting, AreaFound, AllTold, [Next]_vars
  PROVE  CurFinished'
<1>1. CASE pc' \notin {"history", "remove"}
  BY <1>1 DEF CurFinished
<1>2. CASE AtWork /\ Finished(cur) /\ cur' = cur
  <2>1. Finished(cur)'
    BY <1>2, CurTic, FinishedStays
  <2> QED  BY <2>1 DEF CurFinished
<1>3. CASE Replace \/ Unlink
  <2>1. /\ AtWork /\ pc \in Filed /\ cur' = cur
        /\ pc' \in {"history", "remove"} => IsUnknown
    BY <1>3 DEF Replace, Unlink, AfterReplace, AtWork, Filed, Quiet
  <2>2. IsUnknown => Finished(cur)
    BY <2>1 DEF AreaFound, Finished, IsUnknown
  <2> QED  BY <1>1, <1>2, <2>1, <2>2
<1>4. CASE Pass
  <2>1. /\ pc = "pass" /\ cur' = cur /\ pc' \in {"history", "bad", "link"}
        /\ pc' = "history" => NewNodes(cur, Rec) = {}
    BY <1>4 DEF Pass, Quiet
  <2>2. ~IsUnknown
    BY <2>1 DEF AreaFound, Passing
  <2>3. CASE NewNodes(cur, Rec) = {}
    <3>1. Finished(cur)
      BY <2>2, <2>3, DownlinkPlaced DEF IsUnknown, Rec, AreaName, Finished
    <3> QED  BY <1>2, <2>1, <3>1 DEF AtWork
  <2> QED  BY <1>1, <2>1, <2>3
<1>5. CASE Clean
  <2>1. pc = "link" /\ new = {} /\ cur' = cur
    BY <1>5 DEF Clean, Quiet
  <2>2. \A k \in NewNodes(cur, Rec) : told[Rec.nodes[k]][cur] > 0
    BY <2>1 DEF AllTold, SoFarTold, Sending
  <2>3. ~IsUnknown
    BY <2>1 DEF AreaFound, Passing, Sending
  <2>4. Finished(cur)
    BY <2>2, <2>3, DownlinkPlaced DEF IsUnknown, Rec, AreaName, Finished
  <2> QED  BY <1>2, <2>1, <2>4 DEF AtWork
<1>6. CASE cur' = cur /\ pc \in {"history", "remove"}
  BY <1>2, <1>6 DEF AtWork, AllTold, CurFinished
<1>7. CASE History \/ Kill
  BY <1>1, <1>6, <1>7 DEF History, Kill, Quiet
<1>8. CASE Start \/ NextTic \/ Check \/ NoFile \/ Dupe \/ Bad \/ FindArea
  BY <1>1, <1>8 DEF Start, NextTic, Check, NoFile, Dupe, Bad, FindArea
<1>9. CASE Copy \/ Write \/ Link \/ Put \/ RemoveTic
  BY <1>1, <1>9 DEF Copy, Write, Link, Put, RemoveTic
<1>10. CASE WriteFails \/ SendFails \/ HistoryFails
  BY <1>1, <1>10 DEF WriteFails, SendFails, HistoryFails
<1>11. CASE UNCHANGED tick
  BY <1>1, <1>6, <1>11 DEF tick
<1>12. CASE Hatch \/ HatchSend \/ GetOld \/ UNCHANGED vars
  BY <1>11, <1>12 DEF Hatch, HatchSend, GetOld, vars
<1>13. CASE (\E u \in Tic : ArriveFile(u)) \/ (\E n \in Node : Fetch(n))
  BY <1>11, <1>13 DEF ArriveFile, Fetch
<1> QED  BY <1>3, <1>4, <1>5, <1>7, <1>8, <1>9, <1>10, <1>12, <1>13 DEF Next, Process

\* Those whose turn has been were told.
LEMMA NextSoFar ==
  ASSUME Types, Waiting, AreaFound, AllTold, [Next]_vars
  PROVE  SoFarTold'
<1>0. Grows /\ Types'
  BY NextTypes
<1>1. CASE pc' \notin Sending
  BY <1>1 DEF SoFarTold
<1>2. CASE UNCHANGED <<config, known, cur, new, told>> /\ pc \in Sending
  <2>1. SoFarTold
    BY DEF AllTold
  <2> QED  BY <1>2, <2>1, SameArea DEF SoFarTold
<1>3. CASE Pass
  <2>1. UNCHANGED <<config, known, cur>> /\ new' = NewNodes(cur, Rec)
    BY <1>3 DEF Pass, Quiet
  <2> QED  BY <2>1, SameArea DEF SoFarTold
<1>4. CASE Put
  <2>1. /\ UNCHANGED <<config, known, cur>> /\ new' = new \ {Min(new)} /\ pc = "put"
        /\ TickPut(Rec.nodes[Min(new)], cur)
    BY <1>4 DEF Put, Quiet, NextNode
  <2>2. cur \in Tic
    BY <2>1, CurTic DEF AtWork
  <2>3. SUFFICES ASSUME NEW k \in NewNodes(cur, Rec) \ new'
                 PROVE  told'[Rec.nodes[k]][cur] > 0
    BY <2>1, SameArea DEF SoFarTold
  <2>4. Rec.nodes[k] \in Node
    BY <2>1, NextPlace
  <2>5. told[Rec.nodes[k]][cur] \in Nat
    BY <2>2, <2>4 DEF Types
  <2>6. CASE k = Min(new)
    BY <2>1, <2>2, <2>4, <2>5, <2>6, PutTold
  <2>7. CASE k \notin new
    <3>1. told[Rec.nodes[k]][cur] > 0
      BY <2>1, <2>7 DEF AllTold, SoFarTold, Sending
    <3> QED  BY <2>1, <2>2, <2>4, <2>5, <3>1, PutTold
  <2> QED  BY <2>1, <2>6, <2>7
<1>5. CASE Link
  BY <1>2, <1>5 DEF Link, Quiet, ghost, Sending
<1>6. CASE HatchSend
  <2>1. UNCHANGED <<config, known, cur, new, pc>>
    BY <1>6 DEF HatchSend, tick
  <2>2. SUFFICES ASSUME pc \in Sending, NEW k \in NewNodes(cur, Rec) \ new
                 PROVE  told'[Rec.nodes[k]][cur] > 0
    BY <2>1, SameArea DEF SoFarTold
  <2>3. told[Rec.nodes[k]][cur] > 0
    BY <2>2 DEF AllTold, SoFarTold
  <2>4. Rec.nodes[k] \in Node /\ cur \in Tic
    BY <2>2, CurTic, NewPlaces DEF AtWork, Sending
  <2>5. /\ told[Rec.nodes[k]][cur] \in Nat /\ told'[Rec.nodes[k]][cur] \in Nat
        /\ told'[Rec.nodes[k]][cur] >= told[Rec.nodes[k]][cur]
    BY <1>0, <2>4 DEF Types, Grows
  <2> QED  BY <2>3, <2>5
<1>7. CASE Start \/ NextTic \/ Check \/ NoFile \/ Dupe \/ Bad \/ FindArea
  BY <1>1, <1>7 DEF Start, NextTic, Check, NoFile, Dupe, Bad, FindArea, Sending
<1>8. CASE Replace \/ Copy \/ Write \/ Unlink \/ Clean \/ History \/ RemoveTic
  BY <1>1, <1>8 DEF Replace, AfterReplace, Copy, Write, Unlink, Clean, History, RemoveTic, Sending
<1>9. CASE WriteFails \/ SendFails \/ HistoryFails \/ Kill
  BY <1>1, <1>9 DEF WriteFails, SendFails, HistoryFails, Kill, Sending
<1>10. CASE UNCHANGED <<config, known, tick, told>>
  BY <1>1, <1>2, <1>10 DEF tick
<1>11. CASE Hatch \/ GetOld \/ UNCHANGED vars
  BY <1>10, <1>11 DEF Hatch, GetOld, ghost, vars
<1>12. CASE (\E u \in Tic : ArriveFile(u)) \/ (\E n \in Node : Fetch(n))
  BY <1>10, <1>12 DEF ArriveFile, Fetch, ghost
<1> QED  BY <1>3, <1>4, <1>5, <1>6, <1>7, <1>8, <1>9, <1>11, <1>12 DEF Next, Process

\* Whether a TIC file has been sent, is being sent, or waits to be, nobody is
\* sent it again but after an interruption.
LEMMA NextToldOnce ==
  ASSUME Types, Waiting, Hatched, AreaFound, ToldOnce, [Next]_vars
  PROVE  ToldOnce'
<1>0. Types' /\ Grows /\ Listed' = Listed /\ Listed \subseteq Tic
  BY NextTypes, ListedAre DEF Grows, Listed
\* Steps that tell nobody anything.
<1>1. CASE /\ UNCHANGED told
           /\ \/ faults' = faults + 1
              \/ \A n \in Node, t \in Listed : Served(n, t) => Served(n, t)'
  <2>1. SUFFICES ASSUME NEW n \in Node, NEW t \in Listed
                 PROVE  /\ told'[n][t] <= 1 + faults'
                        /\ ~Served(n, t)' => told'[n][t] <= faults'
                        /\ told'[n][t] > 0 =>
                             known'[Info(t).area] # NONE /\ IsDownlink(n, t)'
    BY <1>0 DEF ToldOnce, Info, Grows
  <2>2. /\ told'[n][t] = told[n][t] /\ told[n][t] \in Nat /\ faults \in Nat /\ faults' \in Nat
        /\ faults' >= faults
    BY <1>0, <1>1 DEF Types, Grows
  <2>3. /\ told[n][t] <= 1 + faults
        /\ ~Served(n, t) => told[n][t] <= faults
        /\ told[n][t] > 0 => known[Info(t).area] # NONE /\ IsDownlink(n, t)
    BY DEF ToldOnce
  <2>4. told'[n][t] > 0 => known'[Info(t).area] # NONE /\ IsDownlink(n, t)'
    BY <1>0, <2>2, <2>3, DownlinksStay
  <2>5. CASE faults' = faults + 1
    BY <2>2, <2>3, <2>4, <2>5
  <2>6. CASE Served(n, t) => Served(n, t)'
    BY <2>2, <2>3, <2>4, <2>6
  <2> QED  BY <1>1, <2>5, <2>6
<1>2. CASE UNCHANGED told /\ faults' = faults + 1
  BY <1>1, <1>2
<1>3. CASE UNCHANGED <<told, config, known, tics, cur, new, pc>>
  <2>1. \A n \in Node, t \in Listed : Served(n, t)' = Served(n, t)
    BY <1>3, SameArea DEF Served
  <2> QED  BY <1>1, <1>3, <2>1
\* While nobody is being sent the TIC file at hand.
<1>4. CASE /\ UNCHANGED <<told, tics>>
           /\ pc \notin Sending \cup {"bad", "history", "remove"}
  BY <1>1, <1>4 DEF Served
<1>5. CASE Bad \/ RemoveTic
  <2>1. /\ UNCHANGED told /\ pc \in {"bad", "remove"} /\ cur \in Tic
        /\ \E w \in {"bad", "gone"} : tics' = [tics EXCEPT ![cur] = w]
    BY <1>5, CurTic DEF Bad, RemoveTic, ghost, AtWork
  <2>2. /\ \A t \in Tic : t # cur => tics'[t] = tics[t]
        /\ tics'[cur] \in {"bad", "gone"}
    BY <2>1 DEF Types
  <2>3. \A n \in Node, t \in Listed : Served(n, t) => Served(n, t)'
    BY <1>0, <2>1, <2>2 DEF Served, Sending
  <2> QED  BY <1>1, <2>1, <2>3
<1>6. CASE NoFile \/ Dupe
  <2>1. /\ UNCHANGED told /\ pc \in {"check", "dupe"} /\ cur \in Tic
        /\ tics' = tics \/ tics' = [tics EXCEPT ![cur] = "gone"]
    BY <1>6, CurTic DEF NoFile, Dupe, AtWork
  <2>2. \A t \in Tic : tics'[t] = tics[t] \/ tics'[t] = "gone"
    BY <2>1 DEF Types
  <2>3. \A n \in Node, t \in Listed : Served(n, t) => Served(n, t)'
    BY <1>0, <2>1, <2>2 DEF Served, Sending
  <2> QED  BY <1>1, <2>1, <2>3
<1>7. CASE /\ UNCHANGED <<told, tics, cur>> /\ pc \in Sending
           /\ pc' \in {"bad", "history", "remove"}
  BY <1>1, <1>7 DEF Served, Sending
<1>8. CASE Clean
  BY <1>7, <1>8 DEF Clean, Quiet, ghost, Sending
<1>9. CASE Link
  <2>1. UNCHANGED <<told, config, known, tics, cur, new>> /\ pc = "link" /\ pc' = "put"
    BY <1>9 DEF Link, Quiet, ghost
  <2>2. \A n \in Node, t \in Listed : Served(n, t)' = Served(n, t)
    BY <2>1, SameArea DEF Served, Sending
  <2> QED  BY <1>1, <2>1, <2>2
<1>10. CASE History
  BY <1>1, <1>10 DEF History, Quiet, ghost, Served, Sending
<1>11. CASE Put
  <2>1. /\ UNCHANGED <<config, known, tics, cur, faults>> /\ pc = "put" /\ pc' = "link"
        /\ new' = new \ {Min(new)} /\ TickPut(Rec.nodes[Min(new)], cur)
    BY <1>11 DEF Put, Quiet, NextNode
  <2>2. /\ Min(new) \in new /\ new \subseteq NewNodes(cur, Rec)
        /\ \A k \in NewNodes(cur, Rec) : Rec.nodes[k] \in Node
        /\ \A k, j \in NewNodes(cur, Rec) : Rec.nodes[k] = Rec.nodes[j] => k = j
    BY <2>1, NextPlace
  <2>3. SUFFICES ASSUME NEW n \in Node, NEW t \in Listed
                 PROVE  /\ told'[n][t] <= 1 + faults'
                        /\ ~Served(n, t)' => told'[n][t] <= faults'
                        /\ told'[n][t] > 0 =>
                             known'[Info(t).area] # NONE /\ IsDownlink(n, t)'
    BY <1>0 DEF ToldOnce, Info, Grows
  <2>4. /\ told[n][t] \in Nat /\ faults \in Nat
        /\ told[n][t] <= 1 + faults
        /\ ~Served(n, t) => told[n][t] <= faults
        /\ told[n][t] > 0 => known[Info(t).area] # NONE /\ IsDownlink(n, t)
    BY <1>0 DEF ToldOnce, Types
  <2>5. CASE n = Rec.nodes[Min(new)] /\ t = cur
    <3>1. told'[n][t] = told[n][t] + 1
      BY <1>0, <2>1, <2>5, PutTold
    <3>2. ~Served(n, t)
      <4>1. tics[t] = "tic"
        BY <2>1, <2>5, CurTic DEF AtWork
      <4> QED  BY <2>1, <2>2, <2>5, <4>1 DEF Served
    <3>3. Served(n, t)'
      <4>1. \A k \in new' : Rec.nodes[k] # n
        BY <2>1, <2>2, <2>5
      <4> QED  BY <2>1, <2>5, <4>1, SameArea DEF Served, Sending
    <3>4. known[Info(t).area] # NONE /\ IsDownlink(n, t)
      BY <2>1, <2>2, <2>5, PlacedDownlink DEF Sending
    <3> QED  BY <1>0, <2>1, <2>4, <3>1, <3>2, <3>3, <3>4, DownlinksStay
  <2>6. CASE ~(n = Rec.nodes[Min(new)] /\ t = cur)
    <3>1. told'[n][t] = told[n][t]
      BY <1>0, <2>1, <2>6, PutTold
    <3>2. Served(n, t) => Served(n, t)'
      BY <2>1, SameArea DEF Served, Sending
    <3> QED  BY <1>0, <2>1, <2>4, <3>1, <3>2, DownlinksStay
  <2> QED  BY <2>5, <2>6
<1>12. CASE HatchSend
  <2>1. /\ UNCHANGED <<config, known, tics, cur, new, pc>> /\ config.hatch \notin Listed
        /\ \/ faults' = faults /\ \E n : TickPut(n, config.hatch)
           \/ UNCHANGED told /\ faults' = faults + 1
    BY <1>12 DEF HatchSend, tick, Hatched
  <2>2. \A n \in Node, t \in Listed : told'[n][t] = told[n][t]
    BY <1>0, <2>1, PutTold
  <2>3. \A n \in Node, t \in Listed : Served(n, t)' = Served(n, t)
    BY <2>1, SameArea DEF Served
  <2>4. \A n \in Node, t \in Listed :
          told[n][t] \in Nat /\ faults \in Nat /\ faults' \in Nat /\ faults' >= faults
    BY <1>0 DEF Types, Grows
  <2>5. \A n \in Node, t \in Listed :
          known[Info(t).area] # NONE /\ IsDownlink(n, t) =>
          known'[Info(t).area] # NONE /\ IsDownlink(n, t)'
    BY <1>0, DownlinksStay
  <2> QED  BY <1>0, <2>1, <2>2, <2>3, <2>4, <2>5 DEF ToldOnce, Info
<1>13. CASE Hatch
  <2>1. /\ UNCHANGED <<told, config, known, cur, new, pc>> /\ tics[config.hatch] = "none"
        /\ tics' = [tics EXCEPT ![config.hatch] = "gone"]
    BY <1>13 DEF Hatch, tick, ghost
  <2>2. \A t \in Listed : tics'[t] = tics[t]
    BY <1>0, <2>1 DEF Hatched, Types
  <2>3. \A n \in Node, t \in Listed : Served(n, t) => Served(n, t)'
    BY <2>1, <2>2, SameArea DEF Served
  <2> QED  BY <1>1, <2>1, <2>3
<1>14. CASE Start \/ NextTic \/ Check \/ FindArea
  BY <1>4, <1>14 DEF Start, NextTic, Check, FindArea, ghost, Sending
<1>15. CASE Replace \/ Copy \/ Write \/ Unlink \/ Pass
  BY <1>4, <1>15 DEF Replace, Copy, Write, Unlink, Pass, ghost, Sending
<1>16. CASE WriteFails \/ SendFails \/ HistoryFails \/ Kill
  BY <1>2, <1>16 DEF WriteFails, SendFails, HistoryFails, Kill, ghost
<1>17. CASE GetOld \/ UNCHANGED vars
  BY <1>3, <1>17 DEF GetOld, tick, ghost, vars
<1>18. CASE (\E u \in Tic : ArriveFile(u)) \/ (\E n \in Node : Fetch(n))
  BY <1>3, <1>18 DEF ArriveFile, Fetch, tick, ghost
<1> QED  BY <1>5, <1>6, <1>8, <1>9, <1>10, <1>11, <1>12, <1>13, <1>14, <1>15, <1>16, <1>17,
            <1>18 DEF Next, Process

-----------------------------------------------------------------------------
\* Every step keeps the invariant,
LEMMA NextIInv == IInv /\ [Next]_vars => IInv'
BY NextTypes, NextWaiting, NextAreaFound, NextSoFar, NextFinished, NextGone, NextToldOnce
   DEF IInv, AllTold

\* and it says what is to be shown.
LEMMA IInvSafe == IInv => NotForgotten /\ SentOnce
<1> SUFFICES ASSUME IInv
             PROVE  NotForgotten /\ SentOnce
  OBVIOUS
<1>1. NotForgotten
  <2>1. SUFFICES ASSUME NEW t \in Range(config.order), NEW n \in Node, IsDownlink(n, t)
                 PROVE  told[n][t] > 0 \/ tics[t] \in {"tic", "bad"} \/ t \in excused
    BY DEF NotForgotten
  <2>2. t \in Tic /\ tics[t] \in {"none", "tic", "bad", "gone"} /\ tics[t] # "none"
    BY ListedAre DEF IInv, Types, Hatched, Listed
  <2>3. Finished(t) => told[n][t] > 0
    BY <2>1 DEF Finished, IsDownlink
  <2> QED  BY <2>2, <2>3 DEF IInv, AllTold, GoneFinished, Listed
<1>2. SentOnce
  BY DEF IInv, ToldOnce, SentOnce, Listed
<1> QED  BY <1>1, <1>2

\* A downlink that is to get a file is told, or somebody still has the TIC file,
\* whatever fails and whenever ftntick dies (process_tic(), do_tic()).
THEOREM TickForgetsNone ==
  ASSUME \A c \in Configs : Sound(c)
  PROVE  Spec => []NotForgotten
<1>1. Init => IInv
  BY InitIInv
<1>2. IInv => NotForgotten
  BY IInvSafe
<1> QED  BY <1>1, <1>2, NextIInv, PTL DEF Spec

\* Nobody is sent a TIC file that is not for him, or the same one again unless
\* ftntick was interrupted (do_seenby(), tick_send(), ftntick_write_history()).
THEOREM TickSendsOnce ==
  ASSUME \A c \in Configs : Sound(c)
  PROVE  Spec => []SentOnce
<1>1. Init => IInv
  BY InitIInv
<1>2. IInv => SentOnce
  BY IInvSafe
<1> QED  BY <1>1, <1>2, NextIInv, PTL DEF Spec

-----------------------------------------------------------------------------
(* The histories.                                                          *)

User    == Toss \cup Tick
Holding == {"test", "write", "written", "copy", "rename", "rename_pag", "unlock"}
Opened  == {"test", "write", "written", "close"}

\* Each program has its own steps.
Roles ==
  /\ \A p \in Toss : step[p] \in {"idle", "lock", "test", "close"}
  /\ \A p \in Tick : step[p] \in {"idle", "lock", "relock", "test", "write",
                                  "written"}
  /\ \A p \in Expire : step[p] \in {"idle", "lock", "copy", "rename",
                                    "rename_pag", "unlock"}

\* Who is at a step that needs a lock has it; one program at a time is more
\* than idle.
Locks ==
  /\ \A p \in Proc : step[p] \in Holding => lock = p
  /\ \A p \in User : step[p] # "idle" => prog = p

\* What a program has open, and that no generation is used before it is made;
\* ftntick is at a TIC file.
Handles ==
  /\ tname <= made /\ pname <= made
  /\ \A p \in Proc : index[p] <= made
  /\ \A p \in Proc : p \in Expire \/ step[p] \notin Opened => ~stored[p] /\ index[p] = 0
  /\ \A p \in User : step[p] \in {"test", "write", "written"} =>
                       file[p] = tname /\ index[p] = pname
  /\ \A p \in Tick : /\ step[p] # "idle" => key[p] \in Id
                     /\ step[p] # "written" => ~stored[p]

Renaming == \E e \in Expire : step[e] = "rename_pag"

\* Who has the index that has the name open knows every line of the text.
CoreCovers ==
  \A p \in User : step[p] \in Opened /\ index[p] = pname =>
    DOMAIN text[tname] \subseteq core[p]

Suffix(s, t) == \E n \in 0 .. Len(t) : s = SubSeq(t, n + 1, Len(t))

\* The text and the index ftnexpire has made belong together, nobody else has
\* them open, and until it takes the name the text is the end of the old one.
NewFiles ==
  \A e \in Expire :
    /\ step[e] \in {"rename", "rename_pag"} =>
         /\ file[e] = made /\ made > 0 /\ pname # made
         /\ pag[made] = DOMAIN text[made]
         /\ \A p \in User : index[p] # made
    /\ step[e] = "rename" => tname # made /\ Suffix(text[made], text[tname])
    /\ step[e] = "rename_pag" => tname = made

\* What ftntick has tested is still true when it writes.
Tested ==
  \A p \in Tick : ~blind[p] =>
    /\ step[p] = "test" => ~gap
    /\ step[p] \in {"relock", "write"} => key[p] \notin Lines(tname)

HistoryInv == /\ HistoryTypeOK /\ Roles /\ Locks /\ Handles
              /\ gap \/ Renaming \/ CoreCovers
              /\ IndexCovers /\ NewFiles /\ Tested

\* The end of a text, as ftnexpire copies it.
LEMMA KeptLines ==
  ASSUME NEW t \in Seq(Id), NEW n \in 0 .. Len(t)
  PROVE  LET k == SubSeq(t, n + 1, Len(t)) IN
         /\ k \in Seq(Id) /\ Len(k) <= Len(t) /\ DOMAIN k = 1 .. Len(k)
         /\ \A o \in DOMAIN k : n + o \in DOMAIN t /\ k[o] = t[n + o]
<1> DEFINE k == SubSeq(t, n + 1, Len(t))
<1>1. Len(t) \in Nat /\ n \in Nat /\ n <= Len(t)  OBVIOUS
<1>2. \A o \in n + 1 .. Len(t) : t[o] \in Id  BY <1>1
<1>3. /\ k \in Seq(Id)
      /\ Len(k) = IF n + 1 <= Len(t) THEN Len(t) - (n + 1) + 1 ELSE 0
      /\ \A o \in 1 .. Len(t) - (n + 1) + 1 : k[o] = t[n + 1 + o - 1]
  BY <1>1, <1>2, SubSeqProperties
<1>4. Len(k) = Len(t) - n /\ DOMAIN k = 1 .. Len(t) - n  BY <1>1, <1>3
<1>5. \A o \in 1 .. Len(t) - n : n + o \in 1 .. Len(t) /\ k[o] = t[n + o]
  <2>1. TAKE o \in 1 .. Len(t) - n
  <2>2. n + 1 + o - 1 = n + o /\ o \in 1 .. Len(t) - (n + 1) + 1  BY <1>1
  <2> QED  BY <1>1, <1>3, <2>2
<1> QED  BY <1>1, <1>3, <1>4, <1>5

\* A program starts: it gets the lock of its name, or that of areas.bbs.
LEMMA BeginIInv ==
  ASSUME Serial, HistoryInv, NEW p \in Proc, Begin(p) PROVE HistoryInv'
<1> USE ConstantsAssumption DEF Proc, User, Gen, Goto, files, open, HistoryInv
<1>1. HistoryTypeOK'
  <2>1. prog' \in Proc \cup {NoOne}
    BY DEF Begin, ProgramLock!Acquire, HistoryTypeOK
  <2>2. key' \in [Proc -> Id \cup {NoOne}]
    <3>1. CASE p \in Tick  BY <3>1 DEF Begin, HistoryTypeOK
    <3>2. CASE p \notin Tick  BY <3>2 DEF Begin, HistoryTypeOK
    <3> QED  BY <3>1, <3>2
  <2>3. step' \in [Proc -> Control]  BY DEF Begin, HistoryTypeOK, Control
  <2> QED  BY <2>1, <2>2, <2>3 DEF Begin, HistoryTypeOK
<1>2. (Roles /\ Locks)'
  BY DEF Begin, ProgramLock!Acquire, HistoryTypeOK, Roles, Locks, Holding
<1>3. Handles'
  BY SMTT(60) DEF Begin, ProgramLock!Acquire, HistoryTypeOK, Roles, Locks, Handles, Holding,
         Opened
<1>4. (gap \/ Renaming \/ CoreCovers)' /\ IndexCovers'
  BY DEF Begin, ProgramLock!Acquire, HistoryTypeOK, Renaming, CoreCovers,
         IndexCovers, Roles, Locks, Handles, Holding, Opened
<1>5. NewFiles'
  BY DEF Begin, ProgramLock!Acquire, HistoryTypeOK, NewFiles, Suffix, Roles, Locks,
         Handles, Holding, Opened
<1>6. Tested'
  BY DEF Begin, ProgramLock!Acquire, HistoryTypeOK, Tested, Lines, Roles, Locks,
         Handles, Holding, Opened
<1> QED  BY <1>1, <1>2, <1>3, <1>4, <1>5, <1>6

\* ftnexpire starts.
LEMMA BeginExpireIInv ==
  ASSUME Serial, HistoryInv, NEW p \in Proc, BeginExpire(p) PROVE HistoryInv'
<1> USE ConstantsAssumption DEF Proc, User, Gen, Goto, files, open, HistoryInv
<1>1. HistoryTypeOK'
  BY DEF BeginExpire, HistoryTypeOK, Control, Line
<1>2. (Roles /\ Locks)'
  BY SMTT(60) DEF BeginExpire, HistoryTypeOK, Roles, Locks, Holding
<1>3. Handles'
  BY SMTT(60) DEF BeginExpire, HistoryTypeOK, Roles, Locks, Handles, Holding, Opened
<1>4. (gap \/ Renaming \/ CoreCovers)' /\ IndexCovers'
  BY DEF BeginExpire, HistoryTypeOK, Renaming, CoreCovers, IndexCovers, Roles, Locks,
         Handles, Holding, Opened
<1>5. NewFiles'
  BY DEF BeginExpire, HistoryTypeOK, NewFiles, Suffix, Roles, Locks, Handles,
         Holding, Opened
<1>6. Tested'
  BY DEF BeginExpire, HistoryTypeOK, Tested, Lines, Roles, Locks, Handles, Holding,
         Opened
<1> QED  BY <1>1, <1>2, <1>3, <1>4, <1>5, <1>6

\* The index that has the name is loaded: it covers the text, as nobody else
\* has anything to write back.
LEMMA TakeLockIInv ==
  ASSUME Serial, HistoryInv, NEW p \in Proc, TakeLock(p) PROVE HistoryInv'
<1> USE ConstantsAssumption DEF Proc, User, Gen, Goto, files, open, HistoryInv
<1>1. HistoryTypeOK'
  BY DEF TakeLock, HistoryLock!Acquire, OpenHistory, LoadIndex, HistoryTypeOK,
         Control, Line
<1>2. (Roles /\ Locks)'
  BY DEF TakeLock, HistoryLock!Acquire, OpenHistory, LoadIndex, HistoryTypeOK, Roles,
         Locks, Holding
<1>3. Handles'
  BY DEF TakeLock, HistoryLock!Acquire, OpenHistory, LoadIndex, HistoryTypeOK, Roles,
         Locks, Handles, Holding, Opened
<1>4. (gap \/ Renaming \/ CoreCovers)' /\ IndexCovers'
  BY ZenonT(60) DEF TakeLock, HistoryLock!Acquire, OpenHistory, LoadIndex, HistoryTypeOK,
         Renaming, CoreCovers, IndexCovers, Roles, Locks, Handles, Holding,
         Opened
<1>5. NewFiles'
  BY DEF TakeLock, HistoryLock!Acquire, OpenHistory, LoadIndex, HistoryTypeOK,
         NewFiles, Suffix, Roles, Locks, Handles, Holding, Opened
<1>6. Tested'
  BY DEF TakeLock, HistoryLock!Acquire, OpenHistory, LoadIndex, HistoryTypeOK,
         Tested, Lines, Roles, Locks, Handles, Holding, Opened
<1> QED  BY <1>1, <1>2, <1>3, <1>4, <1>5, <1>6

\* As TakeLock; the key ftntick has tested stays what it is.
LEMMA RetakeLockIInv ==
  ASSUME Serial, HistoryInv, NEW p \in Proc, RetakeLock(p) PROVE HistoryInv'
<1> USE ConstantsAssumption DEF Proc, User, Gen, Goto, files, open, HistoryInv
<1>1. HistoryTypeOK'
  BY DEF RetakeLock, HistoryLock!Acquire, OpenHistory, LoadIndex, HistoryTypeOK,
         Control, Line
<1>2. (Roles /\ Locks)'
  BY DEF RetakeLock, HistoryLock!Acquire, OpenHistory, LoadIndex, HistoryTypeOK,
         Roles, Locks, Holding
<1>3. Handles'
  BY DEF RetakeLock, HistoryLock!Acquire, OpenHistory, LoadIndex, HistoryTypeOK,
         Roles, Locks, Handles, Holding, Opened
<1>4. (gap \/ Renaming \/ CoreCovers)' /\ IndexCovers'
  BY ZenonT(60) DEF RetakeLock, HistoryLock!Acquire, OpenHistory, LoadIndex, HistoryTypeOK,
         Renaming, CoreCovers, IndexCovers, Roles, Locks, Handles, Holding,
         Opened
<1>5. NewFiles'
  BY DEF RetakeLock, HistoryLock!Acquire, OpenHistory, LoadIndex, HistoryTypeOK,
         NewFiles, Suffix, Roles, Locks, Handles, Holding, Opened
<1>6. Tested'
  <2>1. Lines(tname)' = Lines(tname)  BY DEF RetakeLock, Lines
  <2> QED  BY <2>1 DEF RetakeLock, HistoryTypeOK, Tested
<1> QED  BY <1>1, <1>2, <1>3, <1>4, <1>5, <1>6

\* ftnexpire gets the history lock.
LEMMA ExpireLockIInv ==
  ASSUME Serial, HistoryInv, NEW p \in Proc, ExpireLock(p) PROVE HistoryInv'
<1> USE ConstantsAssumption DEF Proc, User, Gen, Goto, files, open, HistoryInv
<1>1. HistoryTypeOK'
  BY DEF ExpireLock, HistoryLock!Acquire, HistoryTypeOK, Control, Line
<1>2. (Roles /\ Locks)'
  BY SMTT(60) DEF ExpireLock, HistoryLock!Acquire, HistoryTypeOK, Roles, Locks, Holding
<1>3. Handles'
  BY DEF ExpireLock, HistoryLock!Acquire, HistoryTypeOK, Roles, Locks, Handles,
         Holding, Opened
<1>4. (gap \/ Renaming \/ CoreCovers)' /\ IndexCovers'
  BY DEF ExpireLock, HistoryLock!Acquire, HistoryTypeOK, Renaming, CoreCovers,
         IndexCovers, Roles, Locks, Handles, Holding, Opened
<1>5. NewFiles'
  BY DEF ExpireLock, HistoryLock!Acquire, HistoryTypeOK, NewFiles, Suffix, Roles,
         Locks, Handles, Holding, Opened
<1>6. Tested'
  BY DEF ExpireLock, HistoryLock!Acquire, HistoryTypeOK, Tested, Lines, Roles, Locks,
         Handles, Holding, Opened
<1> QED  BY <1>1, <1>2, <1>3, <1>4, <1>5, <1>6

\* A program that does not get the history lock leaves.
LEMMA BusyIInv ==
  ASSUME Serial, HistoryInv, NEW p \in Proc, Busy(p) PROVE HistoryInv'
<1> USE ConstantsAssumption DEF Proc, User, Gen, Goto, files, open, HistoryInv
<1>1. HistoryTypeOK'
  BY DEF Busy, Done, HistoryTypeOK, Control, Line
<1>2. (Roles /\ Locks)'
  BY DEF Busy, Done, HistoryTypeOK, Roles, Locks, Holding
<1>3. Handles'
  BY DEF Busy, Done, HistoryTypeOK, Roles, Locks, Handles, Holding, Opened
<1>4. (gap \/ Renaming \/ CoreCovers)' /\ IndexCovers'
  BY DEF Busy, Done, HistoryTypeOK, Renaming, CoreCovers, IndexCovers, Roles, Locks,
         Handles, Holding, Opened
<1>5. NewFiles'
  BY DEF Busy, Done, HistoryTypeOK, NewFiles, Suffix, Roles, Locks, Handles, Holding,
         Opened
<1>6. Tested'
  BY DEF Busy, Done, HistoryTypeOK, Tested, Lines, Roles, Locks, Handles, Holding,
         Opened
<1> QED  BY <1>1, <1>2, <1>3, <1>4, <1>5, <1>6

\* A line more, which the index in core has.
LEMMA TossMessageIInv ==
  ASSUME Serial, HistoryInv, NEW p \in Proc, TossMessage(p) PROVE HistoryInv'
<1> USE ConstantsAssumption DEF Proc, User, Gen, Goto, files, open, HistoryInv
<1>1. HistoryTypeOK'
  <2>1. PICK i \in Id : WriteLine(p, i)
    BY DEF TossMessage
  <2>2. file[p] \in Gen /\ Len(text[file[p]]) < MaxLen
    BY <2>1 DEF WriteLine, HistoryTypeOK
  <2>3. Append(text[file[p]], i) \in Seq(Id)
    BY <2>2 DEF HistoryTypeOK
  <2>4. Len(Append(text[file[p]], i)) = Len(text[file[p]]) + 1
    BY <2>2 DEF HistoryTypeOK
  <2>5. text' \in [Gen -> Seq(Id)] /\ \A g \in Gen : Len(text'[g]) <= MaxLen
    BY SMTT(60), <2>1, <2>2, <2>3, <2>4 DEF WriteLine, HistoryTypeOK
  <2>6. Len(text[file[p]]) + 1 \in Line
    BY <2>2, Len(text[file[p]]) \in Nat DEF Line, HistoryTypeOK
  <2>7. core' \in [Proc -> SUBSET Line] /\ stored' \in [Proc -> BOOLEAN]
    BY <2>1, <2>6 DEF WriteLine, StoreOffset, HistoryTypeOK
  <2> QED  BY <2>5, <2>7 DEF TossMessage, HistoryTypeOK, Control
<1>2. (Roles /\ Locks)'
  BY DEF TossMessage, WriteLine, StoreOffset, HistoryTypeOK, Roles, Locks, Holding
<1>3. Handles'
  BY SMTT(60) DEF TossMessage, WriteLine, StoreOffset, HistoryTypeOK, Roles, Locks, Handles,
         Holding, Opened
<1>4. (gap \/ Renaming \/ CoreCovers)' /\ IndexCovers'
  <2>1. PICK i \in Id : WriteLine(p, i)
    BY DEF TossMessage, Handles, Roles
  <2>2. file[p] = tname /\ index[p] = pname /\ p \in User /\ step[p] \in Opened
    BY DEF TossMessage, Handles, Opened, Roles
  <2>3. ~Renaming /\ ~Renaming'
    BY DEF TossMessage, Renaming, Locks, Holding, Roles, HistoryTypeOK
  <2>4. \A q \in User : step[q] # "idle" => q = p
    BY DEF TossMessage, Locks, Roles
  <2>5. ASSUME ~gap PROVE CoreCovers' /\ IndexCovers'
    <3> DEFINE end == Len(text[tname]) + 1
    <3>1. DOMAIN text[tname] \subseteq core[p]
      BY <2>2, <2>3, <2>5 DEF CoreCovers
    <3>2. DOMAIN text'[tname] = DOMAIN text[tname] \cup {end}
      <4>1. text[tname] \in Seq(Id)  BY DEF HistoryTypeOK
      <4>2. text'[tname] = Append(text[tname], i)  BY <2>1, <2>2 DEF WriteLine, HistoryTypeOK
      <4>3. Len(Append(text[tname], i)) = end /\ Len(text[tname]) \in Nat  BY <4>1
      <4>4. DOMAIN text'[tname] = 1 .. end /\ DOMAIN text[tname] = 1 .. Len(text[tname])
        BY <4>1, <4>2, <4>3
      <4> QED  BY <4>3, <4>4
    <3>3. core'[p] = core[p] \cup {end} /\ stored'[p]
      BY <2>1, <2>2 DEF WriteLine, StoreOffset, HistoryTypeOK
    <3>4. DOMAIN text'[tname] \subseteq core'[p]  BY <3>1, <3>2, <3>3
    <3>5. tname' = tname /\ pname' = pname /\ index' = index
      BY DEF TossMessage
    <3>6. CoreCovers'
      BY <2>4, <3>4, <3>5 DEF CoreCovers, Opened, TossMessage, HistoryTypeOK
    <3> QED  BY <2>2, <3>3, <3>4, <3>5, <3>6 DEF IndexCovers
  <2> QED  BY <2>5 DEF TossMessage, IndexCovers
<1>5. NewFiles'
  BY DEF TossMessage, WriteLine, StoreOffset, HistoryTypeOK, NewFiles, Suffix, Roles,
         Locks, Handles, Holding, Opened
<1>6. Tested'
  BY DEF TossMessage, WriteLine, StoreOffset, HistoryTypeOK, Tested, Lines, Roles,
         Locks, Handles, Holding, Opened
<1> QED  BY <1>1, <1>2, <1>3, <1>4, <1>5, <1>6

\* A line more, which the index has not: a gap.
LEMMA StoreFailsIInv ==
  ASSUME Serial, HistoryInv, NEW p \in Proc, StoreFails(p) PROVE HistoryInv'
<1> USE ConstantsAssumption DEF Proc, User, Gen, Goto, files, open, HistoryInv
<1>1. HistoryTypeOK'
  <2>1. PICK i \in Id : text' = [text EXCEPT ![file[p]] = Append(@, i)]
    BY DEF StoreFails
  <2>2. file[p] \in Gen /\ Len(text[file[p]]) < MaxLen
    BY DEF StoreFails, HistoryTypeOK
  <2>3. Append(text[file[p]], i) \in Seq(Id)
    BY <2>2 DEF HistoryTypeOK
  <2>4. Len(Append(text[file[p]], i)) = Len(text[file[p]]) + 1
    BY <2>2 DEF HistoryTypeOK
  <2>5. text' \in [Gen -> Seq(Id)] /\ \A g \in Gen : Len(text'[g]) <= MaxLen
    BY SMTT(60), <2>1, <2>2, <2>3, <2>4 DEF HistoryTypeOK
  <2> QED  BY <2>5 DEF StoreFails, HistoryTypeOK
<1>2. (Roles /\ Locks)'
  BY DEF StoreFails, HistoryTypeOK, Roles, Locks, Holding
<1>3. Handles'
  BY DEF StoreFails, HistoryTypeOK, Roles, Locks, Handles, Holding, Opened
<1>4. (gap \/ Renaming \/ CoreCovers)' /\ IndexCovers'
  BY DEF StoreFails, HistoryTypeOK, Renaming, CoreCovers, IndexCovers, Roles, Locks,
         Handles, Holding, Opened
<1>5. NewFiles'
  BY DEF StoreFails, HistoryTypeOK, NewFiles, Suffix, Roles, Locks, Handles, Holding,
         Opened
<1>6. Tested'
  <2>1. \A q \in Tick : step[q] = "idle"  BY DEF StoreFails, Locks, Roles
  <2> QED  BY <2>1 DEF StoreFails, Tested, HistoryTypeOK
<1> QED  BY <1>1, <1>2, <1>3, <1>4, <1>5, <1>6

\* The history lock is free and the history still open.
LEMMA TossUnlockIInv ==
  ASSUME Serial, HistoryInv, NEW p \in Proc, TossUnlock(p) PROVE HistoryInv'
<1> USE ConstantsAssumption DEF Proc, User, Gen, Goto, files, open, HistoryInv
<1>1. HistoryTypeOK'
  BY DEF TossUnlock, HistoryLock!Release, HistoryTypeOK, Control, Line
<1>2. (Roles /\ Locks)'
  BY SMTT(60) DEF TossUnlock, HistoryLock!Release, HistoryTypeOK, Roles, Locks, Holding
<1>3. Handles'
  BY DEF TossUnlock, HistoryLock!Release, HistoryTypeOK, Roles, Locks, Handles,
         Holding, Opened
<1>4. (gap \/ Renaming \/ CoreCovers)' /\ IndexCovers'
  BY DEF TossUnlock, HistoryLock!Release, HistoryTypeOK, Renaming, CoreCovers,
         IndexCovers, Roles, Locks, Handles, Holding, Opened
<1>5. NewFiles'
  BY DEF TossUnlock, HistoryLock!Release, HistoryTypeOK, NewFiles, Suffix, Roles,
         Locks, Handles, Holding, Opened
<1>6. Tested'
  BY DEF TossUnlock, HistoryLock!Release, HistoryTypeOK, Tested, Lines, Roles, Locks,
         Handles, Holding, Opened
<1> QED  BY <1>1, <1>2, <1>3, <1>4, <1>5, <1>6

\* The index in core is written back: it covers the text, or has lost its
\* name to another one.
LEMMA TossCloseIInv ==
  ASSUME Serial, HistoryInv, NEW p \in Proc, TossClose(p) PROVE HistoryInv'
<1> USE ConstantsAssumption DEF Proc, User, Gen, Goto, files, open, HistoryInv
<1>1. HistoryTypeOK'
  <2>1. pag' \in [Gen -> SUBSET Line]
    <3>1. CASE stored[p]  BY <3>1 DEF TossClose, SyncIndex, HistoryTypeOK
    <3>2. CASE ~stored[p]  BY <3>2 DEF TossClose, SyncIndex, HistoryTypeOK
    <3> QED  BY <3>1, <3>2
  <2>2. stored' \in [Proc -> BOOLEAN] /\ blind' \in [Proc -> BOOLEAN]
    BY DEF TossClose, Closed, Done, HistoryTypeOK
  <2> QED
    BY <2>1, <2>2 DEF TossClose, Closed, Done, HistoryTypeOK, Control
<1>2. (Roles /\ Locks)'
  BY DEF TossClose, SyncIndex, Closed, Done, HistoryTypeOK, Roles, Locks, Holding
<1>3. Handles'
  BY DEF TossClose, SyncIndex, Closed, Done, HistoryTypeOK, Roles, Locks, Handles,
         Holding, Opened
<1>4. (gap \/ Renaming \/ CoreCovers)' /\ IndexCovers'
  <2>1. \A q \in User : step[q] # "idle" => q = p
    BY DEF TossClose, Locks, Roles, HistoryTypeOK
  <2>2. \A q \in Proc : stored[q] => q = p
    BY <2>1 DEF Handles, Opened
  <2>3. (gap \/ Renaming) => (gap \/ Renaming)'
    BY DEF TossClose, Done, Renaming, HistoryTypeOK
  <2>4. CASE ~gap /\ ~Renaming
    <3>1. IndexCovers => \A o \in DOMAIN text[tname] :
             o \in pag[pname] \/ (stored[p] /\ index[p] = pname /\ o \in core[p])
      BY <2>2, <2>4 DEF IndexCovers, Renaming
    <3>2. \A o \in DOMAIN text[tname] : o \in pag'[pname]
      <4>1. CASE stored[p] /\ index[p] = pname
        <5>1. DOMAIN text[tname] \subseteq core[p]
          BY <2>4, <4>1 DEF CoreCovers, TossClose, Opened, Handles
        <5>2. pag'[pname] = core[p]
          BY <4>1 DEF TossClose, SyncIndex, HistoryTypeOK
        <5> QED  BY <5>1, <5>2
      <4>2. CASE ~stored[p]
        BY <3>1, <4>2 DEF TossClose, SyncIndex
      <4>3. CASE stored[p] /\ index[p] # pname
        BY <3>1, <4>3 DEF TossClose, SyncIndex, HistoryTypeOK
      <4> QED  BY <4>1, <4>2, <4>3
    <3>3. CoreCovers'
      BY <2>1 DEF TossClose, Done, CoreCovers, Opened, HistoryTypeOK
    <3> QED  BY <3>2, <3>3 DEF TossClose, IndexCovers
  <2> QED  BY <2>3, <2>4 DEF IndexCovers, Renaming
<1>5. NewFiles'
  <2>1. \A e \in Expire : step'[e] = step[e] /\ file'[e] = file[e]
    BY DEF TossClose, Closed, Done, Roles, HistoryTypeOK
  <2>2. \A e \in Expire : step[e] \in {"rename", "rename_pag"} => index[p] # made
    BY DEF NewFiles, TossClose, Roles
  <2>3. \A e \in Expire :
           step[e] \in {"rename", "rename_pag"} => pag'[made] = pag[made]
    BY <2>2 DEF TossClose, SyncIndex, HistoryTypeOK
  <2>4. made' = made /\ text' = text /\ tname' = tname /\ pname' = pname
    BY DEF TossClose
  <2>5. \A q \in User : index'[q] \in {index[q], 0}
    BY DEF TossClose, Closed, HistoryTypeOK
  <2>6. \A e \in Expire : step[e] \in {"rename", "rename_pag"} =>
           \A q \in User : index'[q] # made
    BY <2>5 DEF NewFiles
  <2> QED  BY <2>1, <2>3, <2>4, <2>6 DEF NewFiles, Suffix
<1>6. Tested'
  BY DEF TossClose, SyncIndex, Closed, Done, HistoryTypeOK, Tested, Lines, Roles,
         Locks, Handles, Holding, Opened
<1> QED  BY <1>1, <1>2, <1>3, <1>4, <1>5, <1>6

\* ftntick has nothing to write back.
LEMMA TickDupeIInv ==
  ASSUME Serial, HistoryInv, NEW p \in Proc, TickDupe(p) PROVE HistoryInv'
<1> USE ConstantsAssumption DEF Proc, User, Gen, Goto, files, open, HistoryInv
<1>1. HistoryTypeOK'
  BY DEF TickDupe, HistoryLock!Release, Done, Closed, HistoryTypeOK, Control, Line
<1>2. (Roles /\ Locks)'
  BY DEF TickDupe, HistoryLock!Release, Done, Closed, HistoryTypeOK, Roles, Locks,
         Holding
<1>3. Handles'
  BY DEF TickDupe, HistoryLock!Release, Done, Closed, HistoryTypeOK, Roles, Locks,
         Handles, Holding, Opened
<1>4. (gap \/ Renaming \/ CoreCovers)' /\ IndexCovers'
  <2>1. \A q \in User : step[q] # "idle" => q = p
    BY DEF TickDupe, Locks, Roles
  <2>2. \A q \in Proc : ~stored[q]
    BY <2>1 DEF TickDupe, Handles, Opened
  <2>3. ~Renaming /\ ~Renaming'
    BY DEF TickDupe, Closed, Done, HistoryLock!Release, Renaming, Locks, Holding, Roles,
           HistoryTypeOK
  <2>4. CoreCovers'
    BY <2>1 DEF TickDupe, Closed, Done, CoreCovers, Opened, HistoryTypeOK
  <2>5. IndexCovers'
    BY <2>2, <2>3 DEF TickDupe, IndexCovers, Renaming
  <2> QED  BY <2>4, <2>5
<1>5. NewFiles'
  BY DEF TickDupe, HistoryLock!Release, Done, Closed, HistoryTypeOK, NewFiles,
         Suffix, Roles, Locks, Handles, Holding, Opened
<1>6. Tested'
  BY DEF TickDupe, HistoryLock!Release, Done, Closed, HistoryTypeOK, Tested, Lines,
         Roles, Locks, Handles, Holding, Opened
<1> QED  BY <1>1, <1>2, <1>3, <1>4, <1>5, <1>6

\* A key that the index does not have has no line, if there is no gap.
LEMMA TickNewIInv ==
  ASSUME Serial, HistoryInv, NEW p \in Proc, TickNew(p) PROVE HistoryInv'
<1> USE ConstantsAssumption DEF Proc, User, Gen, Goto, files, open, HistoryInv
<1>1. HistoryTypeOK'
  BY DEF TickNew, HistoryLock!Release, Closed, Found, HistoryTypeOK, Control, Line
<1>2. (Roles /\ Locks)'
  BY SMTT(60) DEF TickNew, HistoryLock!Release, Closed, Found, HistoryTypeOK, Roles, Locks,
         Holding
<1>3. Handles'
  BY DEF TickNew, HistoryLock!Release, Closed, Found, HistoryTypeOK, Roles, Locks,
         Handles, Holding, Opened
<1>4. (gap \/ Renaming \/ CoreCovers)' /\ IndexCovers'
  <2>1. \A q \in User : step[q] # "idle" => q = p
    BY DEF TickNew, Locks, Roles
  <2>2. \A q \in Proc : ~stored[q]
    BY <2>1 DEF TickNew, Handles, Opened
  <2>3. ~Renaming /\ ~Renaming'
    BY DEF TickNew, Closed, HistoryLock!Release, Renaming, Locks, Holding, Roles, HistoryTypeOK
  <2>4. CoreCovers'
    BY <2>1 DEF TickNew, Closed, CoreCovers, Opened, HistoryTypeOK
  <2>5. IndexCovers'
    BY <2>2, <2>3 DEF TickNew, IndexCovers, Renaming
  <2> QED  BY <2>4, <2>5
<1>5. NewFiles'
  BY DEF TickNew, HistoryLock!Release, Closed, Found, HistoryTypeOK, NewFiles,
         Suffix, Roles, Locks, Handles, Holding, Opened
<1>6. Tested'
  <2>1. Found(p, key[p]) \/ (~blind[p] => key[p] \notin Lines(tname))
    <3>1. SUFFICES ASSUME ~blind[p], ~Found(p, key[p])
                   PROVE  key[p] \notin Lines(tname)
      OBVIOUS
    <3>2. ~gap /\ ~Renaming
      BY <3>1 DEF TickNew, Tested, Renaming, Locks, Holding, Roles
    <3>3. DOMAIN text[tname] \subseteq core[p] /\ file[p] = tname
      BY <3>2 DEF TickNew, CoreCovers, Handles, Opened
    <3> QED  BY <3>1, <3>3 DEF Found, Lines
  <2>2. \A q \in Tick : step[q] # "idle" => q = p
    BY DEF TickNew, Locks, Roles
  <2>3. Lines(tname)' = Lines(tname)  BY DEF TickNew, Lines
  <2> QED
    BY <2>1, <2>2, <2>3 DEF TickNew, HistoryTypeOK, Tested
<1> QED  BY <1>1, <1>2, <1>3, <1>4, <1>5, <1>6

\* As TickNew, with nothing said about the key.
LEMMA TickReplacesIInv ==
  ASSUME Serial, HistoryInv, NEW p \in Proc, TickReplaces(p) PROVE HistoryInv'
<1> USE ConstantsAssumption DEF Proc, User, Gen, Goto, files, open, HistoryInv
<1>1. HistoryTypeOK'
  BY DEF TickReplaces, HistoryLock!Release, Closed, HistoryTypeOK, Control, Line
<1>2. (Roles /\ Locks)'
  BY DEF TickReplaces, HistoryLock!Release, Closed, HistoryTypeOK, Roles, Locks,
         Holding
<1>3. Handles'
  BY DEF TickReplaces, HistoryLock!Release, Closed, HistoryTypeOK, Roles, Locks,
         Handles, Holding, Opened
<1>4. (gap \/ Renaming \/ CoreCovers)' /\ IndexCovers'
  <2>1. \A q \in User : step[q] # "idle" => q = p
    BY DEF TickReplaces, Locks, Roles
  <2>2. \A q \in Proc : ~stored[q]
    BY <2>1 DEF TickReplaces, Handles, Opened
  <2>3. ~Renaming /\ ~Renaming'
    BY DEF TickReplaces, Closed, HistoryLock!Release, Renaming, Locks, Holding, Roles,
           HistoryTypeOK
  <2>4. CoreCovers'
    BY <2>1 DEF TickReplaces, Closed, CoreCovers, Opened, HistoryTypeOK
  <2>5. IndexCovers'
    BY <2>2, <2>3 DEF TickReplaces, IndexCovers, Renaming
  <2> QED  BY <2>4, <2>5
<1>5. NewFiles'
  BY DEF TickReplaces, HistoryLock!Release, Closed, HistoryTypeOK, NewFiles, Suffix,
         Roles, Locks, Handles, Holding, Opened
<1>6. Tested'
  BY DEF TickReplaces, HistoryLock!Release, Closed, HistoryTypeOK, Tested, Lines,
         Roles, Locks, Handles, Holding, Opened
<1> QED  BY <1>1, <1>2, <1>3, <1>4, <1>5, <1>6

\* As TossMessage.
LEMMA TickWriteIInv ==
  ASSUME Serial, HistoryInv, NEW p \in Proc, TickWrite(p) PROVE HistoryInv'
<1> USE ConstantsAssumption DEF Proc, User, Gen, Goto, files, open, HistoryInv
<1>1. HistoryTypeOK'
  <2>1. PICK i \in Id : WriteLine(p, i)
    BY DEF TickWrite, HistoryTypeOK, Handles, Roles
  <2>2. file[p] \in Gen /\ Len(text[file[p]]) < MaxLen
    BY <2>1 DEF WriteLine, HistoryTypeOK
  <2>3. Append(text[file[p]], i) \in Seq(Id)
    BY <2>2 DEF HistoryTypeOK
  <2>4. Len(Append(text[file[p]], i)) = Len(text[file[p]]) + 1
    BY <2>2 DEF HistoryTypeOK
  <2>5. text' \in [Gen -> Seq(Id)] /\ \A g \in Gen : Len(text'[g]) <= MaxLen
    BY SMTT(60), <2>1, <2>2, <2>3, <2>4 DEF WriteLine, HistoryTypeOK
  <2>6. Len(text[file[p]]) + 1 \in Line
    BY <2>2, Len(text[file[p]]) \in Nat DEF Line, HistoryTypeOK
  <2>7. core' \in [Proc -> SUBSET Line] /\ stored' \in [Proc -> BOOLEAN]
    BY <2>1, <2>6 DEF WriteLine, StoreOffset, HistoryTypeOK
  <2> QED  BY <2>5, <2>7 DEF TickWrite, HistoryTypeOK, Control
<1>2. (Roles /\ Locks)'
  BY DEF TickWrite, WriteLine, StoreOffset, HistoryTypeOK, Roles, Locks, Holding
<1>3. Handles'
  BY DEF TickWrite, WriteLine, StoreOffset, HistoryTypeOK, Roles, Locks, Handles,
         Holding, Opened
<1>4. (gap \/ Renaming \/ CoreCovers)' /\ IndexCovers'
  <2>1. PICK i \in Id : WriteLine(p, i)
    BY DEF TickWrite, Handles, Roles
  <2>2. file[p] = tname /\ index[p] = pname /\ p \in User /\ step[p] \in Opened
    BY DEF TickWrite, Handles, Opened, Roles
  <2>3. ~Renaming /\ ~Renaming'
    BY DEF TickWrite, Renaming, Locks, Holding, Roles, HistoryTypeOK
  <2>4. \A q \in User : step[q] # "idle" => q = p
    BY DEF TickWrite, Locks, Roles
  <2>5. ASSUME ~gap PROVE CoreCovers' /\ IndexCovers'
    <3> DEFINE end == Len(text[tname]) + 1
    <3>1. DOMAIN text[tname] \subseteq core[p]
      BY <2>2, <2>3, <2>5 DEF CoreCovers
    <3>2. DOMAIN text'[tname] = DOMAIN text[tname] \cup {end}
      <4>1. text[tname] \in Seq(Id)  BY DEF HistoryTypeOK
      <4>2. text'[tname] = Append(text[tname], i)  BY <2>1, <2>2 DEF WriteLine, HistoryTypeOK
      <4>3. Len(Append(text[tname], i)) = end /\ Len(text[tname]) \in Nat  BY <4>1
      <4>4. DOMAIN text'[tname] = 1 .. end /\ DOMAIN text[tname] = 1 .. Len(text[tname])
        BY <4>1, <4>2, <4>3
      <4> QED  BY <4>3, <4>4
    <3>3. core'[p] = core[p] \cup {end} /\ stored'[p]
      BY <2>1, <2>2 DEF WriteLine, StoreOffset, HistoryTypeOK
    <3>4. DOMAIN text'[tname] \subseteq core'[p]  BY <3>1, <3>2, <3>3
    <3>5. tname' = tname /\ pname' = pname /\ index' = index
      BY DEF TickWrite
    <3>6. CoreCovers'
      BY <2>4, <3>4, <3>5 DEF CoreCovers, Opened, TickWrite, HistoryTypeOK
    <3> QED  BY <2>2, <3>3, <3>4, <3>5, <3>6 DEF IndexCovers
  <2> QED  BY <2>5 DEF TickWrite, IndexCovers
<1>5. NewFiles'
  BY DEF TickWrite, WriteLine, StoreOffset, HistoryTypeOK, NewFiles, Suffix, Roles,
         Locks, Handles, Holding, Opened
<1>6. Tested'
  BY DEF TickWrite, WriteLine, StoreOffset, HistoryTypeOK, Tested, Lines, Roles,
         Locks, Handles, Holding, Opened
<1> QED  BY <1>1, <1>2, <1>3, <1>4, <1>5, <1>6

\* As TossClose, under the history lock.
LEMMA TickCloseIInv ==
  ASSUME Serial, HistoryInv, NEW p \in Proc, TickClose(p) PROVE HistoryInv'
<1> USE ConstantsAssumption DEF Proc, User, Gen, Goto, files, open, HistoryInv
<1>1. HistoryTypeOK'
  <2>1. pag' \in [Gen -> SUBSET Line]
    <3>1. CASE stored[p]  BY <3>1 DEF TickClose, SyncIndex, HistoryTypeOK
    <3>2. CASE ~stored[p]  BY <3>2 DEF TickClose, SyncIndex, HistoryTypeOK
    <3> QED  BY <3>1, <3>2
  <2>2. stored' \in [Proc -> BOOLEAN] /\ blind' \in [Proc -> BOOLEAN]
    BY DEF TickClose, Closed, Done, HistoryTypeOK
  <2> QED
    BY <2>1, <2>2 DEF TickClose, Closed, Done, HistoryLock!Release, HistoryTypeOK, Control
<1>2. (Roles /\ Locks)'
  BY DEF TickClose, SyncIndex, Closed, HistoryLock!Release, Done, HistoryTypeOK,
         Roles, Locks, Holding
<1>3. Handles'
  BY DEF TickClose, SyncIndex, Closed, HistoryLock!Release, Done, HistoryTypeOK,
         Roles, Locks, Handles, Holding, Opened
<1>4. (gap \/ Renaming \/ CoreCovers)' /\ IndexCovers'
  <2>1. \A q \in User : step[q] # "idle" => q = p
    BY DEF TickClose, Locks, Roles, HistoryTypeOK
  <2>2. \A q \in Proc : stored[q] => q = p
    BY <2>1 DEF Handles, Opened
  <2>3. (gap \/ Renaming) => (gap \/ Renaming)'
    BY DEF TickClose, Done, Renaming, HistoryTypeOK
  <2>4. CASE ~gap /\ ~Renaming
    <3>1. IndexCovers => \A o \in DOMAIN text[tname] :
             o \in pag[pname] \/ (stored[p] /\ index[p] = pname /\ o \in core[p])
      BY <2>2, <2>4 DEF IndexCovers, Renaming
    <3>2. \A o \in DOMAIN text[tname] : o \in pag'[pname]
      <4>1. CASE stored[p] /\ index[p] = pname
        <5>1. DOMAIN text[tname] \subseteq core[p]
          BY <2>4, <4>1 DEF CoreCovers, TickClose, Opened, Handles
        <5>2. pag'[pname] = core[p]
          BY <4>1 DEF TickClose, SyncIndex, HistoryTypeOK
        <5> QED  BY <5>1, <5>2
      <4>2. CASE ~stored[p]
        BY <3>1, <4>2 DEF TickClose, SyncIndex
      <4>3. CASE stored[p] /\ index[p] # pname
        BY <3>1, <4>3 DEF TickClose, SyncIndex, HistoryTypeOK
      <4> QED  BY <4>1, <4>2, <4>3
    <3>3. CoreCovers'
      BY <2>1 DEF TickClose, Done, CoreCovers, Opened, HistoryTypeOK
    <3> QED  BY <3>2, <3>3 DEF TickClose, IndexCovers
  <2> QED  BY <2>3, <2>4 DEF IndexCovers, Renaming
<1>5. NewFiles'
  <2>1. \A e \in Expire : step[e] \notin {"rename", "rename_pag"}
    BY DEF TickClose, HistoryLock!Release, Locks, Holding
  <2> QED
    BY <2>1 DEF TickClose, Done, HistoryTypeOK, NewFiles
<1>6. Tested'
  BY DEF TickClose, SyncIndex, Closed, HistoryLock!Release, Done, HistoryTypeOK,
         Tested, Lines, Roles, Locks, Handles, Holding, Opened
<1> QED  BY <1>1, <1>2, <1>3, <1>4, <1>5, <1>6

\* A new generation that nobody has open, with the end of the text.
LEMMA CopyIInv ==
  ASSUME Serial, HistoryInv, NEW p \in Proc, CopyLines(p) PROVE HistoryInv'
<1> USE ConstantsAssumption DEF Proc, User, Gen, Goto, files, open, HistoryInv
<1>1. HistoryTypeOK'
  <2>1. PICK n \in 0 .. Len(text[tname]) :
          LET kept == SubSeq(text[tname], n + 1, Len(text[tname])) IN
          /\ text' = [text EXCEPT ![made + 1] = kept]
          /\ pag' = [pag EXCEPT ![made + 1] = DOMAIN kept]
    BY DEF CopyLines
  <2> DEFINE kept == SubSeq(text[tname], n + 1, Len(text[tname]))

  <2>2. text[tname] \in Seq(Id) /\ Len(text[tname]) <= MaxLen /\ Len(text[tname]) \in Nat
    BY DEF HistoryTypeOK
  <2>3. /\ kept \in Seq(Id) /\ Len(kept) <= Len(text[tname])
        /\ DOMAIN kept = 1 .. Len(kept)
    BY <2>2, KeptLines
  <2>4. Len(kept) \in Nat /\ Len(kept) <= MaxLen  BY <2>2, <2>3
  <2>5. DOMAIN kept \subseteq Line  BY <2>3, <2>4 DEF Line
  <2>6. made + 1 \in Gen  BY DEF CopyLines, HistoryTypeOK
  <2>7. /\ text' \in [Gen -> Seq(Id)] /\ \A g \in Gen : Len(text'[g]) <= MaxLen
        /\ pag' \in [Gen -> SUBSET Line]
    BY <2>1, <2>3, <2>4, <2>5 DEF HistoryTypeOK
  <2> QED  BY <2>6, <2>7 DEF CopyLines, HistoryTypeOK, Control
<1>2. (Roles /\ Locks)'
  BY DEF CopyLines, HistoryTypeOK, Roles, Locks, Holding
<1>3. Handles'
  <2>1. made + 1 \in Gen /\ made' = made + 1 /\ made \in Nat
    BY DEF CopyLines, HistoryTypeOK
  <2>2. tname <= made' /\ pname <= made' /\ \A q \in Proc : index[q] <= made'
    BY <2>1 DEF Handles, HistoryTypeOK
  <2>3. p \in Expire /\ p \notin User  BY DEF CopyLines, Roles
  <2> QED  BY <2>2, <2>3 DEF CopyLines, HistoryTypeOK, Handles, Opened
<1>4. (gap \/ Renaming \/ CoreCovers)' /\ IndexCovers'
  <2>1. tname # made + 1 /\ pname # made + 1
    BY DEF Handles, HistoryTypeOK
  <2>2. text'[tname] = text[tname] /\ pag'[pname] = pag[pname]
    BY <2>1 DEF CopyLines, HistoryTypeOK
  <2>3. ~Renaming
    BY DEF CopyLines, Renaming, Locks, Holding, HistoryTypeOK
  <2>4. p \notin User  BY DEF CopyLines, Roles
  <2>5. gap \/ CoreCovers'
    BY <2>2, <2>3, <2>4 DEF CopyLines, CoreCovers, Opened, HistoryTypeOK
  <2>6. gap \/ \A o \in DOMAIN text'[tname] :
               \/ o \in pag'[pname]
               \/ \E q \in Proc : stored[q] /\ index[q] = pname /\ o \in core[q]
    BY <2>2, <2>3 DEF IndexCovers, Renaming
  <2> QED  BY <2>5, <2>6 DEF CopyLines, IndexCovers
<1>5. NewFiles'
  <2>1. PICK n \in 0 .. Len(text[tname]) :
          LET kept == SubSeq(text[tname], n + 1, Len(text[tname])) IN
          /\ text' = [text EXCEPT ![made + 1] = kept]
          /\ pag' = [pag EXCEPT ![made + 1] = DOMAIN kept]
    BY DEF CopyLines
  <2> DEFINE kept == SubSeq(text[tname], n + 1, Len(text[tname]))

  <2>2. made + 1 \in Gen /\ made' = made + 1 /\ made \in Nat /\ made' > 0
    BY DEF CopyLines, HistoryTypeOK
  <2>3. tname # made' /\ pname # made' /\ \A q \in Proc : index[q] # made'
    BY <2>2 DEF Handles, HistoryTypeOK
  <2>4. text'[made'] = kept /\ pag'[made'] = DOMAIN kept /\ text'[tname] = text[tname]
    BY <2>1, <2>2, <2>3 DEF HistoryTypeOK
  <2>5. \A e \in Expire : step[e] \in {"rename", "rename_pag"} => FALSE
    BY DEF CopyLines, Locks, Holding
  <2>6. p \in Expire /\ file'[p] = made' /\ step' = [step EXCEPT ![p] = "rename"]
    BY <2>2 DEF CopyLines, Roles, HistoryTypeOK
  <2>7. Suffix(text'[made'], text'[tname])  BY <2>4 DEF Suffix
  <2>8. UNCHANGED <<tname, pname, index>>  BY DEF CopyLines
  <2> QED
    BY <2>2, <2>3, <2>4, <2>5, <2>6, <2>7, <2>8 DEF NewFiles, HistoryTypeOK
<1>6. Tested'
  BY DEF CopyLines, HistoryTypeOK, Tested, Lines, Roles, Locks, Handles, Holding, Opened
<1> QED  BY <1>1, <1>2, <1>3, <1>4, <1>5, <1>6

\* The lines that have the name become fewer.
LEMMA RenameTextIInv ==
  ASSUME Serial, HistoryInv, NEW p \in Proc, RenameText(p) PROVE HistoryInv'
<1> USE ConstantsAssumption DEF Proc, User, Gen, Goto, files, open, HistoryInv
<1>1. HistoryTypeOK'
  BY DEF RenameText, HistoryTypeOK, Control, Line
<1>2. (Roles /\ Locks)'
  BY DEF RenameText, HistoryTypeOK, Roles, Locks, Holding
<1>3. Handles'
  <2>1. p \in Expire /\ file[p] = made  BY DEF RenameText, NewFiles, Roles
  <2>2. made <= made  BY DEF HistoryTypeOK
  <2>3. \A q \in User : step[q] \notin Holding
    BY <2>1 DEF RenameText, Locks, Holding
  <2> QED  BY <2>1, <2>2, <2>3 DEF RenameText, Handles, Holding, Opened, HistoryTypeOK
<1>4. (gap \/ Renaming \/ CoreCovers)' /\ IndexCovers'
  BY DEF RenameText, HistoryTypeOK, Renaming, CoreCovers, IndexCovers, Roles, Locks,
         Handles, Holding, Opened
<1>5. NewFiles'
  BY DEF RenameText, HistoryTypeOK, NewFiles, Suffix, Roles, Locks, Handles, Holding,
         Opened
<1>6. Tested'
  <2>1. p \in Expire /\ file[p] = made /\ Suffix(text[made], text[tname])
    BY DEF RenameText, NewFiles, Roles
  <2>2. Lines(made) \subseteq Lines(tname)
    <3>1. PICK n \in 0 .. Len(text[tname]) :
            text[made] = SubSeq(text[tname], n + 1, Len(text[tname]))
      BY <2>1 DEF Suffix
    <3>2. \A o \in DOMAIN text[made] :
            n + o \in DOMAIN text[tname] /\ text[made][o] = text[tname][n + o]
      <4> DEFINE t == text[tname]
      <4>1. t \in Seq(Id) /\ n \in 0 .. Len(t)
        BY <3>1 DEF HistoryTypeOK
      <4> HIDE DEF t
      <4>2. LET k == SubSeq(t, n + 1, Len(t)) IN
            \A o \in DOMAIN k : n + o \in DOMAIN t /\ k[o] = t[n + o]
        BY <4>1, KeptLines
      <4> QED  BY <3>1, <4>2 DEF t
    <3> QED  BY <3>2 DEF Lines
  <2>3. Lines(tname)' = Lines(made)  BY <2>1 DEF RenameText, Lines
  <2> QED  BY <2>1, <2>2, <2>3 DEF RenameText, Tested, Roles, HistoryTypeOK
<1> QED  BY <1>1, <1>2, <1>3, <1>4, <1>5, <1>6

\* Text and index belong together again; who has the old index open will write
\* to a file without a name.
LEMMA RenameIndexIInv ==
  ASSUME Serial, HistoryInv, NEW p \in Proc, RenameIndex(p) PROVE HistoryInv'
<1> USE ConstantsAssumption DEF Proc, User, Gen, Goto, files, open, HistoryInv
<1>1. HistoryTypeOK'
  BY DEF RenameIndex, HistoryTypeOK, Control, Line
<1>2. (Roles /\ Locks)'
  BY DEF RenameIndex, HistoryTypeOK, Roles, Locks, Holding
<1>3. Handles'
  <2>1. p \in Expire /\ file[p] = made  BY DEF RenameIndex, NewFiles, Roles
  <2>2. made <= made  BY DEF HistoryTypeOK
  <2>3. \A q \in User : step[q] \notin Holding
    BY <2>1 DEF RenameIndex, Locks, Holding
  <2> QED  BY <2>1, <2>2, <2>3 DEF RenameIndex, Handles, Holding, Opened, HistoryTypeOK
<1>4. (gap \/ Renaming \/ CoreCovers)' /\ IndexCovers'
  <2>1. /\ p \in Expire /\ file[p] = made /\ tname = made
        /\ pag[made] = DOMAIN text[made] /\ \A q \in User : index[q] # made
    BY DEF RenameIndex, NewFiles, Roles
  <2>2. CoreCovers'  BY <2>1 DEF RenameIndex, CoreCovers
  <2>3. IndexCovers'  BY <2>1 DEF RenameIndex, IndexCovers
  <2> QED  BY <2>2, <2>3
<1>5. NewFiles'
  BY DEF RenameIndex, HistoryTypeOK, NewFiles, Suffix, Roles, Locks, Handles,
         Holding, Opened
<1>6. Tested'
  BY DEF RenameIndex, HistoryTypeOK, Tested, Lines, Roles, Locks, Handles, Holding,
         Opened
<1> QED  BY <1>1, <1>2, <1>3, <1>4, <1>5, <1>6

\* A new text with an old index: a gap.
LEMMA RenameFailsIInv ==
  ASSUME Serial, HistoryInv, NEW p \in Proc, RenameFails(p) PROVE HistoryInv'
<1> USE ConstantsAssumption DEF Proc, User, Gen, Goto, files, open, HistoryInv
<1>1. HistoryTypeOK'
  BY DEF RenameFails, HistoryTypeOK, Control, Line
<1>2. (Roles /\ Locks)'
  BY DEF RenameFails, HistoryTypeOK, Roles, Locks, Holding
<1>3. Handles'
  BY DEF RenameFails, HistoryTypeOK, Roles, Locks, Handles, Holding, Opened
<1>4. (gap \/ Renaming \/ CoreCovers)' /\ IndexCovers'
  BY DEF RenameFails, HistoryTypeOK, Renaming, CoreCovers, IndexCovers, Roles, Locks,
         Handles, Holding, Opened
<1>5. NewFiles'
  BY DEF RenameFails, HistoryTypeOK, NewFiles, Suffix, Roles, Locks, Handles,
         Holding, Opened
<1>6. Tested'
  BY DEF RenameFails, HistoryTypeOK, Tested, Lines, Roles, Locks, Handles, Holding,
         Opened
<1> QED  BY <1>1, <1>2, <1>3, <1>4, <1>5, <1>6

\* ftnexpire leaves.
LEMMA ExpireUnlockIInv ==
  ASSUME Serial, HistoryInv, NEW p \in Proc, ExpireUnlock(p) PROVE HistoryInv'
<1> USE ConstantsAssumption DEF Proc, User, Gen, Goto, files, open, HistoryInv
<1>1. HistoryTypeOK'
  BY DEF ExpireUnlock, HistoryLock!Release, Closed, Done, HistoryTypeOK, Control,
         Line
<1>2. (Roles /\ Locks)'
  BY DEF ExpireUnlock, HistoryLock!Release, Closed, Done, HistoryTypeOK, Roles,
         Locks, Holding
<1>3. Handles'
  BY DEF ExpireUnlock, HistoryLock!Release, Closed, Done, HistoryTypeOK, Roles,
         Locks, Handles, Holding, Opened
<1>4. (gap \/ Renaming \/ CoreCovers)' /\ IndexCovers'
  BY DEF ExpireUnlock, HistoryLock!Release, Closed, Done, HistoryTypeOK, Renaming,
         CoreCovers, IndexCovers, Roles, Locks, Handles, Holding, Opened
<1>5. NewFiles'
  BY DEF ExpireUnlock, HistoryLock!Release, Closed, Done, HistoryTypeOK, NewFiles,
         Suffix, Roles, Locks, Handles, Holding, Opened
<1>6. Tested'
  BY DEF ExpireUnlock, HistoryLock!Release, Closed, Done, HistoryTypeOK, Tested,
         Lines, Roles, Locks, Handles, Holding, Opened
<1> QED  BY <1>1, <1>2, <1>3, <1>4, <1>5, <1>6

\* What is not written back is a gap, if it belongs to the index that has the
\* name.
LEMMA KillIInv ==
  ASSUME Serial, HistoryInv, NEW p \in Proc, KillProgram(p) PROVE HistoryInv'
<1> USE ConstantsAssumption DEF Proc, User, Gen, Goto, files, open, HistoryInv
<1>1. HistoryTypeOK'
  BY DEF KillProgram, LeavesGap, Closed, Done, HistoryTypeOK, Control, Line
<1>2. (Roles /\ Locks)'
  BY DEF KillProgram, LeavesGap, Closed, Done, HistoryTypeOK, Roles, Locks, Holding
<1>3. Handles'
  BY DEF KillProgram, LeavesGap, Closed, Done, HistoryTypeOK, Roles, Locks, Handles,
         Holding, Opened
<1>4. (gap \/ Renaming \/ CoreCovers)' /\ IndexCovers'
  BY ZenonT(60) DEF KillProgram, LeavesGap, Closed, Done, HistoryTypeOK, Renaming, CoreCovers,
         IndexCovers, Roles, Locks, Handles, Holding, Opened
<1>5. NewFiles'
  BY SMTT(60) DEF KillProgram, LeavesGap, Closed, Done, HistoryTypeOK, NewFiles, Suffix, Roles,
         Locks, Handles, Holding, Opened
<1>6. Tested'
  BY SMTT(60) DEF KillProgram, LeavesGap, Closed, Done, HistoryTypeOK, Tested, Lines, Roles, Locks,
         Handles, Holding, Opened
<1> QED  BY <1>1, <1>2, <1>3, <1>4, <1>5, <1>6

\* So is an index half written.
LEMMA KillInSyncIInv ==
  ASSUME Serial, HistoryInv, NEW p \in Proc, KillInSync(p) PROVE HistoryInv'
<1> USE ConstantsAssumption DEF Proc, User, Gen, Goto, files, open, HistoryInv
<1>1. HistoryTypeOK'
  <2>1. index[p] \in Gen /\ pag[index[p]] \cup core[p] \subseteq Line
    BY DEF HistoryTypeOK
  <2>2. pag' \in [Gen -> SUBSET Line]
    BY <2>1 DEF KillInSync, HistoryTypeOK
  <2>3. gap' \in BOOLEAN /\ blind' \in [Proc -> BOOLEAN] /\ stored' \in [Proc -> BOOLEAN]
    BY DEF KillInSync, Closed, Done, HistoryTypeOK
  <2> QED  BY SMTT(60), <2>2, <2>3 DEF KillInSync, Closed, Done, HistoryTypeOK, Control
<1>2. (Roles /\ Locks)'
  BY DEF KillInSync, Closed, Done, HistoryTypeOK, Roles, Locks, Holding
<1>3. Handles'
  BY DEF KillInSync, Closed, Done, HistoryTypeOK, Roles, Locks, Handles, Holding,
         Opened
<1>4. (gap \/ Renaming \/ CoreCovers)' /\ IndexCovers'
  BY SMTT(60) DEF KillInSync, Closed, Done, HistoryTypeOK, Renaming, CoreCovers, IndexCovers,
         Roles, Locks, Handles, Holding, Opened
<1>5. NewFiles'
  <2>1. p \in User  BY DEF KillInSync, Roles
  <2>2. \A e \in Expire : step[e] \in {"rename", "rename_pag"} => index[p] # made
    BY <2>1 DEF NewFiles
  <2>3. \A e \in Expire : step[e] \in {"rename", "rename_pag"} => pag'[made] = pag[made]
    BY <2>2 DEF KillInSync, HistoryTypeOK
  <2> QED
    BY <2>1, <2>3 DEF KillInSync, Closed, Done, HistoryTypeOK, NewFiles, Suffix
<1>6. Tested'
  BY DEF KillInSync, Closed, Done, HistoryTypeOK, Tested, Lines, Roles, Locks,
         Handles, Holding, Opened
<1> QED  BY <1>1, <1>2, <1>3, <1>4, <1>5, <1>6

\* Nothing is locked, open or written at the start.
LEMMA InitHistory == ASSUME Serial, HistoryInit PROVE HistoryInv
<1> USE ConstantsAssumption DEF Proc, User, Gen
<1>1. HistoryTypeOK
  <2>1. users \in {Toss, Tick}  BY DEF HistoryInit
  <2>2. /\ text \in [Gen -> Seq(Id)]
        /\ \A g \in Gen : Len(text[g]) <= MaxLen
    BY DEF HistoryInit
  <2>3. pag \in [Gen -> SUBSET Line]  BY DEF HistoryInit
  <2>4. /\ file \in [Proc -> Gen] /\ index \in [Proc -> Gen]
        /\ tname \in Gen /\ pname \in Gen /\ made \in Gen
    BY DEF HistoryInit
  <2>5. step \in [Proc -> Control]  BY DEF HistoryInit, Control
  <2>6. /\ core \in [Proc -> SUBSET Line] /\ stored \in [Proc -> BOOLEAN]
        /\ key \in [Proc -> Id \cup {NoOne}]
        /\ gap \in BOOLEAN /\ blind \in [Proc -> BOOLEAN]
    BY DEF HistoryInit
  <2>7. lock \in Proc \cup {NoOne} /\ prog \in Proc \cup {NoOne}  BY DEF HistoryInit
  <2> QED  BY <2>1, <2>2, <2>3, <2>4, <2>5, <2>6, <2>7 DEF HistoryTypeOK
<1>2. Roles /\ Locks /\ Handles /\ NewFiles /\ Tested
  BY DEF HistoryInit, Roles, Locks, Holding, Handles, Opened, NewFiles, Tested
<1>3. CoreCovers /\ IndexCovers
  BY DEF HistoryInit, CoreCovers, IndexCovers, Opened
<1> QED  BY <1>1, <1>2, <1>3 DEF HistoryInv

\* A step that changes nothing.
LEMMA StutterIInv == ASSUME HistoryInv, UNCHANGED historyvars PROVE HistoryInv'
<1> USE DEF historyvars, files, open, HistoryInv
<1>1. HistoryTypeOK'  BY DEF HistoryTypeOK
<1>2. (Roles /\ Locks /\ Handles)'  BY DEF Roles, Locks, Handles
<1>3. (gap \/ Renaming \/ CoreCovers)' /\ IndexCovers'
  BY DEF Renaming, CoreCovers, IndexCovers
<1>4. NewFiles' /\ Tested'  BY DEF NewFiles, Suffix, Tested, Lines
<1> QED  BY <1>1, <1>2, <1>3, <1>4

\* Every step of every program preserves the inductive invariant.
LEMMA NextHistory == ASSUME Serial, HistoryInv, [HistoryNext]_historyvars PROVE HistoryInv'
<1>1. CASE UNCHANGED historyvars  BY <1>1, StutterIInv
<1>2. ASSUME NEW p \in Proc,
             \/ Begin(p) \/ BeginExpire(p)
             \/ TakeLock(p) \/ RetakeLock(p) \/ ExpireLock(p) \/ Busy(p)
             \/ TossMessage(p) \/ StoreFails(p) \/ TossUnlock(p) \/ TossClose(p)
      PROVE  HistoryInv'
  BY <1>2, BeginIInv, BeginExpireIInv, TakeLockIInv, RetakeLockIInv,
     ExpireLockIInv, BusyIInv, TossMessageIInv, StoreFailsIInv, TossUnlockIInv,
     TossCloseIInv
<1>3. ASSUME NEW p \in Proc,
             \/ TickDupe(p) \/ TickNew(p) \/ TickReplaces(p)
             \/ TickWrite(p) \/ TickClose(p)
             \/ CopyLines(p) \/ RenameText(p) \/ RenameIndex(p) \/ RenameFails(p)
             \/ ExpireUnlock(p) \/ KillProgram(p) \/ KillInSync(p)
      PROVE  HistoryInv'
  BY <1>3, TickDupeIInv, TickNewIInv, TickReplacesIInv, TickWriteIInv,
     TickCloseIInv, CopyIInv, RenameTextIInv, RenameIndexIInv, RenameFailsIInv,
     ExpireUnlockIInv, KillIInv, KillInSyncIInv
<1> QED  BY <1>1, <1>2, <1>3 DEF HistoryNext

\* The key of a line that is written has no line yet: it was tested with an
\* index that covers the text, and nobody else has written since.
LEMMA WriteNew ==
  ASSUME Serial, HistoryInv, NEW p \in User, TossMessage(p) \/ TickWrite(p),
         ~gap, ~blind[p]
  PROVE  text'[tname][Len(text'[tname])] \notin Lines(tname)
<1> USE ConstantsAssumption DEF Proc, User, Gen, HistoryInv
<1>1. file[p] = tname /\ text[tname] \in Seq(Id)
  BY DEF TossMessage, TickWrite, Handles, HistoryTypeOK
<1>2. \A i \in Id : WriteLine(p, i) => text'[tname] = Append(text[tname], i)
  BY <1>1 DEF WriteLine, HistoryTypeOK
<1>3. \A i \in Id : WriteLine(p, i) => text'[tname][Len(text'[tname])] = i
  BY <1>1, <1>2
<1>4. CASE TossMessage(p)
  <2>1. PICK i \in Id : ~Found(p, i) /\ WriteLine(p, i)  BY <1>4 DEF TossMessage
  <2>2. ~Renaming
    BY <1>4 DEF TossMessage, Renaming, Locks, Holding, Roles
  <2>3. DOMAIN text[tname] \subseteq core[p]
    BY <1>4, <2>2 DEF CoreCovers, TossMessage, Handles, Opened
  <2>4. i \notin Lines(tname)  BY <1>1, <2>1, <2>3 DEF Found, Lines
  <2> QED  BY <1>3, <2>1, <2>4
<1>5. CASE TickWrite(p)
  <2>1. p \in Tick /\ key[p] \in Id  BY <1>5 DEF TickWrite, Handles, Roles
  <2>2. WriteLine(p, key[p]) /\ key[p] \notin Lines(tname)
    BY <1>5, <2>1 DEF TickWrite, Tested
  <2> QED  BY <1>3, <2>1, <2>2
<1> QED  BY <1>4, <1>5

\* The index in core changes, and is to be written back, only where a line is
\* written.
LEMMA OnlyWrites ==
  ASSUME HistoryInv, HistoryNext, NEW p \in Proc, stored'[p], core'[p] # core[p]
  PROVE  p \in User /\ (TossMessage(p) \/ TickWrite(p))
<1> USE ConstantsAssumption DEF Proc, User, Goto, files, open, HistoryInv
<1>1. PICK q \in Proc :
        \/ Begin(q) \/ BeginExpire(q)
        \/ TakeLock(q) \/ RetakeLock(q) \/ ExpireLock(q) \/ Busy(q)
        \/ TossMessage(q) \/ StoreFails(q) \/ TossUnlock(q) \/ TossClose(q)
        \/ TickDupe(q) \/ TickNew(q) \/ TickReplaces(q)
        \/ TickWrite(q) \/ TickClose(q)
        \/ CopyLines(q) \/ RenameText(q) \/ RenameIndex(q) \/ RenameFails(q)
        \/ ExpireUnlock(q) \/ KillProgram(q) \/ KillInSync(q)
  BY DEF HistoryNext
<1>2. ~(\/ Begin(q) \/ BeginExpire(q) \/ ExpireLock(q) \/ Busy(q)
        \/ StoreFails(q) \/ TossUnlock(q) \/ CopyLines(q) \/ RenameText(q)
        \/ RenameIndex(q) \/ RenameFails(q))
  BY DEF Begin, BeginExpire, ExpireLock, Busy, StoreFails, TossUnlock, CopyLines,
         RenameText, RenameIndex, RenameFails
<1>3. ~(TakeLock(q) \/ RetakeLock(q))
  BY DEF TakeLock, RetakeLock, OpenHistory, LoadIndex, Handles, Opened, HistoryTypeOK
<1>4. ~(\/ TossClose(q) \/ TickDupe(q) \/ TickNew(q) \/ TickReplaces(q)
        \/ TickClose(q) \/ ExpireUnlock(q) \/ KillProgram(q) \/ KillInSync(q))
  BY DEF TossClose, TickDupe, TickNew, TickReplaces, TickClose, ExpireUnlock,
         KillProgram, KillInSync, Closed, HistoryTypeOK
<1>5. TossMessage(q) \/ TickWrite(q)  BY <1>1, <1>2, <1>3, <1>4
<1>6. q = p
  BY <1>5 DEF TossMessage, TickWrite, WriteLine, StoreOffset, HistoryTypeOK
<1>7. p \in User  BY <1>5, <1>6 DEF TossMessage, TickWrite, Roles
<1> QED  BY <1>5, <1>6, <1>7

\* A text takes the name by the rename() of ftnexpire only.
LEMMA OnlyRenames ==
  ASSUME HistoryInv, HistoryNext, tname' # tname
  PROVE  \E p \in Proc : RenameText(p)
BY DEF HistoryNext, Begin, BeginExpire, TakeLock, RetakeLock, ExpireLock, Busy,
       TossMessage, StoreFails, TossUnlock, TossClose, TickDupe, TickNew,
       TickReplaces, TickWrite, TickClose, CopyLines, RenameIndex, RenameFails,
       ExpireUnlock, KillProgram, KillInSync, WriteLine, SyncIndex, files

-----------------------------------------------------------------------------
\* ftntoss, ftntick and ftnexpire, in any number and killed anywhere, leave no
\* line of the text out of the index, but for a failure that ftnexpire repairs.
THEOREM HistoryIndexed == Serial => (HistorySpec => []IndexCovers)
<1> SUFFICES ASSUME Serial PROVE HistorySpec => []IndexCovers  OBVIOUS
<1>1. HistoryInit => HistoryInv  BY InitHistory
<1>2. HistoryInv /\ [HistoryNext]_historyvars => HistoryInv'  BY NextHistory
<1>3. HistoryInv => IndexCovers  BY DEF HistoryInv
<1> QED  BY <1>1, <1>2, <1>3, PTL DEF HistorySpec

\* No duplicate gets through in any order of their steps.
THEOREM HistoryNoSecondLine == Serial => (HistorySpec => NoSecondLine)
<1> SUFFICES ASSUME Serial PROVE HistorySpec => NoSecondLine  OBVIOUS
<1> DEFINE Untested ==
      \A p \in Toss \cup Tick :
        stored'[p] /\ core'[p] # core[p] /\ ~gap /\ ~blind[p]
        => text'[tname][Len(text'[tname])] \notin Lines(tname)
<1>1. HistoryInit => HistoryInv  BY InitHistory
<1>2. HistoryInv /\ [HistoryNext]_historyvars => HistoryInv'  BY NextHistory
<1>3. HistoryInv /\ [HistoryNext]_historyvars => [Untested]_historyvars
  <2>1. ASSUME HistoryInv, HistoryNext PROVE Untested
    BY <2>1, OnlyWrites, WriteNew DEF Proc, User
  <2> QED  BY <2>1
<1> QED  BY <1>1, <1>2, <1>3, PTL DEF HistorySpec, NoSecondLine

\* ftnexpire drops no line but the first ones.
THEOREM HistoryExpireKeeps == Serial => (HistorySpec => ExpireKeeps)
<1> SUFFICES ASSUME Serial PROVE HistorySpec => ExpireKeeps  OBVIOUS
<1> DEFINE Kept ==
      tname' # tname =>
        \E n \in 0..Len(text[tname]) :
           text[tname'] = SubSeq(text[tname], n + 1, Len(text[tname]))
<1>1. HistoryInit => HistoryInv  BY InitHistory
<1>2. HistoryInv /\ [HistoryNext]_historyvars => HistoryInv'  BY NextHistory
<1>3. HistoryInv /\ [HistoryNext]_historyvars => [Kept]_historyvars
  <2>1. ASSUME HistoryInv, HistoryNext, tname' # tname PROVE Kept
    <3>1. PICK p \in Proc : RenameText(p)  BY <2>1, OnlyRenames
    <3>2. p \in Expire /\ tname' = made
      BY <2>1, <3>1, ConstantsAssumption DEF RenameText, HistoryInv, NewFiles, Roles, Proc
    <3>3. Suffix(text[made], text[tname])
      BY <2>1, <3>1, <3>2 DEF RenameText, HistoryInv, NewFiles
    <3> QED  BY <3>2, <3>3 DEF Suffix
  <2> QED  BY <2>1
<1> QED  BY <1>1, <1>2, <1>3, PTL DEF HistorySpec, ExpireKeeps

\* When ftnexpire has renamed the index, it has exactly the lines of the text.
THEOREM HistoryExpireRepairs == Serial => (HistorySpec => ExpireRepairs)
<1> SUFFICES ASSUME Serial PROVE HistorySpec => ExpireRepairs  OBVIOUS
<1> DEFINE Repaired ==
      \A p \in Expire : step[p] = "rename_pag" /\ pname' # pname
                        => pag[pname'] = DOMAIN text[tname]
<1>1. HistoryInit => HistoryInv  BY InitHistory
<1>2. HistoryInv /\ [HistoryNext]_historyvars => HistoryInv'  BY NextHistory
<1>3. HistoryInv /\ [HistoryNext]_historyvars => [Repaired]_historyvars
  <2>1. ASSUME HistoryInv, HistoryNext, NEW p \in Expire, step[p] = "rename_pag",
               pname' # pname
        PROVE  pag[pname'] = DOMAIN text[tname]
    <3>1. PICK q \in Proc : RenameIndex(q)
      BY <2>1 DEF HistoryNext, Begin, BeginExpire, TakeLock, RetakeLock, ExpireLock,
         Busy, TossMessage, StoreFails, TossUnlock, TossClose, TickDupe, TickNew,
         TickReplaces, TickWrite, TickClose, CopyLines, RenameText, RenameFails,
         ExpireUnlock, KillProgram, KillInSync, WriteLine, SyncIndex, files
    <3>2. q \in Expire /\ pname' = made /\ tname = made
      BY <2>1, <3>1, ConstantsAssumption DEF RenameIndex, HistoryInv, NewFiles, Roles, Proc
    <3> QED  BY <2>1, <3>1, <3>2 DEF HistoryInv, NewFiles, RenameIndex
  <2> QED  BY <2>1
<1> QED  BY <1>1, <1>2, <1>3, PTL DEF HistorySpec, ExpireRepairs
=============================================================================
