-------------------------------- MODULE Tick --------------------------------
(***************************************************************************)
(* File areas: ftntick takes the TIC files of the inbound directory one    *)
(* after the other, moves the file each of them announces to its file      *)
(* area, links it into the file box of every downlink and writes a TIC     *)
(* file there; ftnhatch announces a file of an area to its nodes; a mailer *)
(* empties the boxes.                                                      *)
(*                                                                         *)
(* A directory maps names to inodes: link() gives a file a second name,    *)
(* and copy_file() onto a name that exists truncates its inode for all its *)
(* names.  The content of a file is the TIC it came with.  The default     *)
(* build is modelled: pass-through areas and file boxes, no read-only ACL. *)
(***************************************************************************)
EXTENDS FiniteSetsExt, Sequences

CONSTANTS
  Tic,       \* TIC files, one of which may be ftnhatch's
  File, Area, Node, Inode,
  NONE,
  EMPTY,     \* content of a truncated file
  Configs,   \* options, areas and TIC files
  MaxFault   \* bound: failing calls, and deaths of ftntick

VARIABLES
  config,   \* [info of each TIC, order, comes, calls, areas, create, unknown, hatch;
            \*  wait, action, kill_dupe, history, crc, ignore, xrdir,
            \*  insecure, checkpw]
  data,     \* the content of each inode
  inbound, dir, pass, box, \* names in the inbound, the areas, pass_path and
                           \* the file boxes: an inode or NONE
  tics,     \* each TIC in the inbound: "none", "tic", "bad" or "gone"
  boxtics,  \* TICs in the box of each node
  flo,      \* files of an area that are attached for a node
  \* A list of which members are taken out, first ones first (todo, new,
  \* hnodes), is the set of their places in the list it was made from.
  known,    \* FAreas.BBS: the record of each area, or NONE
  hist,     \* keys in the TIC history
  old,      \* TickWaitHour is over
  arrived,  \* TICs whose file has arrived
  got,      \* contents that each node has fetched, or none could keep
  told,     \* how many TICs were written to each node, for each TIC
  saved,    \* contents in TickReplacedDir
  pc, todo, cur, \* ftntick: its place, the rest of the listing, the TIC
  new,      \* the nodes of the area the file is still to be sent to
  hnodes,   \* ftnhatch: the nodes of the area it still sends to
  requests, \* areas ftntick has asked its uplink to be unsubscribed from
  excused,  \* TICs that were dealt with otherwise, by configuration
  left,     \* names of files a run has left in pass_path
  faults

names == <<data, inbound, dir, pass, box>>
tick  == <<pc, todo, cur, new>>
ghost == <<got, told, excused, left>>
vars  == <<config, names, tics, boxtics, flo, known, hist, old, arrived, saved,
           tick, hnodes, requests, ghost, faults>>

Info(t) == config.info[t]
f       == Info(cur).file

Init ==
  /\ config \in Configs
  /\ data = [i \in Inode |-> NONE]
  /\ inbound = [x \in File |-> NONE]
  /\ dir = [a \in Area |-> [x \in File |-> NONE]]
  /\ pass = [x \in File |-> NONE]
  /\ box = [n \in Node |-> [x \in File |-> NONE]]
  /\ tics = [t \in Tic |-> IF t \in Range(config.order) THEN "tic" ELSE "none"]
  /\ boxtics = [n \in Node |-> {}] /\ flo = [n \in Node |-> {}]
  /\ known = config.areas
  /\ hist = {} /\ old = FALSE /\ arrived = {} /\ saved = {}
  /\ pc = "idle" /\ todo = {} /\ cur = NONE /\ new = {}
  /\ hnodes = {} /\ requests = {}
  /\ got = [n \in Node |-> {}]
  /\ told = [n \in Node |-> [t \in Tic |-> 0]]
  /\ excused = {} /\ left = {} /\ faults = 0

Named(i) ==
  \/ \E x \in File : i \in {inbound[x], pass[x]}
  \/ \E x \in File : (\E a \in Area : dir[a][x] = i)
                     \/ (\E n \in Node : box[n][x] = i)
Fresh == CHOOSE i \in Inode : ~Named(i)

\* copy_file(): a name that exists keeps its inode, which is truncated first.
CopyInode(dst)        == IF dst = NONE THEN Fresh ELSE dst
CopyContent(src, dst) == IF src = dst THEN EMPTY ELSE data[src]
CopyFile(src, dst) ==
  data' = [data EXCEPT ![CopyInode(dst)] = CopyContent(src, dst)]

\* lon_search() on the nodes, and lon_is_uplink(): the first nodes of an area.
IsListed(n, a) == \E k \in DOMAIN a.nodes : a.nodes[k] = n
\* Mutant: nodes that have seen it are sent it again.
NewNodesAll(t, a) ==
  {k \in DOMAIN a.nodes : k > a.uplinks /\ a.nodes[k] \notin a.passive}

\* do_seenby(): nodes after the uplinks, not passive and not in SEEN-BY.
NewNodes(t, a) ==
  {k \in DOMAIN a.nodes :
     /\ k > a.uplinks
     /\ a.nodes[k] \notin a.passive \cup Info(t).seenby \cup {Info(t).from}}

Key(t) == Info(t).key
AreaName(t) == IF known[Info(t).area] = NONE /\ config.unknown # NONE
               THEN config.unknown ELSE Info(t).area
IsUnknown   == known[Info(cur).area] = NONE
Rec         == known[AreaName(cur)]

-----------------------------------------------------------------------------
(* The mailer and the clock                                                *)

\* The mailer has received a file: always under a new inode.
ArriveFile(t) ==
  /\ t \in config.comes \ arrived /\ inbound[Info(t).file] = NONE
  /\ inbound' = [inbound EXCEPT ![Info(t).file] = Fresh]
  /\ data' = [data EXCEPT ![Fresh] = t]
  /\ arrived' = arrived \cup {t}
  /\ UNCHANGED <<config, dir, pass, box, tics, boxtics, flo, known, hist, old,
                 saved, tick, hnodes, requests, ghost, faults>>

\* TickWaitHour passes.
GetOld ==
  /\ ~old
  /\ old' = TRUE
  /\ UNCHANGED <<config, names, tics, boxtics, flo, known, hist, arrived, saved,
                 tick, hnodes, requests, ghost, faults>>

\* A node takes what is in its box and what is attached for it.
Fetch(n) ==
  /\ n \in config.calls
  /\ boxtics[n] # {} \/ flo[n] # {} \/ \E x \in File : box[n][x] # NONE
  /\ got' = [got EXCEPT ![n] = @ \cup
               {data[i] : i \in {box[n][x] : x \in File} \ {NONE}} \cup
               {data[i] : i \in {dir[r[1]][r[2]] : r \in flo[n]} \ {NONE}}]
  /\ box' = [box EXCEPT ![n] = [x \in File |-> NONE]]
  /\ boxtics' = [boxtics EXCEPT ![n] = {}]
  /\ flo' = [flo EXCEPT ![n] = {}]
  /\ UNCHANGED <<config, data, inbound, dir, pass, tics, known, hist, old,
                 arrived, saved, tick, hnodes, requests, told, excused, left,
                 faults>>

-----------------------------------------------------------------------------
(* ftntick, do_tic()                                                       *)

Quiet == UNCHANGED <<config, old, arrived, hnodes, flo>>

\* dir_open() lists the TIC files, oldest first.
Listing == {k \in DOMAIN config.order : tics[config.order[k]] = "tic"}

Start ==
  /\ pc = "idle" /\ Listing # {}
  /\ todo' = Listing
  /\ pc' = "next" /\ cur' = NONE
  /\ UNCHANGED <<names, tics, boxtics, known, hist, saved, new, requests, ghost,
                 faults>> /\ Quiet

NextTic ==
  /\ pc = "next"
  /\ IF todo = {} THEN pc' = "idle" /\ cur' = NONE /\ UNCHANGED todo
     ELSE /\ pc' = "check" /\ cur' = config.order[Min(todo)]
          /\ todo' = todo \ {Min(todo)}
  /\ UNCHANGED <<names, tics, boxtics, known, hist, saved, new, requests, ghost,
                 faults>> /\ Quiet

\* check_file(): size and CRC; the default build does not look at the CRC.
CrcFits == data[inbound[f]] = cur
Fits    == /\ data[inbound[f]] \notin Info(cur).othersize
           /\ config.crc => CrcFits

\* The announced file is here and fits, or the TIC file becomes a BAD file.
Check ==
  /\ pc = "check" /\ inbound[f] # NONE
  /\ pc' = IF Fits THEN "dupe" ELSE "bad"
  /\ UNCHANGED <<names, tics, boxtics, known, hist, saved, todo, cur, new,
                 requests, ghost, faults>> /\ Quiet

\* Mutant: the TIC file waits however long.
NoFileWaits ==
  /\ pc = "check" /\ inbound[f] = NONE
  /\ pc' = "next"
  /\ UNCHANGED <<names, tics, boxtics, known, hist, saved, todo, cur, new,
                 requests, ghost, faults>> /\ Quiet

\* There is no file: the TIC file waits for it, TickWaitHour hours long.  Then
\* it goes as TickWaitAction says; if that is not set, do_tic() returns; if it
\* is something else, the TIC file is processed without its file.
NoFile ==
  /\ pc = "check" /\ inbound[f] = NONE
  /\ IF config.wait /\ ~old
     THEN pc' = "next" /\ UNCHANGED <<tics, excused>>
     ELSE \/ /\ config.action = "undefined"
             /\ pc' = "idle" /\ UNCHANGED <<tics, excused>>
          \/ /\ config.action = "bad"
             /\ pc' = "bad" /\ UNCHANGED <<tics, excused>>
          \/ /\ config.action = "delete"
             /\ tics' = [tics EXCEPT ![cur] = "gone"]
             /\ excused' = excused \cup {cur}
             /\ pc' = "next"
          \/ /\ config.action = "other"
             /\ pc' = "dupe" /\ UNCHANGED <<tics, excused>>
  /\ UNCHANGED <<names, boxtics, known, hist, saved, todo, cur, new, requests,
                 got, told, left, faults>> /\ Quiet

\* ftntick_is_dupe(): a file that replaces itself is none.
IsDupe == /\ config.history /\ Key(cur) \in hist
          /\ Info(cur).replaces # f

Dupe ==
  /\ pc = "dupe"
  /\ IF ~IsDupe THEN pc' = "area" /\ UNCHANGED <<inbound, tics, excused>>
     ELSE IF ~config.kill_dupe
     THEN pc' = "bad" /\ UNCHANGED <<inbound, tics, excused>>
     ELSE /\ inbound' = [inbound EXCEPT ![f] = NONE]
          /\ tics' = [tics EXCEPT ![cur] = "gone"]
          /\ excused' = excused \cup {cur} \cup
                        (IF inbound[f] = NONE THEN {} ELSE {data[inbound[f]]})
          /\ pc' = "next"
  /\ UNCHANGED <<data, dir, pass, box, boxtics, known, hist, saved, todo, cur,
                 new, requests, got, told, left, faults>> /\ Quiet

\* process_tic() failed, or the TIC file was refused before.
Bad ==
  /\ pc = "bad"
  /\ tics' = [tics EXCEPT ![cur] = "bad"]
  /\ pc' = "next"
  /\ UNCHANGED <<names, boxtics, known, hist, saved, todo, cur, new, requests,
                 ghost, faults>> /\ Quiet

-----------------------------------------------------------------------------
(* ftntick, process_tic()                                                  *)

\* check_pass(): PASSWD has a password for the sender, or -t was given; if the
\* password is to be checked, the TIC file has it.
MayCreate ==
  /\ Info(cur).pw # "none" \/ config.insecure
  /\ config.checkpw => Info(cur).pw = "right" \/ (config.insecure /\ Info(cur).pw = "none")

\* The area is known, or UnknownTickArea takes the file, or the sender may
\* create it; and the sender is a node of it.
FindArea ==
  /\ pc = "area"
  /\ LET created == IsUnknown /\ config.unknown = NONE
                    /\ config.create # NONE /\ MayCreate
         r == IF created THEN config.create ELSE known[AreaName(cur)]
     IN /\ known' = IF created THEN [known EXCEPT ![Info(cur).area] = r] ELSE known
        /\ pc' = IF r # NONE /\ ((IsUnknown /\ ~created) \/ IsListed(Info(cur).from, r))
                 THEN "replace" ELSE "bad"
  /\ UNCHANGED <<names, tics, boxtics, hist, saved, todo, cur, new, requests,
                 ghost, faults>> /\ Quiet

AfterReplace == IF ~Rec.passthru THEN "copy"
                ELSE IF IsUnknown THEN "history" ELSE "pass"

\* Replaces: the old file is saved, if there is a place for it, and removed.
Replace ==
  /\ pc = "replace"
  /\ LET r == Info(cur).replaces IN
     IF /\ ~IsUnknown /\ r # NONE /\ ~config.ignore /\ ~Rec.passthru
        /\ dir[AreaName(cur)][r] # NONE
     THEN /\ saved' = IF config.xrdir
                      THEN saved \cup {data[dir[AreaName(cur)][r]]} ELSE saved
          /\ dir' = [dir EXCEPT ![AreaName(cur)][r] = NONE]
     ELSE UNCHANGED <<saved, dir>>
  /\ pc' = AfterReplace
  /\ UNCHANGED <<data, inbound, pass, box, tics, boxtics, known, hist, todo, cur,
                 new, requests, ghost, faults>> /\ Quiet

\* move(): copy_file() opens the new file, which truncates an old one.
Copy ==
  /\ pc = "copy"
  /\ IF inbound[f] = NONE
     THEN pc' = "bad" /\ UNCHANGED <<data, dir>>
     ELSE LET i == CopyInode(dir[AreaName(cur)][f]) IN
          /\ data' = [data EXCEPT ![i] = EMPTY]
          /\ dir' = [dir EXCEPT ![AreaName(cur)][f] = i]
          /\ pc' = "write"
  /\ UNCHANGED <<inbound, pass, box, tics, boxtics, known, hist, saved, todo, cur,
                 new, requests, ghost, faults>> /\ Quiet

Write ==
  /\ pc = "write"
  /\ data' = [data EXCEPT ![dir[AreaName(cur)][f]] = data[inbound[f]]]
  /\ pc' = "unlink"
  /\ UNCHANGED <<inbound, dir, pass, box, tics, boxtics, known, hist, saved, todo,
                 cur, new, requests, ghost, faults>> /\ Quiet

\* Mutant: what copy_file() returns is not looked at.
WriteFailsUnseen ==
  /\ pc = "write" /\ faults < MaxFault
  /\ dir' = [dir EXCEPT ![AreaName(cur)][f] = NONE]
  /\ faults' = faults + 1
  /\ pc' = "unlink"
  /\ UNCHANGED <<data, inbound, pass, box, tics, boxtics, known, hist, saved, todo,
                 cur, new, requests, ghost>> /\ Quiet

\* A short write: copy_file() removes the new file.
WriteFails ==
  /\ pc = "write" /\ faults < MaxFault
  /\ dir' = [dir EXCEPT ![AreaName(cur)][f] = NONE]
  /\ faults' = faults + 1
  /\ pc' = "bad"
  /\ UNCHANGED <<data, inbound, pass, box, tics, boxtics, known, hist, saved, todo,
                 cur, new, requests, ghost>> /\ Quiet

\* The file leaves the inbound; its description goes to files.bbs.
Unlink ==
  /\ pc = "unlink"
  /\ inbound' = [inbound EXCEPT ![f] = NONE]
  /\ pc' = IF IsUnknown THEN "history" ELSE "pass"
  /\ UNCHANGED <<data, dir, pass, box, tics, boxtics, known, hist, saved, todo, cur,
                 new, requests, ghost, faults>> /\ Quiet

Source == IF Rec.passthru THEN inbound[f] ELSE dir[AreaName(cur)][f]

\* The file gets a name in PassthroughtBoxesDir: a link, or if that cannot be
\* made, since the name is taken, a copy onto what has the name.  A new
\* pass-through area without downlinks is given up instead.
Pass ==
  /\ pc = "pass"
  /\ new' = NewNodes(cur, Rec)
  /\ IF new' = {} /\ Rec.passthru /\ Rec.fresh
     THEN /\ requests' = requests \cup {AreaName(cur)}
          /\ excused' = IF inbound[f] = NONE THEN excused
                        ELSE excused \cup {data[inbound[f]]}
          /\ inbound' = [inbound EXCEPT ![f] = NONE]
          /\ pc' = "history"
          /\ UNCHANGED <<data, pass>>
     ELSE /\ CASE Source = NONE  -> pc' = "bad" /\ UNCHANGED <<data, pass>>
               [] pass[f] = NONE -> /\ pass' = [pass EXCEPT ![f] = Source]
                                    /\ pc' = "link" /\ UNCHANGED data
               [] OTHER          -> /\ CopyFile(Source, pass[f])
                                    /\ pc' = "link" /\ UNCHANGED pass
          /\ UNCHANGED <<inbound, requests, excused>>
  /\ UNCHANGED <<dir, box, tics, boxtics, known, hist, saved, todo, cur, got,
                 told, left, faults>> /\ Quiet

\* The node whose turn it is.
NextNode == Rec.nodes[Min(new)]

\* tick_put(): the TIC file for a node.
TickPut(n, t) ==
  /\ boxtics' = [boxtics EXCEPT ![n] = @ \cup {t}]
  /\ told' = [told EXCEPT ![n][t] = @ + 1]

\* tick_send(): the file is linked into the box of the next node, over an
\* older one of its name; then the TIC file is written there.
Link ==
  /\ pc = "link" /\ new # {}
  /\ box' = [box EXCEPT ![NextNode][f] = pass[f]]
  /\ pc' = "put"
  /\ UNCHANGED <<data, inbound, dir, pass, tics, boxtics, known, hist, saved, todo,
                 cur, new, requests, ghost, faults>> /\ Quiet

Put ==
  /\ pc = "put"
  /\ TickPut(NextNode, cur)
  /\ new' = new \ {Min(new)}
  /\ pc' = "link"
  /\ UNCHANGED <<names, tics, known, hist, saved, todo, cur, requests, got,
                 excused, left, faults>> /\ Quiet

\* Mutant: the failing node is left out and the TIC file removed in the end.
SendSkips ==
  /\ pc \in {"link", "put"} /\ new # {} /\ faults < MaxFault
  /\ faults' = faults + 1
  /\ new' = new \ {Min(new)}
  /\ pc' = "link"
  /\ UNCHANGED <<names, tics, boxtics, known, hist, saved, todo, cur,
                 requests, ghost>> /\ Quiet

\* One node fails, and the nodes after it get nothing.
SendFails ==
  /\ pc \in {"link", "put"} /\ new # {} /\ faults < MaxFault
  /\ faults' = faults + 1
  /\ left' = left \cup {f}
  /\ pc' = "bad"
  /\ UNCHANGED <<names, tics, boxtics, known, hist, saved, todo, cur, new,
                 requests, got, told, excused>> /\ Quiet

\* All nodes have the file: the extra names go.
Clean ==
  /\ pc = "link" /\ new = {}
  /\ pass' = [pass EXCEPT ![f] = NONE]
  /\ inbound' = IF Rec.passthru THEN [inbound EXCEPT ![f] = NONE] ELSE inbound
  /\ pc' = "history"
  /\ UNCHANGED <<data, dir, box, tics, boxtics, known, hist, saved, todo, cur, new,
                 requests, ghost, faults>> /\ Quiet

\* ftntick_write_history()
History ==
  /\ pc = "history"
  /\ hist' = IF config.history THEN hist \cup {Key(cur)} ELSE hist
  /\ pc' = "remove"
  /\ UNCHANGED <<names, tics, boxtics, known, saved, todo, cur, new, requests,
                 ghost, faults>> /\ Quiet

\* The history cannot be written: do_tic() returns.
HistoryFails ==
  /\ pc = "history" /\ config.history /\ faults < MaxFault
  /\ faults' = faults + 1
  /\ pc' = "idle"
  /\ UNCHANGED <<names, tics, boxtics, known, hist, saved, todo, cur, new,
                 requests, ghost>> /\ Quiet

\* The TIC file is removed at last.
RemoveTic ==
  /\ pc = "remove"
  /\ tics' = [tics EXCEPT ![cur] = "gone"]
  /\ pc' = "next"
  /\ UNCHANGED <<names, boxtics, known, hist, saved, todo, cur, new, requests,
                 ghost, faults>> /\ Quiet

\* ftntick is killed, or the machine goes down.
Kill ==
  /\ pc # "idle" /\ faults < MaxFault
  /\ faults' = faults + 1
  /\ pc' = "idle"
  /\ left' = left \cup {x \in File : pass[x] # NONE}
  /\ UNCHANGED <<names, tics, boxtics, known, hist, saved, todo, cur, new,
                 requests, got, told, excused>> /\ Quiet

-----------------------------------------------------------------------------
(* ftnhatch                                                                *)

\* hatch(): all nodes of the area that are not passive, uplinks too.
Hatch ==
  /\ config.hatch # NONE /\ tics[config.hatch] = "none"
  /\ tics' = [tics EXCEPT ![config.hatch] = "gone"]
  /\ LET rec == known[Info(config.hatch).area] IN
     hnodes' = IF rec = NONE \/ dir[Info(config.hatch).area][Info(config.hatch).file] = NONE
               THEN {}
               ELSE {k \in DOMAIN rec.nodes : rec.nodes[k] \notin rec.passive}
  /\ UNCHANGED <<config, names, boxtics, flo, known, hist, old, arrived, saved,
                 tick, requests, ghost, faults>>

\* tick_send() attaches the file and writes the TIC file; a node that fails is
\* passed over.
HatchSend ==
  /\ hnodes # {}
  /\ hnodes' = hnodes \ {Min(hnodes)}
  /\ LET t == config.hatch
         n == known[Info(t).area].nodes[Min(hnodes)] IN
     \/ /\ flo' = [flo EXCEPT ![n] = @ \cup {<<Info(t).area, Info(t).file>>}]
        /\ TickPut(n, t)
        /\ UNCHANGED faults
     \/ /\ faults < MaxFault /\ faults' = faults + 1
        /\ UNCHANGED <<flo, boxtics, told>>
  /\ UNCHANGED <<config, names, tics, known, hist, old, arrived, saved, tick,
                 requests, got, excused, left>>

-----------------------------------------------------------------------------
Process == \/ NextTic \/ Check \/ NoFile \/ Dupe \/ Bad \/ FindArea \/ Replace
           \/ Copy \/ Write \/ Unlink \/ Pass \/ Link \/ Put \/ Clean \/ History
           \/ RemoveTic

Next ==
  \/ Start \/ Process \/ WriteFails \/ SendFails \/ HistoryFails \/ Kill
  \/ GetOld \/ Hatch \/ HatchSend
  \/ \E t \in Tic : ArriveFile(t)
  \/ \E n \in Node : Fetch(n)

\* runinc runs ftntick again and again, and time passes.
Fairness == WF_vars(Start) /\ WF_vars(Process) /\ WF_vars(GetOld)

Spec == Init /\ [][Next]_vars /\ Fairness

-----------------------------------------------------------------------------
\* The nodes that are to have the file of t.
IsDownlink(n, t) ==
  LET rec == known[Info(t).area] IN
  /\ rec # NONE /\ IsListed(Info(t).from, rec)
  /\ \E k \in DOMAIN rec.nodes : k > rec.uplinks /\ rec.nodes[k] = n
  /\ n \notin rec.passive \cup Info(t).seenby \cup {Info(t).from}

TypeOK ==
  /\ data \in [Inode -> Tic \cup {NONE, EMPTY}]
  /\ inbound \in [File -> Inode \cup {NONE}] /\ pass \in [File -> Inode \cup {NONE}]
  /\ tics \in [Tic -> {"none", "tic", "bad", "gone"}]
  /\ arrived \subseteq Tic /\ excused \subseteq Tic \cup {EMPTY}
  /\ faults \in 0..MaxFault

\* A downlink that is to get a file has been sent its TIC file, or the TIC file
\* is still in the inbound directory, as TIC or BAD file, for the next run or
\* for the operator: also when ftntick is killed between any two steps or a
\* call fails for one of several downlinks (the order of the steps in
\* process_tic() and do_tic()).
NotForgotten ==
  \A t \in Range(config.order), n \in Node :
    IsDownlink(n, t) =>
      told[n][t] > 0 \/ tics[t] \in {"tic", "bad"} \/ t \in excused

Superseded(t) ==
  \E u \in Tic \ {t} :
    /\ Info(u).area = Info(t).area
    /\ Info(t).file \in {Info(u).file, Info(u).replaces}
    /\ u \in saved \cup UNION {got[n] : n \in Node}
       \/ \E i \in Inode : data[i] = u /\ Named(i)

InPlace(t) ==
  \E x \in File : \E i \in {inbound[x], pass[x]} \cup {dir[a][x] : a \in Area} :
    i # NONE /\ data[i] = t
WithNode(t, n) ==
  t \in got[n] \/ \E x \in File : box[n][x] # NONE /\ data[box[n][x]] = t

\* What has arrived is in the inbound, in its area or saved, or all downlinks of
\* a pass-through area have it: unless it was a dupe, or a new version took its
\* place, or an interrupted run had left its name in PassthroughtBoxesDir (what
\* copy_file() then writes to has both names), or TickWaitAction has a value
\* do_tic() does not know, and a TIC file without its file still removes the
\* file it replaces.
FileKept ==
  \A t \in arrived \ excused :
    Info(t).file \notin left /\ config.action # "other" =>
      \/ InPlace(t) \/ t \in saved \/ Superseded(t)
      \/ \A n \in Node : IsDownlink(n, t) => WithNode(t, n)

\* No node is sent a TIC file that it, or a node before, has seen, nor twice the
\* same one unless ftntick was killed after it had sent it, or could not write
\* the history (do_seenby(), and the BAD file when a node fails).
SentOnce ==
  \A n \in Node, t \in Range(config.order) :
    /\ told[n][t] <= 1 + faults
    /\ told[n][t] > 0 => IsDownlink(n, t)

\* No TIC file stays in the inbound for ever, whatever becomes of those before
\* it, as long as TickWaitAction is set (do_tic()).
Emptied ==
  \A t \in Tic :
    config.action # "undefined" => <>(tics[t] \in {"none", "bad", "gone"})
=============================================================================
