------------------------------ MODULE Outbound ------------------------------
(***************************************************************************)
(* The Binkley outbound: ftnpack puts the packets of its input directory   *)
(* into archives or .OUT files, bink_attach() lists archives and files in  *)
(* the FLO file of a node, and ftnflo, or a mailer in its place, sends     *)
(* what is listed.  The bsy file of a node, which lock_lockfile() creates, *)
(* and the fcntl() lock of an open FLO file are to keep them apart.        *)
(*                                                                         *)
(* A FLO file is named by its inode, as it lives on for whoever has it     *)
(* open when it is unlinked.  A node has one FLO and one OUT file at most: *)
(* their flavors are left out.  A bsy file whose creator is dead is as     *)
(* good as none (LockFile), and the death of a process removes it here.    *)
(***************************************************************************)
EXTENDS Naturals, Sequences, FiniteSets

CONSTANTS
  Pkt, File,   \* packets to pack, files to attach
  Node,
  Inode,       \* inodes for FLO files
  NONE,
  Packer,      \* ftnpack: one process, under the lock of runinc or its own
  Attacher,    \* ftntick, ftnhatch, ftnfattach
  Caller,      \* ftnflo -x, or a mailer that goes by the same files
  LastChar,    \* last_arcmail_chars: the last digit of archive names
  Configs,     \* packing files and directories, one of which the run uses
  MaxKill, MaxFail  \* bounds: killed processes, failing archivers or calls

Proc  == Packer \cup Attacher \cup Caller
Digit == 0..LastChar

ASSUME ConstantsAssumption ==
  /\ Packer \cap Attacher = {} /\ (Packer \cup Attacher) \cap Caller = {}
  /\ \A p, q \in Packer : p = q
  /\ NONE \notin Proc \cup Inode \cup Pkt \cup Node /\ Pkt \cap File = {}
  /\ IsFiniteSet(Pkt) /\ \A s \in SUBSET Pkt : s # NONE
  /\ LastChar \in Nat \ {0} /\ MaxKill \in Nat /\ MaxFail \in Nat

\* While a node has no FLO file, there is an inode for one.
ASSUME InodesAssumption ==
  \A g \in [Node -> Inode \cup {NONE}], n \in Node :
    g[n] = NONE => \E i \in Inode : \A m \in Node : g[m] # i

VARIABLES
  config,  \* [pkts, files; to, arcnode, flonode, net, noarc of each packet;
           \*  same: in_dir is out_dir; maxarc; callers: those that run]
  inn,     \* packets whole in in_dir
  tmp,     \* packets whole in out_dir, if that is another directory
  arc,     \* the archives of each node: NONE, or the packets in it
  outf,    \* the .OUT file of each node: NONE, or the packets in it
  torn,    \* nodes whose .OUT file lacks the 0-word at its end
  flo,     \* the FLO file of each node: NONE or its inode
  entries, \* what is listed in each FLO file
  locked,  \* owner of the fcntl() lock of each FLO file
  bsy,     \* owner of the bsy file of each node
  files,   \* files nobody has started to attach yet
  sent,    \* how often each packet and file has been sent
  pc,
  pkt,     \* the packet ftnpack is at
  node,    \* the node whose FLO file a process is at
  open,    \* flo_fp: the inode of the FLO file a process has open
  item,    \* the archive or file a process is going to list
  kills, fails,
  stranded \* packets left in out_dir or in an unlisted archive, files unlisted

out   == <<outf, torn>>
list  == <<flo, entries, locked>>
own   == <<pkt, node, open, item>>
bound == <<kills, fails>>
vars  == <<config, inn, tmp, arc, out, list, bsy, files, sent, pc, own, bound,
           stranded>>

\* Names of archives and files, as the entries of FLO files have them.
Archive(n, d) == <<"archive", n, d>>
Plain(f)      == <<"file", f>>

Init ==
  /\ config \in Configs
  /\ inn = config.pkts /\ tmp = {}
  /\ arc = [n \in Node |-> [d \in Digit |-> NONE]]
  /\ outf = [n \in Node |-> NONE] /\ torn = {}
  /\ flo = [n \in Node |-> NONE]
  /\ entries = [i \in Inode |-> <<>>]
  /\ locked = [i \in Inode |-> NONE]
  /\ bsy = [n \in Node |-> NONE]
  /\ files = config.files
  /\ sent = [x \in Pkt \cup File |-> 0]
  /\ pc = [p \in Proc |-> "idle"]
  /\ pkt = [p \in Proc |-> NONE]
  /\ node = [p \in Proc |-> NONE]
  /\ open = [p \in Proc |-> NONE]
  /\ item = [p \in Proc |-> NONE]
  /\ kills = 0 /\ fails = 0
  /\ stranded = {}

Goto(p, l) == pc' = [pc EXCEPT ![p] = l]

Arcnode(q) == config.arcnode[pkt[q]]
Flonode(q) == config.flonode[pkt[q]]
To(q)      == config.to[pkt[q]]

\* unlink() of the bsy files of some nodes, whoever has created them.
BsyDelete(nodes) == bsy' = [n \in Node |-> IF n \in nodes THEN NONE ELSE bsy[n]]

\* fclose(flo_fp) gives up the lock; an unlinked file is gone when the last
\* process closes it, and its inode is used again.
CloseFlo(p) ==
  /\ open' = [open EXCEPT ![p] = NONE]
  /\ locked' = [i \in Inode |-> IF locked[i] = p THEN NONE ELSE locked[i]]

-----------------------------------------------------------------------------
\* do_file() opens the next packet of in_dir; do_packing() finds its command.
TakePacket(q) ==
  /\ q \in Packer /\ pc[q] = "idle"
  /\ \E p \in inn : pkt' = [pkt EXCEPT ![q] = p]
  /\ Goto(q, "busy")
  /\ UNCHANGED <<config, inn, tmp, arc, out, list, bsy, files, sent, node, open,
                 item, bound, stranded>>

\* Mutant: the bsy file is not looked at.
BusyTakeAnyway(q) ==
  /\ pc[q] = "busy"
  /\ bsy' = [bsy EXCEPT ![Flonode(q)] = q]
  /\ Goto(q, IF config.noarc[pkt[q]] THEN "open_out" ELSE "search")
  /\ UNCHANGED <<config, inn, tmp, arc, out, list, files, sent, own, bound,
                 stranded>>

\* do_pack(): the bsy file is created if archive and FLO file are of the same
\* node; with fpack they are not.
BusyTake(q) ==
  /\ pc[q] = "busy"
  /\ IF Arcnode(q) = Flonode(q)
       THEN bsy[Flonode(q)] = NONE /\ bsy' = [bsy EXCEPT ![Flonode(q)] = q]
       ELSE UNCHANGED bsy
  /\ Goto(q, IF config.noarc[pkt[q]] THEN "open_out" ELSE "search")
  /\ UNCHANGED <<config, inn, tmp, arc, out, list, files, sent, own, bound,
                 stranded>>

\* "busy, skipping": the packet stays for another run.
BusySkip(q) ==
  /\ pc[q] = "busy"
  /\ Arcnode(q) = Flonode(q) /\ bsy[Flonode(q)] # NONE
  /\ pkt' = [pkt EXCEPT ![q] = NONE]
  /\ Goto(q, "idle")
  /\ UNCHANGED <<config, inn, tmp, arc, out, list, bsy, files, sent, node, open,
                 item, bound, stranded>>

\* An archive that is full: a packet has size 2, maxarc is exceeded when half
\* of another one does not fit any more.
TooBig(a) == config.maxarc > 0 /\ 2 * Cardinality(a) >= config.maxarc + 1

\* arcmail_search(): the digit for the next packet.  Truncated archives are
\* deleted; the number of one that was sent in the last day (fresh) is passed
\* over.  holes are the numbers without a file, but for older truncated ones.
NextDigit(a, fresh) ==
  LET used  == {d \in Digit : a[d] \notin {NONE, {}}}
      fits  == {d \in used : ~TooBig(a[d])}
      holes == {d \in Digit : a[d] = NONE} \cup fresh
               \cup (IF a[LastChar] = {} THEN {LastChar} ELSE {})
      taken == used \cup fresh
      least(s) == CHOOSE d \in s : \A e \in s : d <= e
      top   == CHOOSE d \in taken : \A e \in taken : e <= d
      next  == IF taken = {} THEN 0 ELSE IF top < LastChar THEN top + 1 ELSE top
      size(d)  == Cardinality(a[d])
      smallest == {d \in used : \A e \in used : size(d) <= size(e)}
  IN IF fits # {} THEN least(fits)
     ELSE IF next # LastChar \/ next \notin used THEN next
     ELSE IF holes # {} THEN least(holes)
     ELSE CHOOSE d \in smallest : \A e \in smallest : e <= d

Search(q) ==
  /\ pc[q] = "search"
  /\ LET n == Arcnode(q)
         empty == {d \in Digit : arc[n][d] = {}} IN
     /\ arc' = [arc EXCEPT ![n] = [d \in Digit |->
                                     IF d \in empty THEN NONE ELSE @[d]]]
     /\ \E fresh \in SUBSET (empty \ {LastChar}) :
          item' = [item EXCEPT ![q] = Archive(n, NextDigit(arc[n], fresh))]
  /\ Goto(q, "rename")
  /\ UNCHANGED <<config, inn, tmp, out, list, bsy, files, sent, pkt, node, open,
                 bound, stranded>>

\* Echomail: rename() to out_dir.
RenamePacket(q) ==
  /\ pc[q] = "rename" /\ ~config.net[pkt[q]]
  /\ IF config.same THEN UNCHANGED <<inn, tmp>>
                    ELSE inn' = inn \ {pkt[q]} /\ tmp' = tmp \cup {pkt[q]}
  /\ Goto(q, "archive")
  /\ UNCHANGED <<config, arc, out, list, bsy, files, sent, own, bound, stranded>>

\* Netmail: do_noarc() copies the packet to out_dir, under the same name.  If
\* that is in_dir, pkt_open() truncates the packet that is being copied.
CopyPacket(q) ==
  /\ pc[q] = "rename" /\ config.net[pkt[q]]
  /\ IF config.same THEN inn' = inn \ {pkt[q]} /\ UNCHANGED tmp
                    ELSE tmp' = tmp \cup {pkt[q]} /\ UNCHANGED inn
  /\ Goto(q, "unlink")
  /\ UNCHANGED <<config, arc, out, list, bsy, files, sent, own, bound, stranded>>

\* The end of do_noarc(): unlink(name).
UnlinkPacket(q) ==
  /\ pc[q] \in {"unlink", "unlink_out"}
  /\ inn' = inn \ {pkt[q]}
  /\ Goto(q, IF pc[q] = "unlink" THEN "archive" ELSE "release")
  /\ UNCHANGED <<config, tmp, arc, out, list, bsy, files, sent, own, bound,
                 stranded>>

OutDir == IF config.same THEN inn ELSE tmp

\* The archiver adds the packet to the archive, which it creates if need be.
RunArchiver(q) ==
  /\ pc[q] = "archive"
  /\ pkt[q] \in OutDir
  /\ LET n == item[q][2]
         d == item[q][3] IN
     arc' = [arc EXCEPT ![n][d] = (IF @ = NONE THEN {} ELSE @) \cup {pkt[q]}]
  /\ Goto(q, "remove")
  /\ UNCHANGED <<config, inn, tmp, out, list, bsy, files, sent, own, bound,
                 stranded>>

\* The archiver fails, of itself or because there is no packet: ERROR.
ArchiverFails(q) ==
  /\ pc[q] = "archive"
  /\ IF pkt[q] \in OutDir THEN fails < MaxFail /\ fails' = fails + 1
                          ELSE UNCHANGED fails
  /\ stranded' = stranded \cup (tmp \cap {pkt[q]})
  /\ Goto(q, "release")
  /\ UNCHANGED <<config, inn, tmp, arc, out, list, bsy, files, sent, own, kills>>

\* unlink(pktn)
RemoveTemp(q) ==
  /\ pc[q] = "remove"
  /\ inn' = inn \ (IF config.same THEN {pkt[q]} ELSE {})
  /\ tmp' = tmp \ {pkt[q]}
  /\ node' = [node EXCEPT ![q] = Flonode(q)]
  /\ Goto(q, "open")
  /\ UNCHANGED <<config, arc, out, list, bsy, files, sent, pkt, open, item,
                 bound, stranded>>

\* do_pack() deletes the bsy files, also those it has not created.
Release(q) ==
  /\ pc[q] = "release"
  /\ BsyDelete({Arcnode(q), Flonode(q)})
  /\ pkt' = [pkt EXCEPT ![q] = NONE]
  /\ node' = [node EXCEPT ![q] = NONE]
  /\ item' = [item EXCEPT ![q] = NONE]
  /\ Goto(q, "idle")
  /\ UNCHANGED <<config, inn, tmp, arc, out, list, files, sent, open, bound,
                 stranded>>

-----------------------------------------------------------------------------
\* do_noarc(): pkt_open_node() opens the .OUT file and looks for its 0-word.
OpenOut(q) ==
  /\ pc[q] = "open_out"
  /\ IF To(q) \in torn
       THEN UNCHANGED out /\ Goto(q, "release")
       ELSE /\ outf' = [outf EXCEPT ![To(q)] = IF @ = NONE THEN {} ELSE @]
            /\ torn' = torn \cup {To(q)}
            /\ Goto(q, "copy_out")
  /\ UNCHANGED <<config, inn, tmp, arc, list, bsy, files, sent, own, bound,
                 stranded>>

\* The messages are copied and pkt_close() writes the 0-word.
CopyOut(q) ==
  /\ pc[q] = "copy_out"
  /\ outf' = [outf EXCEPT ![To(q)] = IF @ = NONE THEN @ ELSE @ \cup {pkt[q]}]
  /\ torn' = torn \ {To(q)}
  /\ Goto(q, "unlink_out")
  /\ UNCHANGED <<config, inn, tmp, arc, list, bsy, files, sent, own, bound,
                 stranded>>

\* The mailer sends the .OUT file of a node that is not busy.
SendOut(n) ==
  /\ outf[n] # NONE /\ bsy[n] = NONE
  /\ sent' = [x \in Pkt \cup File |-> IF x \in outf[n] THEN sent[x] + 1
                                                        ELSE sent[x]]
  /\ outf' = [outf EXCEPT ![n] = NONE]
  /\ torn' = torn \ {n}
  /\ UNCHANGED <<config, inn, tmp, arc, list, bsy, files, pc, own, bound,
                 stranded>>

-----------------------------------------------------------------------------
\* tick_send() or ftnfattach attaches a file; its bsy file waits for others.
StartAttach(t, n) ==
  /\ t \in Attacher /\ pc[t] = "idle"
  /\ bsy[n] = NONE
  /\ bsy' = [bsy EXCEPT ![n] = t]
  /\ \E f \in files : /\ files' = files \ {f}
                      /\ item' = [item EXCEPT ![t] = Plain(f)]
  /\ node' = [node EXCEPT ![t] = n]
  /\ Goto(t, "open")
  /\ UNCHANGED <<config, inn, tmp, arc, out, list, sent, pkt, open, bound,
                 stranded>>

Unused == {i \in Inode : (\A n \in Node : flo[n] # i)
                         /\ (\A p \in Proc : open[p] # i)}

\* flo_openx(), apmode: fopen(flo_name, "a+").
OpenFlo(p) ==
  /\ pc[p] = "open"
  /\ IF flo[node[p]] # NONE
       THEN /\ open' = [open EXCEPT ![p] = flo[node[p]]]
            /\ UNCHANGED <<flo, entries>>
       ELSE LET i == CHOOSE i \in Unused : TRUE IN
            /\ open' = [open EXCEPT ![p] = i]
            /\ flo' = [flo EXCEPT ![node[p]] = i]
            /\ entries' = [entries EXCEPT ![i] = <<>>]
  /\ Goto(p, "lock")
  /\ UNCHANGED <<config, inn, tmp, arc, out, locked, bsy, files, sent, pkt,
                 node, item, bound, stranded>>

\* lock_file() waits for the lock.  Is there a file of the name?  If not, the
\* bsy file is deleted, if bink_attach() has created one, and all starts again.
LockFlo(p) ==
  /\ pc[p] = "lock"
  /\ locked[open[p]] = NONE
  /\ IF flo[node[p]] # NONE
       THEN /\ locked' = [locked EXCEPT ![open[p]] = p]
            /\ Goto(p, "attach")
            /\ UNCHANGED <<open, bsy>>
       ELSE /\ CloseFlo(p)
            /\ BsyDelete(IF p \in Attacher THEN {node[p]} ELSE {})
            /\ Goto(p, "open")
  /\ UNCHANGED <<config, inn, tmp, arc, out, flo, entries, files, sent, pkt,
                 node, item, bound, stranded>>

Entry(x, done) == [item |-> x, sent |-> done]
Listed(i, x)   == \E k \in DOMAIN entries[i] : entries[i][k] = Entry(x, FALSE)

\* Mutant: an entry that is marked as sent counts as well.
AttachOnce(p) ==
  /\ pc[p] = "attach"
  /\ entries' = [entries EXCEPT ![open[p]] =
                   IF \E k \in DOMAIN @ : @[k].item = item[p] THEN @
                   ELSE Append(@, Entry(item[p], FALSE))]
  /\ CloseFlo(p)
  /\ IF p \in Packer
       THEN Goto(p, "release") /\ UNCHANGED <<bsy, node, item>>
       ELSE /\ BsyDelete({node[p]})
            /\ node' = [node EXCEPT ![p] = NONE]
            /\ item' = [item EXCEPT ![p] = NONE]
            /\ Goto(p, "idle")
  /\ UNCHANGED <<config, inn, tmp, arc, out, flo, files, sent, pkt, bound,
                 stranded>>

\* bink_attach(): the entry is written, if it is not there and not sent yet,
\* and the FLO file closed; flo_close() deletes the bsy file if it has one.
Attach(p) ==
  /\ pc[p] = "attach"
  /\ entries' = IF Listed(open[p], item[p]) THEN entries
                ELSE [entries EXCEPT ![open[p]] = Append(@, Entry(item[p], FALSE))]
  /\ CloseFlo(p)
  /\ IF p \in Packer
       THEN Goto(p, "release") /\ UNCHANGED <<bsy, node, item>>
       ELSE /\ BsyDelete({node[p]})
            /\ node' = [node EXCEPT ![p] = NONE]
            /\ item' = [item EXCEPT ![p] = NONE]
            /\ Goto(p, "idle")
  /\ UNCHANGED <<config, inn, tmp, arc, out, flo, files, sent, pkt, bound,
                 stranded>>

-----------------------------------------------------------------------------
\* do_flo(): bink_find_flo() has found a FLO file, the bsy file is created.
StartCall(c, n) ==
  /\ c \in config.callers /\ pc[c] = "idle"
  /\ flo[n] # NONE
  /\ node' = [node EXCEPT ![c] = n]
  /\ Goto(c, "wait")
  /\ UNCHANGED <<config, inn, tmp, arc, out, list, bsy, files, sent, pkt, open,
                 item, bound, stranded>>

CallBusy(c) ==
  /\ pc[c] = "wait"
  /\ bsy[node[c]] = NONE
  /\ bsy' = [bsy EXCEPT ![node[c]] = c]
  /\ Goto(c, "fopen")
  /\ UNCHANGED <<config, inn, tmp, arc, out, list, files, sent, own, bound,
                 stranded>>

Hangup(c) ==
  /\ CloseFlo(c)
  /\ node' = [node EXCEPT ![c] = NONE]
  /\ Goto(c, "idle")

\* fopen(flo_name, "r+"): the FLO file may have been sent meanwhile.
CallOpen(c) ==
  /\ pc[c] = "fopen"
  /\ flo[node[c]] # NONE
  /\ open' = [open EXCEPT ![c] = flo[node[c]]]
  /\ Goto(c, "flock")
  /\ UNCHANGED <<config, inn, tmp, arc, out, list, bsy, files, sent, pkt, node,
                 item, bound, stranded>>

CallGone(c) ==
  /\ pc[c] = "fopen"
  /\ flo[node[c]] = NONE
  /\ BsyDelete({node[c]})
  /\ Hangup(c)
  /\ UNCHANGED <<config, inn, tmp, arc, out, flo, entries, files, sent, pkt,
                 item, bound, stranded>>

\* The lock is granted.  If the file has gone, ERROR; the bsy file stays until
\* ftnflo has ended.
CallLock(c) ==
  /\ pc[c] = "flock"
  /\ locked[open[c]] = NONE
  /\ IF flo[node[c]] # NONE
       THEN /\ locked' = [locked EXCEPT ![open[c]] = c]
            /\ Goto(c, "read")
            /\ UNCHANGED <<open, node, bsy>>
       ELSE /\ BsyDelete({n \in Node : bsy[n] = c})
            /\ Hangup(c)
  /\ UNCHANGED <<config, inn, tmp, arc, out, flo, entries, files, sent, pkt,
                 item, bound, stranded>>

\* The entries that are not marked as sent, and the first of them.
Unsent(c) == {k \in DOMAIN entries[open[c]] : ~entries[open[c]][k].sent}
Line(c)   == CHOOSE k \in Unsent(c) : \A j \in Unsent(c) : k <= j
Current(c) == entries[open[c]][Line(c)].item

\* What an archive or a file on the disk consists of.
Content(x) == IF x[1] = "file" THEN {x[2]} ELSE arc[x[2]][x[3]]

\* The script sends the next entry.
Send(c) ==
  /\ pc[c] = "read" /\ Unsent(c) # {}
  /\ Content(Current(c)) # NONE
  /\ sent' = [x \in Pkt \cup File |->
                IF x \in Content(Current(c)) THEN sent[x] + 1 ELSE sent[x]]
  /\ Goto(c, "dispose")
  /\ UNCHANGED <<config, inn, tmp, arc, out, list, bsy, files, own, bound,
                 stranded>>

\* The script fails, of itself or because there is no such file: the FLO file
\* is closed and kept.
SendFails(c) ==
  /\ pc[c] = "read" /\ Unsent(c) # {}
  /\ IF Content(Current(c)) # NONE
       THEN fails < MaxFail /\ fails' = fails + 1 ELSE UNCHANGED fails
  /\ BsyDelete({node[c]})
  /\ Hangup(c)
  /\ UNCHANGED <<config, inn, tmp, arc, out, flo, entries, files, sent, pkt,
                 item, kills, stranded>>

\* BundleDisp: archives are truncated (mode '#').
Dispose(c) ==
  /\ pc[c] = "dispose"
  /\ LET x == Current(c) IN
     IF x[1] = "file" \/ arc[x[2]][x[3]] = NONE THEN UNCHANGED arc
     ELSE arc' = [arc EXCEPT ![x[2]][x[3]] = {}]
  /\ Goto(c, "mark")
  /\ UNCHANGED <<config, inn, tmp, out, list, bsy, files, sent, own, bound,
                 stranded>>

\* Mutant: the entry is not marked.
MarkNot(c) ==
  /\ pc[c] = "mark"
  /\ Goto(c, "read")
  /\ UNCHANGED <<config, inn, tmp, arc, out, list, bsy, files, sent, own, bound,
                 stranded>>

\* flo_mark()
Mark(c) ==
  /\ pc[c] = "mark"
  /\ entries' = [entries EXCEPT ![open[c]][Line(c)].sent = TRUE]
  /\ Goto(c, "read")
  /\ UNCHANGED <<config, inn, tmp, arc, out, flo, locked, bsy, files, sent, own,
                 bound, stranded>>

EndCallBusy(c) ==
  /\ pc[c] = "read" /\ Unsent(c) = {}
  /\ flo' = [flo EXCEPT ![node[c]] = NONE]
  /\ Hangup(c)
  /\ UNCHANGED <<config, inn, tmp, arc, out, entries, bsy, files, sent, pkt,
                 item, bound, stranded>>

\* The end of the FLO file: it is unlinked and closed, and so is the bsy file.
EndCall(c) ==
  /\ pc[c] = "read" /\ Unsent(c) = {}
  /\ flo' = [flo EXCEPT ![node[c]] = NONE]
  /\ BsyDelete({node[c]})
  /\ Hangup(c)
  /\ UNCHANGED <<config, inn, tmp, arc, out, entries, files, sent, pkt, item,
                 bound, stranded>>

-----------------------------------------------------------------------------
\* A process is killed.  Nobody looks for what it has left in out_dir, nor for
\* an archive or a file that it has not listed yet.
Kill(p) ==
  /\ pc[p] # "idle"
  /\ kills < MaxKill /\ kills' = kills + 1
  /\ BsyDelete({n \in Node : bsy[n] = p})
  /\ CloseFlo(p)
  /\ pkt' = [pkt EXCEPT ![p] = NONE]
  /\ node' = [node EXCEPT ![p] = NONE]
  /\ item' = [item EXCEPT ![p] = NONE]
  /\ stranded' = stranded \cup
       IF p \in Packer /\ (pkt[p] \in tmp
                           \/ pc[p] \in {"remove", "open", "lock", "attach"})
         THEN {pkt[p]} ELSE IF p \in Attacher THEN {item[p][2]} ELSE {}
  /\ Goto(p, "idle")
  /\ UNCHANGED <<config, inn, tmp, arc, out, flo, entries, files, sent, fails>>

Pack(q) == \/ TakePacket(q) \/ BusyTake(q) \/ BusySkip(q) \/ Search(q)
           \/ RenamePacket(q) \/ CopyPacket(q) \/ UnlinkPacket(q)
           \/ RunArchiver(q) \/ ArchiverFails(q) \/ RemoveTemp(q) \/ Release(q)
           \/ OpenOut(q) \/ CopyOut(q)

List(p) == OpenFlo(p) \/ LockFlo(p) \/ Attach(p)

Call(c) == \/ \E n \in Node : StartCall(c, n)
           \/ CallBusy(c) \/ CallOpen(c) \/ CallGone(c) \/ CallLock(c)
           \/ Send(c) \/ SendFails(c) \/ Dispose(c) \/ Mark(c) \/ EndCall(c)

Step(p) == Pack(p) \/ List(p) \/ Call(p) \/ \E n \in Node : StartAttach(p, n)

Next == \/ \E p \in Proc : Step(p) \/ Kill(p)
        \/ \E n \in Node : SendOut(n)

Spec == Init /\ [][Next]_vars

\* ftnpack and the mailer are started again and again, and nobody sleeps.
FairSpec == /\ Spec
            /\ \A p \in Proc : WF_vars(Step(p))
            /\ \A n \in Node : WF_vars(SendOut(n))

-----------------------------------------------------------------------------
Item    == {Archive(n, d) : n \in Node, d \in Digit} \cup {Plain(f) : f \in File}
Control == {"idle", "busy", "search", "rename", "unlink", "archive", "remove",
            "release", "open_out", "copy_out", "unlink_out", "open", "lock",
            "attach", "wait", "fopen", "flock", "read", "dispose", "mark"}

\* Every variable stays in its set; a FLO file is locked by a process that has
\* it open, and two nodes never share one.
TypeOK ==
  /\ inn \subseteq Pkt /\ tmp \subseteq Pkt /\ files \subseteq File
  /\ arc \in [Node -> [Digit -> {NONE} \cup SUBSET Pkt]]
  /\ outf \in [Node -> {NONE} \cup SUBSET Pkt] /\ torn \subseteq Node
  /\ flo \in [Node -> Inode \cup {NONE}]
  /\ \A i \in Inode : \A k \in DOMAIN entries[i] : entries[i][k].item \in Item
  /\ locked \in [Inode -> Proc \cup {NONE}]
  /\ bsy \in [Node -> Proc \cup {NONE}]
  /\ sent \in [Pkt \cup File -> Nat]
  /\ pc \in [Proc -> Control]
  /\ pkt \in [Proc -> Pkt \cup {NONE}] /\ node \in [Proc -> Node \cup {NONE}]
  /\ open \in [Proc -> Inode \cup {NONE}] /\ item \in [Proc -> Item \cup {NONE}]
  /\ stranded \subseteq Pkt \cup File
  /\ \A i \in Inode : locked[i] # NONE => open[locked[i]] = i
  /\ \A m, n \in Node : flo[m] = flo[n] => m = n \/ flo[m] = NONE

Packed(p, n, d) == arc[n][d] # NONE /\ p \in arc[n][d]

\* No packet is lost between ftnpack, the archiver and whoever sends archives
\* and truncates them: until it is sent it is whole in a directory of ftnpack,
\* in an archive or in an .OUT file, or do_noarc() is copying it.
NothingLost ==
  \A p \in config.pkts :
    \/ sent[p] > 0
    \/ p \in inn \cup tmp
    \/ \E q \in Packer : pkt[q] = p /\ pc[q] = "unlink"
    \/ \E n \in Node : \/ \E d \in Digit : Packed(p, n, d)
                       \/ outf[n] # NONE /\ p \in outf[n]

\* What is to be sent is in a FLO file that has a name until it is sent, however
\* ftnpack, ftnflo and bink_attach() interleave: an archive with mail that has
\* not been sent, unless ftnpack is about to list it or was killed before, and a
\* file that has been attached.
AllListed ==
  /\ \A p \in Pkt \ stranded, n \in Node, d \in Digit :
       Packed(p, n, d) /\ sent[p] = 0 =>
         \/ LET i == flo[config.flonode[p]] IN
            i # NONE /\ Listed(i, Archive(n, d))
         \/ \E q \in Packer : pkt[q] = p /\ pc[q] \in {"remove", "open", "lock",
                                                       "attach"}
  /\ \A f \in config.files \ files :
       \/ sent[f] > 0 \/ f \in stranded
       \/ \E n \in Node : flo[n] # NONE /\ Listed(flo[n], Plain(f))
       \/ \E t \in Attacher : item[t] = Plain(f)

\* Nothing is sent twice, unless a process has been killed: what is listed again
\* after it was sent, by ftnpack or because the script failed for an entry that
\* follows, has been marked and truncated.
SentOnce == kills = 0 => \A x \in Pkt \cup File : sent[x] <= 1

\* Every packet is sent in the end, although the node is busy, archivers and
\* scripts fail and archives get full, as long as nothing is killed and ftnpack
\* leaves nothing in out_dir.
Delivered ==
  \A p \in Pkt :
    p \in config.pkts => <>(sent[p] > 0 \/ p \in stranded \/ kills > 0)
=============================================================================
