------------------------------- MODULE OutPkt -------------------------------
(***************************************************************************)
(* The output packets of one process of ftntoss, ftnroute or areafix:      *)
(* common/outpkt.c.  A list of entries, at most MaxOpen of them with an    *)
(* open stream, the .tmp files behind them, and the .pkt files that        *)
(* outpkt_close() turns those into.  stdio keeps what is written in a      *)
(* buffer until it flushes it; a process that is killed loses the buffer.  *)
(***************************************************************************)
EXTENDS Integers, Sequences, FiniteSets

CONSTANTS
  Key,        \* destinations: from, to, grade, type, flavour, bad
  MaxOpen,    \* outpkt_maxopen: -M or MaxOpenFiles
  MaxMsg,     \* bound: messages written
  MaxLoss,    \* bound: times the process is killed, and calls that fail
  Faults      \* calls that may fail: "fopen", "fclose", "write"

ASSUME ConstantsAssumption ==
  /\ MaxOpen \in Nat \ {0}
  /\ MaxMsg \in Nat
  /\ MaxLoss \in Nat

HDR == -1   \* the header of a packet
END == -2   \* the 0-word that ends it
CUT == -3   \* the place where a failed write left off

VARIABLES
  list,      \* outpkt_first .. outpkt_last
  nopen,     \* outpkt_nopen
  pc,
  cur,       \* the entry p a call of outpkt_open() or outpkt_close() is at
  closing,   \* inside outpkt_close()
  mode,      \* the mode outpkt_fopen() is called with
  failed,    \* severe_error: the caller takes no further message
  tmp,       \* contents of each .tmp file that exists
  pkt,       \* contents of each .pkt file
  nseq,      \* packet numbers given out by the sequencer
  nmsg,      \* messages handed over so far
  crashes,   \* times the process was killed
  faults     \* calls that have failed

vars == <<list, nopen, pc, cur, closing, mode, failed, tmp, pkt, nseq, nmsg,
          crashes, faults>>
disk == <<tmp, pkt>>

NULL == "NULL"
OPEN == "open"

Entry == [key : Key, seq : Nat, n : Nat, fp : {NULL, OPEN},
          buf : Seq(Int)]

Init ==
  /\ list = <<>>  /\ nopen = 0
  /\ pc = "idle"  /\ cur = 0  /\ closing = FALSE  /\ mode = "w"
  /\ failed = FALSE
  /\ tmp = <<>>  /\ pkt = <<>>
  /\ nseq = 0  /\ nmsg = 0  /\ crashes = 0  /\ faults = 0

\* A call succeeds, or fails and is counted.
Outcome(call, ok) ==
  /\ ok \/ (call \in Faults /\ crashes + faults < MaxLoss)
  /\ faults' = IF ok THEN faults ELSE faults + 1

Open      == {i \in DOMAIN list : list[i].fp = OPEN}
Exists(s) == s \in DOMAIN tmp

SetTmp(s, c) == tmp' = [t \in DOMAIN tmp \cup {s} |-> IF t = s THEN c ELSE tmp[t]]

\* The search at the top of outpkt_open().
Find(k) == {i \in DOMAIN list : list[i].key = k}

\* outpkt_open() of a destination that has an entry: its stream, if open.
OpenFound(k) ==
  /\ pc = "idle" /\ ~failed /\ nmsg < MaxMsg
  /\ \E i \in Find(k) :
       /\ list' = [list EXCEPT ![i].n = @ + 1]
       /\ cur' = i
       /\ pc' = IF list[i].fp = NULL THEN "fopen" ELSE "write"
  /\ mode' = "a"
  /\ UNCHANGED <<nopen, closing, failed, disk, nseq, nmsg, crashes, faults>>

\* outpkt_new() and outpkt_names() of a destination that has none.
OpenNew(k) ==
  /\ pc = "idle" /\ ~failed /\ nmsg < MaxMsg
  /\ Find(k) = {}
  /\ nseq' = nseq + 1
  /\ list' = Append(list, [key |-> k, seq |-> nseq', n |-> 1, fp |-> NULL,
                           buf |-> <<>>])
  /\ cur' = Len(list')
  /\ mode' = "w"
  /\ pc' = "fopen"
  /\ UNCHANGED <<nopen, closing, failed, disk, nmsg, crashes, faults>>

\* outpkt_open() returns NULL, or outpkt_close() leaves the packet out.
FopenFails ==
  /\ pc' = IF closing THEN "free" ELSE "idle"
  /\ failed' = (failed \/ ~closing)

\* fclose() of entry i: the buffer reaches the file, or some of it is lost.
Flush(i, ok) ==
  LET e == list[i] IN
  IF Exists(e.seq)
    THEN SetTmp(e.seq, tmp[e.seq] \o (IF ok THEN e.buf ELSE <<CUT>>))
    ELSE UNCHANGED tmp

\* The entry outpkt_close_ln() closes: the last of those with the least n.
LeastN(i) == /\ i \in Open
             /\ \A j \in Open : \/ list[i].n < list[j].n
                                \/ (list[i].n = list[j].n /\ j <= i)

\* Mutant: an error of fclose() is returned before the stream is counted.
CloseLnNoCount ==
  /\ pc = "fopen" /\ nopen >= MaxOpen
  /\ \E i \in Open, ok \in BOOLEAN :
       /\ LeastN(i)
       /\ Outcome("fclose", ok)
       /\ Flush(i, ok)
       /\ list' = [list EXCEPT ![i].fp = NULL, ![i].buf = <<>>]
       /\ nopen' = IF ok THEN nopen - 1 ELSE nopen
       /\ IF ok THEN UNCHANGED <<pc, failed>> ELSE FopenFails
  /\ UNCHANGED <<cur, closing, mode, pkt, nseq, nmsg, crashes>>

\* outpkt_close_ln(), called by outpkt_fopen() as long as the limit is
\* reached; an error of fclose() is returned, and outpkt_fopen() gives up.
CloseLn ==
  /\ pc = "fopen" /\ nopen >= MaxOpen
  /\ \/ /\ Open = {}
        /\ FopenFails
        /\ UNCHANGED <<list, nopen, tmp, faults>>
     \/ \E i \in Open, ok \in BOOLEAN :
          /\ LeastN(i)
          /\ Outcome("fclose", ok)
          /\ Flush(i, ok)
          /\ list' = [list EXCEPT ![i].fp = NULL, ![i].buf = <<>>]
          /\ nopen' = nopen - 1
          /\ IF ok THEN UNCHANGED <<pc, failed>> ELSE FopenFails
  /\ UNCHANGED <<cur, closing, mode, pkt, nseq, nmsg, crashes>>

\* Mutant: the file is truncated whatever the mode.
FopenTruncates ==
  /\ pc = "fopen" /\ nopen < MaxOpen
  /\ nopen' = nopen + 1
  /\ list' = [list EXCEPT ![cur].fp = OPEN, ![cur].buf = <<HDR>>]
  /\ SetTmp(list[cur].seq, <<>>)
  /\ pc' = IF closing THEN "close" ELSE "write"
  /\ UNCHANGED <<cur, closing, mode, failed, pkt, nseq, nmsg, crashes, faults>>

\* fopen() in outpkt_fopen(): "w" truncates, "a" creates a missing file.
\* outpkt_open() then writes the header of a new packet; pkt_put_hdr()
\* returns ferror(), which never equals ERROR.
Fopen ==
  /\ pc = "fopen" /\ nopen < MaxOpen
  /\ \/ /\ Outcome("fopen", FALSE)
        /\ FopenFails
        /\ UNCHANGED <<list, nopen, tmp>>
     \/ /\ Outcome("fopen", TRUE)
        /\ nopen' = nopen + 1
        /\ list' = [list EXCEPT ![cur].fp = OPEN,
                                ![cur].buf = IF mode = "w" THEN <<HDR>> ELSE <<>>]
        /\ IF mode = "w" \/ ~Exists(list[cur].seq)
             THEN SetTmp(list[cur].seq, <<>>) ELSE UNCHANGED tmp
        /\ pc' = IF closing THEN "close" ELSE "write"
        /\ UNCHANGED failed
  /\ UNCHANGED <<cur, closing, mode, pkt, nseq, nmsg, crashes>>

\* The caller writes a message.  stdio may write its buffer to the file now or
\* keep it; a write that fails is noticed by ferror(), and the caller stops.
Write ==
  /\ pc = "write" /\ list[cur].fp = OPEN
  /\ \E flush, ok \in BOOLEAN :
       LET e == list[cur]
           data == Append(e.buf, IF ok THEN nmsg + 1 ELSE CUT)
       IN
       /\ Outcome("write", ok)
       /\ IF flush /\ Exists(e.seq)
            THEN SetTmp(e.seq, tmp[e.seq] \o data) ELSE UNCHANGED tmp
       /\ list' = [list EXCEPT ![cur].buf = IF flush THEN <<>> ELSE data]
       /\ failed' = ~ok
  /\ nmsg' = nmsg + 1
  /\ pc' = "idle"
  /\ UNCHANGED <<nopen, cur, closing, mode, pkt, nseq, crashes>>

\* outpkt_close() begins.
StartClose ==
  /\ pc = "idle" /\ list # <<>>
  /\ closing' = TRUE
  /\ cur' = 1
  /\ pc' = "next"
  /\ UNCHANGED <<list, nopen, mode, failed, disk, nseq, nmsg, crashes, faults>>

\* Mutant: an entry that is not open is not written to any more.
NextEntrySkips ==
  /\ pc = "next" /\ cur <= Len(list)
  /\ mode' = "a"
  /\ pc' = IF list[cur].fp = NULL THEN "free" ELSE "close"
  /\ UNCHANGED <<list, nopen, cur, closing, failed, disk, nseq, nmsg, crashes, faults>>

\* The next entry: reopened first, if outpkt_close_ln() has closed it.
NextEntry ==
  /\ pc = "next" /\ cur <= Len(list)
  /\ mode' = "a"
  /\ pc' = IF list[cur].fp = NULL THEN "fopen" ELSE "close"
  /\ UNCHANGED <<list, nopen, cur, closing, failed, disk, nseq, nmsg, crashes, faults>>

\* Mutant: the 0-word is written only if the file had to be reopened.
CloseEntryNoEnd ==
  /\ pc = "close" /\ list[cur].fp = OPEN
  /\ SetTmp(list[cur].seq, tmp[list[cur].seq] \o list[cur].buf)
  /\ list' = [list EXCEPT ![cur].fp = NULL, ![cur].buf = <<>>]
  /\ nopen' = nopen - 1
  /\ pc' = "rename"
  /\ UNCHANGED <<cur, closing, mode, failed, pkt, nseq, nmsg, crashes, faults>>

\* The 0-word, and fclose(), whose error is only logged.
CloseEntry ==
  /\ pc = "close" /\ list[cur].fp = OPEN
  /\ \E ok \in BOOLEAN :
       /\ Outcome("fclose", ok)
       /\ LET e == list[cur] IN
          SetTmp(e.seq, tmp[e.seq] \o (IF ok THEN Append(e.buf, END) ELSE <<CUT>>))
  /\ list' = [list EXCEPT ![cur].fp = NULL, ![cur].buf = <<>>]
  /\ nopen' = nopen - 1
  /\ pc' = "rename"
  /\ UNCHANGED <<cur, closing, mode, failed, pkt, nseq, nmsg, crashes>>

\* rename(tmpname, outname)
Rename ==
  /\ pc = "rename"
  /\ LET s == list[cur].seq IN
     /\ pkt' = [t \in DOMAIN pkt \cup {s} |->
                  IF t = s THEN [key |-> list[cur].key, data |-> tmp[s]]
                           ELSE pkt[t]]
     /\ tmp' = [t \in DOMAIN tmp \ {s} |-> tmp[t]]
  /\ pc' = "free"
  /\ UNCHANGED <<list, nopen, cur, closing, mode, failed, nseq, nmsg, crashes, faults>>

\* The entry is freed; outpkt_first still points to the first of the list.
Free ==
  /\ pc = "free"
  /\ cur' = cur + 1
  /\ pc' = "next"
  /\ UNCHANGED <<list, nopen, closing, mode, failed, disk, nseq, nmsg, crashes, faults>>

EndClose ==
  /\ pc = "next" /\ cur > Len(list)
  /\ list' = <<>>
  /\ nopen' = 0
  /\ closing' = FALSE
  /\ cur' = 0
  /\ pc' = "idle"
  /\ UNCHANGED <<mode, failed, disk, nseq, nmsg, crashes, faults>>

\* The process is killed, and the program is started again some time later:
\* nothing looks at the .tmp files it has left behind.
Crash ==
  /\ crashes + faults < MaxLoss
  /\ crashes' = crashes + 1
  /\ list' = <<>> /\ nopen' = 0
  /\ pc' = "idle" /\ cur' = 0 /\ closing' = FALSE /\ mode' = "w"
  /\ failed' = FALSE
  /\ UNCHANGED <<disk, nseq, nmsg, faults>>

\* Every message was handed over, or the caller gave up, and all is written.
Done ==
  /\ pc = "idle" /\ list = <<>> /\ (failed \/ nmsg = MaxMsg)
  /\ UNCHANGED vars

Step == \/ \E k \in Key : OpenFound(k) \/ OpenNew(k)
        \/ CloseLn \/ Fopen \/ Write
        \/ StartClose \/ NextEntry \/ CloseEntry \/ Rename \/ Free \/ EndClose

Next == Step \/ Crash \/ Done

Spec == Init /\ [][Next]_vars

\* The process runs on, and every program that writes packets ends with a
\* call of outpkt_close().
FairSpec == Spec /\ WF_vars(Step)

-----------------------------------------------------------------------------
TypeOK ==
  /\ list \in Seq(Entry)
  /\ nopen \in Int
  /\ pc \in {"idle", "fopen", "write", "next", "close", "rename", "free"}
  /\ cur \in 0 .. Len(list) + 1
  /\ closing \in BOOLEAN /\ mode \in {"w", "a"} /\ failed \in BOOLEAN
  /\ \A s \in DOMAIN tmp : s \in 1 .. nseq /\ tmp[s] \in Seq(Int)
  /\ \A s \in DOMAIN pkt : s \in 1 .. nseq /\ pkt[s] \in [key : Key, data : Seq(Int)]
  /\ nseq \in Nat /\ nmsg \in 0 .. MaxMsg
  /\ crashes \in 0 .. MaxLoss /\ faults \in 0 .. MaxLoss

\* outpkt_nopen is the number of streams that are open ("Currently opened
\* files"), whatever fails, and the limit is kept.
OpenFilesCounted ==
  /\ nopen = Cardinality(Open)
  /\ nopen <= MaxOpen

\* outpkt_close() frees entry after entry while outpkt_first still names the
\* first one: once one is freed, nothing may make outpkt_close_ln() walk the
\* list, that is, no reopening may find the limit reached.
FreedListNotWalked ==
  closing /\ cur > 1 /\ pc = "fopen" => nopen < MaxOpen

\* Two entries never share a destination or a file, so no two streams write to
\* one packet.
OneEntryPerPacket ==
  \A i, j \in DOMAIN list :
    i # j => list[i].key # list[j].key /\ list[i].seq # list[j].seq

IsPacket(c) ==
  /\ Len(c) >= 3
  /\ c[1] = HDR /\ c[Len(c)] = END
  /\ \A i \in 2 .. Len(c) - 1 : c[i] \in 1 .. MaxMsg

\* Whoever finds a .pkt file finds a whole packet: its header, at least one
\* message and the 0-word, even if the writer is killed.  (A failing fclose() or
\* fopen() does let other files through.)
PublishedComplete ==
  faults = 0 => \A s \in DOMAIN pkt : IsPacket(pkt[s].data)

\* Every message handed over reaches an output packet once the caller has
\* called outpkt_close(), as every caller does, unless it is killed or a call
\* fails.
EverythingPublished ==
  \A m \in 1 .. MaxMsg :
    nmsg >= m ~> \/ crashes + faults > 0
                 \/ \E s \in DOMAIN pkt, i \in 1 .. MaxMsg + 1 :
                      i \in DOMAIN pkt[s].data /\ pkt[s].data[i] = m

-----------------------------------------------------------------------------
\* Refinement of PacketSpool: what waits is what an entry's file and buffer
\* hold, and the packets of a destination are its .pkt files by number.
Messages(c) ==
  LET f[i \in 0 .. Len(c)] ==
        IF i = 0 THEN <<>>
        ELSE IF c[i] > 0 THEN Append(f[i - 1], c[i]) ELSE f[i - 1]
  IN f[Len(c)]

Waiting(k) == {i \in Find(k) : \/ ~closing
                                \/ cur < i
                                \/ (cur = i /\ pc # "free")}

Held(i) == LET e == list[i] IN
           IF Exists(e.seq) THEN Messages(tmp[e.seq] \o e.buf) ELSE <<>>

PendingOf(k) ==
  IF Waiting(k) = {} THEN <<>> ELSE Held(CHOOSE i \in Waiting(k) : TRUE)

Packets(k) == {s \in DOMAIN pkt : pkt[s].key = k}
Nth(S, i)  == {s \in S : Cardinality({t \in S : t <= s}) = i}

PublishedOf(k) ==
  [i \in 1 .. Cardinality(Packets(k)) |->
     Messages(pkt[CHOOSE s \in Nth(Packets(k), i) : TRUE].data)]

Spool == INSTANCE PacketSpool WITH
  Msg <- 1 .. MaxMsg, losses <- crashes + faults,
  pending <- [k \in Key |-> PendingOf(k)],
  published <- [k \in Key |-> PublishedOf(k)]

\* Every call of outpkt_open(), with the evictions it causes, and of
\* outpkt_close() does what PacketSpool says: nothing is lost but by a crash or
\* a failing call, and nothing is mixed up or reordered at all.
ImplementsSpool == Spool!Spec
=============================================================================
