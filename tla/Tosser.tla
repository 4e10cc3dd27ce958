------------------------------- MODULE Tosser -------------------------------
(***************************************************************************)
(* The life of the packets of the inbound directory: toss/ftntoss.c from   *)
(* main() over unpack_file() and unpack() to do_netmail() and              *)
(* do_echomail(), run after run.  A run reads the packets it finds, tosses *)
(* their messages into output packets, remembers the echomail messages in  *)
(* the MSGID history, and makes both durable at its end.  It may be        *)
(* interrupted by a signal, it may be killed, and calls may fail.          *)
(*                                                                         *)
(* The history and the output packets are seen here as HistoryDb and       *)
(* OutPkt show them to be: a set of keys loaded and written back as a      *)
(* whole, and messages that wait until outpkt_close().                     *)
(***************************************************************************)
EXTENDS PacketFormat, FiniteSets

CONSTANTS
  Pkt,         \* packets
  NONE,        \* no packet
  Inbounds,    \* contents of the packets, one of which the run uses
  Configs,     \* options and calls that may fail, one of which the run uses
  MaxStop,     \* bound: signals and kills
  MaxRetry     \* bound: .bad packets the operator makes .pkt again

\* What do_echomail() can hold against a message, in the order in which it
\* looks, before it asks the history and after; and what do_netmail() drops.
Before  == <<"no_origin", "password", "unknown", "no_msgid", "old">>
After   == <<"routed", "insecure", "circular", "state_W", "state_P">>
Netmail == <<"empty", "remapped">>

\* The Kill... option that decides whether such a message is dropped or put
\* into a bad packet.
Option(r) == CASE r \in {"no_origin", "password", "insecure"} -> "KillInsecure"
               [] r \in {"no_msgid", "old", "dupe"}           -> "KillDupe"
               [] r \in {"circular", "state_W"}               -> "KillCircular"
               [] r = "unknown"                               -> "KillUnknown"
               [] r = "routed"                                -> "KillRouted"
               [] r = "state_P"                               -> "none"

VARIABLES
  inbound,  \* of each packet: [header, msgs], and what is true of it: sender,
            \* password, and whether it is sound
  config,   \* [kill: Kill... options set, maxmsg, x_flag, faults, zone, own: own
            \* addresses, strict, passwords: [node, passwd]]
  disk,     \* the name of each packet: .pkt, .bad, or none any more
  history,  \* the MSGID history on the disk
  out,      \* entries <<packet, position, destination>> in output packets
  killed,   \* <<packet, position, reason>> of the messages dropped
  pc,
  todo,     \* packets dir_open() has found
  cur, pos, \* the packet and the message unpack() is at
  core,     \* the MSGID history in core
  buf,      \* entries of output packets not closed yet
  count,    \* msg_count
  must_exit, signal_exit, severe_error,
  stops, retries,
  forgotten,  \* keys of messages that are out and were not remembered
  hurt        \* keys of messages a failure has kept from some destination

given == <<inbound, config>>
ghost == <<forgotten, hurt>>
bound == <<stops, retries>>
run   == <<todo, cur, pos, core, count, must_exit, severe_error>>
vars  == <<given, disk, history, out, killed, pc, run, buf, signal_exit, bound,
           ghost>>

Init ==
  /\ inbound \in Inbounds
  /\ config \in Configs
  /\ disk = [p \in Pkt |-> "pkt"]
  /\ history = {} /\ out = {} /\ killed = {}
  /\ pc = "idle"
  /\ todo = {} /\ cur = NONE /\ pos = 0
  /\ core = {} /\ buf = {} /\ count = 0
  /\ must_exit = FALSE /\ signal_exit = FALSE /\ severe_error = FALSE
  /\ stops = 0 /\ retries = 0
  /\ forgotten = {} /\ hurt = {}

Fault(f) == f \in config.faults

Messages == UNION {{<<p, i>> : i \in DOMAIN inbound[p].msgs} : p \in Pkt}
Message(p, i) == inbound[p].msgs[i]
This == Message(cur, pos)

\* What do_echomail() holds against message m of packet p because of the
\* header of the packet: the sender has a password and has not given it, or is
\* not linked to the area.
From(p) == HdrFrom(inbound[p].header, config.zone)
PasswordOf(node) == {e.passwd : e \in {e \in config.passwords : e.node = node}}
OfSender(m, from, passwd) ==
  {r \in {"password"} : PasswordOf(from) \notin {{}, {passwd}}} \cup
  {r \in {"insecure"} : from \notin config.own \cup m.links}
Wrong(p, m) ==
  m.wrong \cup IF m.net THEN {}
              ELSE OfSender(m, From(p), HdrPasswd(inbound[p].header))

\* A bad packet, and the reply to a ping, as destinations.
BAD  == "bad"
PONG == "pong"

Entries(to) == {<<cur, pos, d>> : d \in to}
Keys(entries) == {Message(e[1], e[2]).key : e \in entries}

\* Mutant: a packet that could not be processed is removed.
RemoveBad(p) == disk' = [disk EXCEPT ![p] = "none"]

\* rename_bad(); when the rename fails the packet keeps its name.
RenameBad(p) == \/ disk' = [disk EXCEPT ![p] = "bad"]
                \/ Fault("rename") /\ UNCHANGED disk

\* outpkt_close(): the messages that wait are out, but for those of a packet
\* that cannot be closed.  missed are keys the caller could not write.
Publish(entries, missed) ==
  /\ buf' = {}
  /\ \E lost \in (IF Fault("close") THEN SUBSET entries ELSE {{}}) :
       /\ out' = out \cup (entries \ lost)
       /\ hurt' = hurt \cup Keys(lost) \cup missed

-----------------------------------------------------------------------------
\* main(): dir_open() reads the directory, hi_init_history() the history.
Start ==
  /\ pc = "idle"
  /\ \E p \in Pkt : disk[p] = "pkt"
  /\ todo' = {p \in Pkt : disk[p] = "pkt"}
  /\ core' = history
  /\ count' = 0
  /\ must_exit' = FALSE /\ signal_exit' = FALSE /\ severe_error' = FALSE
  /\ pc' = "next"
  /\ UNCHANGED <<given, disk, history, out, killed, cur, pos, buf, bound,
                 ghost>>

\* unpack_file(): the packet is opened and its header read.
OpenPacket(p) ==
  /\ pc = "next" /\ p \in todo
  /\ HdrReads(inbound[p].header)
  /\ todo' = todo \ {p}
  /\ cur' = p /\ pos' = 1
  /\ pc' = "unpack"
  /\ UNCHANGED <<given, disk, history, out, killed, core, buf, count, must_exit,
                 severe_error, signal_exit, bound, ghost>>

\* Mutant: a packet whose header cannot be read is passed over.
OpenSkips(p) ==
  /\ pc = "next" /\ p \in todo
  /\ ~HdrReads(inbound[p].header)
  /\ todo' = todo \ {p}
  /\ UNCHANGED <<given, disk, history, out, killed, pc, cur, pos, core, buf,
                 count, must_exit, severe_error, signal_exit, bound, ghost>>

\* The header cannot be read: .bad, and on to the next packet.
OpenFails(p) ==
  /\ pc = "next" /\ p \in todo
  /\ ~HdrReads(inbound[p].header)
  /\ RenameBad(p)
  /\ todo' = todo \ {p}
  /\ UNCHANGED <<given, history, out, killed, pc, cur, pos, core, buf, count,
                 must_exit, severe_error, signal_exit, bound, ghost>>

\* unpack() returns ERROR: the packet becomes .bad.  The run ends if there has
\* been a severe error, now or before.
GiveUp(severe) ==
  /\ RenameBad(cur)
  /\ cur' = NONE /\ pos' = 0
  /\ severe_error' = (severe_error \/ severe)
  /\ pc' = IF severe_error' \/ must_exit' THEN "close" ELSE "next"

\* What unpack() does once a message is dealt with, waiting being the messages
\* that wait in output packets: it ends the run when a signal has come; after
\* maxmsg messages it closes the output packets, or leaves that to the end of
\* the run, which comes after this packet (x_flag).
AfterMessage(waiting, missed) ==
  LET full  == config.maxmsg > 0 /\ count + 1 >= config.maxmsg
      close == signal_exit \/ (full /\ ~config.x_flag) IN
  /\ count' = IF full \/ signal_exit \/ config.maxmsg = 0 THEN 0 ELSE count + 1
  /\ must_exit' = (must_exit \/ (~signal_exit /\ full /\ config.x_flag))
  /\ IF close THEN Publish(waiting, missed)
              ELSE /\ buf' = waiting
                   /\ hurt' = hurt \cup missed
                   /\ UNCHANGED out
  /\ IF signal_exit THEN GiveUp(TRUE)
                    ELSE /\ pos' = pos + 1
                         /\ pc' = "unpack"
                         /\ severe_error' = (severe_error \/ missed # {})
                         /\ UNCHANGED <<disk, cur>>

\* The next message is there, and its header and text can be read.
Readable(m) == MsgHdrReads(m.head, config.strict) /\ m.readable
Reading == pc = "unpack" /\ pos \in DOMAIN inbound[cur].msgs /\ Readable(This)

Unreadable ==
  /\ pc = "unpack" /\ pos \in DOMAIN inbound[cur].msgs /\ ~Readable(This)
  /\ UNCHANGED must_exit
  /\ GiveUp(FALSE)
  /\ UNCHANGED <<given, history, out, killed, todo, core, buf, count,
                 signal_exit, bound, ghost>>

\* ping_generate_reply() writes the reply and closes all output packets; when
\* it cannot write it, nobody cares.
AnswerPing ==
  /\ Reading /\ This.net /\ This.ping
  /\ pc' = "ponged"
  /\ \/ Publish(buf \cup Entries({PONG}), {})
     \/ Fault("open") /\ UNCHANGED <<buf, out, hurt>>
  /\ UNCHANGED <<given, disk, history, killed, run, signal_exit, bound,
                 forgotten>>

\* The first of the reasons that holds against message m of this packet.
OK == "ok"
First(reasons, m) ==
  IF \A r \in Wrong(cur, m) : \A k \in DOMAIN reasons : reasons[k] # r THEN OK
  ELSE reasons[CHOOSE k \in DOMAIN reasons :
                 /\ reasons[k] \in Wrong(cur, m)
                 /\ \A j \in 1..k - 1 : reasons[j] \notin Wrong(cur, m)]

\* do_netmail()
NetmailTurn == \/ pc = "ponged"
               \/ Reading /\ This.net /\ ~This.ping

TossNetmail ==
  /\ NetmailTurn
  /\ LET drop == First(Netmail, This) IN
     IF drop = OK
       THEN UNCHANGED killed /\ AfterMessage(buf \cup Entries(This.to), {})
       ELSE /\ killed' = killed \cup {<<cur, pos, drop>>}
            /\ AfterMessage(buf, {})
  /\ UNCHANGED <<given, history, todo, core, signal_exit, bound, forgotten>>

\* do_echomail(): what is held against message m.  Whoever is linked has it
\* remembered when it is new, also if it is refused afterwards.
New(m) == First(Before, m) = OK /\ m.key \notin core

Refusal(m) ==
  LET before == First(Before, m)
  IN  IF before # OK THEN before
      ELSE IF m.key \in core THEN "dupe" ELSE First(After, m)

Remember(m) ==
  IF New(m) /\ "insecure" \notin Wrong(cur, m) THEN core \cup {m.key} ELSE core

\* What is written for it: to its downlinks, to a bad packet, or nothing.
Written(m) ==
  IF Refusal(m) = OK THEN Entries(m.to)
  ELSE IF Option(Refusal(m)) \in config.kill THEN {} ELSE Entries({BAD})

TossEchomail ==
  /\ Reading /\ ~This.net
  /\ core' = Remember(This)
  /\ killed' = IF Refusal(This) # OK /\ Written(This) = {}
                 THEN killed \cup {<<cur, pos, Refusal(This)>>}
                 ELSE killed
  /\ AfterMessage(buf \cup Written(This), {})
  /\ UNCHANGED <<given, history, todo, signal_exit, bound, forgotten>>

\* hi_write() fails: do_echomail() returns ERROR, which is not a severe one.
HistoryFails ==
  /\ Reading /\ ~This.net
  /\ Fault("history")
  /\ Remember(This) # core
  /\ count' = IF config.maxmsg = 0 THEN 0 ELSE count + 1
  /\ UNCHANGED must_exit
  /\ GiveUp(FALSE)
  /\ UNCHANGED <<given, history, out, killed, todo, core, buf, signal_exit,
                 bound, ghost>>

\* An output packet cannot be opened or written, after some of the entries
\* have been: a severe error.  do_unknown_area() has its result ignored.
WriteFails ==
  /\ Fault("open")
  /\ NetmailTurn \/ (Reading /\ ~This.net)
  /\ LET kept    == First(Netmail, This) = OK
         written == IF ~This.net THEN Written(This)
                    ELSE IF kept THEN Entries(This.to) ELSE {}
         unknown == ~This.net /\ Refusal(This) = "unknown" IN
     \E some \in SUBSET written \ {written} :
          IF unknown
            THEN AfterMessage(buf \cup some, {This.key})
            ELSE /\ buf' = buf \cup some
                 /\ hurt' = hurt \cup {This.key}
                 /\ count' = IF config.maxmsg = 0 THEN 0 ELSE count + 1
                 /\ UNCHANGED <<must_exit, out>>
                 /\ GiveUp(TRUE)
  /\ core' = IF This.net THEN core ELSE Remember(This)
  /\ UNCHANGED <<given, history, killed, todo, signal_exit, bound, forgotten>>

\* The end of the packet: it is unlinked.
EndPacket ==
  /\ pc = "unpack" /\ pos \notin DOMAIN inbound[cur].msgs
  /\ disk' = [disk EXCEPT ![cur] = "none"]
  /\ cur' = NONE /\ pos' = 0
  /\ pc' = IF must_exit THEN "close" ELSE "next"
  /\ UNCHANGED <<given, history, out, killed, todo, core, buf, count, must_exit,
                 severe_error, signal_exit, bound, ghost>>

UnlinkFails ==
  /\ pc = "unpack" /\ pos \notin DOMAIN inbound[cur].msgs
  /\ Fault("unlink")
  /\ RenameBad(cur)
  /\ cur' = NONE /\ pos' = 0
  /\ pc' = "close"
  /\ UNCHANGED <<given, history, out, killed, todo, core, buf, count, must_exit,
                 severe_error, signal_exit, bound, ghost>>

EndLoop ==
  /\ pc = "next" /\ todo = {}
  /\ pc' = "close"
  /\ UNCHANGED <<given, disk, history, out, killed, run, buf, signal_exit,
                 bound, ghost>>

\* Mutant: a run that ends early leaves without hi_close().
CloseUnlessEarly ==
  /\ pc = "close"
  /\ history' = IF todo = {} THEN core ELSE history
  /\ pc' = "flush"
  /\ UNCHANGED <<given, disk, out, killed, run, buf, signal_exit, bound, ghost>>

\* hi_close() writes the index back.
CloseHistory ==
  /\ pc = "close"
  /\ history' = core
  /\ pc' = "flush"
  /\ UNCHANGED <<given, disk, out, killed, run, buf, signal_exit, bound, ghost>>

\* outpkt_close() and the end of ftntoss, however it came to it.
Flush ==
  /\ pc = "flush"
  /\ Publish(buf, {})
  /\ pc' = "idle" /\ todo' = {} /\ core' = {} /\ count' = 0
  /\ must_exit' = FALSE /\ severe_error' = FALSE /\ signal_exit' = FALSE
  /\ UNCHANGED <<given, disk, history, killed, cur, pos, bound, forgotten>>

-----------------------------------------------------------------------------
\* SIGINT, SIGHUP or SIGQUIT: prog_signal() sets a flag.
Signal ==
  /\ pc # "idle" /\ ~signal_exit
  /\ stops < MaxStop /\ stops' = stops + 1
  /\ signal_exit' = TRUE
  /\ UNCHANGED <<given, disk, history, out, killed, pc, run, buf, retries,
                 ghost>>

\* ftntoss is killed.  What waits is lost; that hurts a message whose packet
\* is gone or whose key is in the history.  Keys of this run are forgotten.
Kill ==
  /\ pc # "idle"
  /\ stops < MaxStop /\ stops' = stops + 1
  /\ hurt' = hurt \cup Keys({e \in buf : disk[e[1]] = "none"
                                       \/ Message(e[1], e[2]).key \in history})
  /\ forgotten' = forgotten \cup ((core \ history) \cap Keys(out))
  /\ buf' = {} /\ todo' = {} /\ cur' = NONE /\ pos' = 0 /\ core' = {}
  /\ count' = 0 /\ must_exit' = FALSE /\ severe_error' = FALSE
  /\ signal_exit' = FALSE
  /\ pc' = "idle"
  /\ UNCHANGED <<given, disk, history, out, killed, retries>>

\* The operator has a .bad packet tried again.
Retry(p) ==
  /\ disk[p] = "bad"
  /\ retries < MaxRetry /\ retries' = retries + 1
  /\ disk' = [disk EXCEPT ![p] = "pkt"]
  /\ UNCHANGED <<given, history, out, killed, pc, run, buf, signal_exit, stops,
                 ghost>>

Work == \/ Start \/ \E p \in Pkt : OpenPacket(p) \/ OpenFails(p)
        \/ Unreadable \/ AnswerPing \/ TossNetmail \/ TossEchomail
        \/ HistoryFails \/ WriteFails
        \/ EndPacket \/ UnlinkFails \/ EndLoop \/ CloseHistory \/ Flush

Next == Work \/ Signal \/ Kill \/ \E p \in Pkt : Retry(p)

\* ftntoss is started again and again, by cron or by runinc, and runs.
Spec == Init /\ [][Next]_vars /\ WF_vars(Work)

-----------------------------------------------------------------------------
Key == {Message(x[1], x[2]).key : x \in Messages}

\* Every variable stays in its set; unpack() is at a packet that is there and
\* no longer waits for its turn, and outside a run nothing is left open.
TypeOK ==
  /\ disk \in [Pkt -> {"pkt", "bad", "none"}]
  /\ history \subseteq Key /\ core \subseteq Key
  /\ forgotten \subseteq Key /\ hurt \subseteq Key
  /\ \A e \in out \cup buf \cup killed : <<e[1], e[2]>> \in Messages
  /\ pc \in {"idle", "next", "unpack", "ponged", "close", "flush"}
  /\ todo \subseteq Pkt /\ count \in Nat
  /\ IF pc \in {"unpack", "ponged"} THEN disk[cur] = "pkt" /\ cur \notin todo
                                     ELSE cur = NONE
  /\ {must_exit, signal_exit, severe_error} \subseteq BOOLEAN
  /\ stops \in 0..MaxStop /\ retries \in 0..MaxRetry
  /\ pc = "idle" => buf = {} /\ todo = {} /\ ~signal_exit /\ ~must_exit

\* A message that is still in a packet of the inbound directory, has gone to
\* all its destinations or to a bad packet, was dropped for what it is, or is
\* one that a failure has hurt.
Kept(p, i) ==
  LET m == Message(p, i) IN
  \/ disk[p] # "none"
  \/ \A d \in m.to : <<p, i, d>> \in out \cup buf
  \/ <<p, i, BAD>> \in out \cup buf
  \/ \E r \in {k[3] : k \in killed} \ {"dupe"} : <<p, i, r>> \in killed
  \/ m.key \in hurt

\* Nothing is refused, and no packet set aside, for what is not so: whatever
\* kind of header the sender writes, it is the sender of its messages.
Truly(p, m) == m.wrong \cup IF m.net THEN {}
                           ELSE OfSender(m, inbound[p].sender, inbound[p].passwd)
Trouble == config.faults # {} \/ stops > 0 \/ retries > 0 \* what makes it try again
Same(m) == {y \in Messages : Message(y[1], y[2]).key = m.key}
RightlyRefused ==
  /\ \A k \in killed : k[3] \in Truly(k[1], Message(k[1], k[2])) \cup {"dupe"}
  /\ \A e \in out : LET m == Message(e[1], e[2])
                    IN  e[3] = BAD => Truly(e[1], m) # {} \/ Trouble \/ Same(m) # {<<e[1], e[2]>>}
  /\ \A p \in Pkt : disk[p] = "bad" =>
       ~inbound[p].sound \/ Trouble

\* No message is lost, whatever errors, signals, kills and retries there are:
\* it is kept, or was dropped as the dupe of one that is kept (ftntoss.c:1765,
\* packet.c:738).
NothingLost ==
  /\ \A x \in Messages :
       \/ Kept(x[1], x[2])
       \/ /\ <<x[1], x[2], "dupe">> \in killed
          /\ \E y \in Same(Message(x[1], x[2])) : Kept(y[1], y[2])
  /\ RightlyRefused

Tossed == {e \in out \cup buf :
             ~Message(e[1], e[2]).net /\ e[3] \notin {BAD, PONG}}

\* No echomail message is tossed twice, in the same run or in another, from the
\* same packet tried again or from another packet, unless ftntoss was killed
\* after it had closed output packets and before it had written the history.
TossedOnce ==
  [][\A k \in core' \ core : pc = "unpack" =>
       k \notin Keys(Tossed) \/ k \in forgotten]_vars

\* The inbound directory is emptied: however often a packet fails, and whatever
\* waits behind it, ftntoss ends up with no packet it would have to try again,
\* as long as it can rename the bad ones.
Emptied == Fault("rename") \/ <>[](\A p \in Pkt : disk[p] # "pkt")
=============================================================================
