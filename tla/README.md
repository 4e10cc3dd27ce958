# TLA+ models of FIDOGATE

FIDOGATE is a gateway and tosser for FidoNet: it takes mail packets from a
mailer's inbound directory, tosses, routes and packs them for other systems,
and converts messages to and from Internet mail and news. It is a set of short
C programs (`src/src/`) that cron or `runinc` start one after the other and
that share nothing but files: packets, a history of message IDs, `areas.bbs`,
the outbound directories, and lock files. No program of it runs for long, and
there are no threads. What is hard to test is in the files: programs that
overlap, programs that are killed between two changes, calls that fail when
others have been made, and texts that one program writes and another reads.

The modules in this directory model those parts. All line numbers are those of
`src/src/` unless a path says otherwise.

## 1. Inventory

| Part | State it keeps | Operations | Model |
|---|---|---|---|
| Lock files, `common/lock.c` | a file per lock with the pid of its owner | `lock_lockfile()`, `check_stale_lock()`, `unlock_lockfile()` | `LockFile`, `Mutex` |
| Output packets, `common/outpkt.c` | list of packets of one process, their streams, `.tmp` and `.pkt` files | `outpkt_open()`, `outpkt_fopen()`, `outpkt_close_ln()`, `outpkt_close()` | `OutPkt`, `PacketSpool` |
| Packets, `common/packet.c` | the bytes of a file | `pkt_put_hdr()`, `pkt_get_hdr()`, `pkt_put_msg_hdr()`, `pkt_get_msg_hdr()`, `pkt_get_line()` | `PacketFormat` |
| Echomail distribution, `toss/ftntoss.c` 300-720, 870-1160 | SEEN-BY and ^APATH lines in the messages, the MSGID history | `do_seenby()`, `do_path()`, `do_4dpoint()`, `do_check_path()`, `do_deletepath()`, `toss_echomail()` | `EchoMail`, `EchoNet` |
| Message history, `common/histdb.c`, `common/dbz.c`, `toss/ftnexpire.c` | a text file with one line per key, its index `.dir`/`.pag` | `hi_init()`, `hi_test()`, `hi_write()`, `hi_close()`, `do_expire()` | `HistoryDb` |
| Tosser, `toss/ftntoss.c` | inbound packets `.pkt`/`.bad`, all of the above | `main()`, `unpack_file()`, `unpack()`, `do_netmail()`, `do_echomail()`, `do_rewrite()`, `do_remap()` | `Tosser`; the rules in `Routing` |
| Router, `toss/ftnroute.c`, `common/routing.c` | packets of the routing queue, output packets, the table of the ROUTING file | `do_routing()`, `do_move()`, `do_packet()`, `do_repack()` | `Routing`, `Router` |
| Scheduler, `toss/runinc.c` | the inbound directory, its directory `tmpunpack` | `unpack()`, `run_toss()`, `do_dir()` | `Runinc` |
| Packer, `toss/ftnpack.c` | packets of in_dir and out_dir, archives, `.OUT` files | `do_pack()`, `do_arcmail()`, `arcmail_search()`, `do_noarc()` | `Outbound` |
| Binkley outbound, `common/flo.c`, `common/binkley.c`, `util/ftnflo.c` | FLO files with entries, bsy files | `flo_openx()`, `flo_mark()`, `flo_close()`, `bink_attach()`, `bink_bsy_create()` | `Outbound` |
| Lists of nodes, `common/node.c` | none | reading, matching, printing in short form | `Routing`, `AreasFile` |
| `areas.bbs`, `common/areasbbs.c` | the list of areas, its saved files | `areasbbs_init()`, `areasbbs_rewrite()`, the lines | `AreasBbs`, `AreasFile` |
| Areafix, filefix, `areafix/*.c`, `common/uplinks.c` | the links and the state of each area, requests to uplinks, answers | all commands of a message; `ftnafpkt`; expire, delete, resubscribe of `ftnafutil` | `Areafix`, `FixCommands`, `FixMail` |
| File areas, `tick/*.c` | TIC files, file areas, file boxes, the TIC history | `process_tic()`, `do_tic()`, `tick_send()`, `ftnhatch` | `Tick`; the dupe check also in `HistoryDb` |
| Gateway FTN to RFC, `gate/ftn2rfc.c`, `gate/ftninpost.c` | mails and news batches, `mail_to` | `unpack()`, `mail_open()`, `mail_close()`; `do_dir()` of ftninpost | `GateIn` |
| Gateway RFC to FTN, `gate/rfc2ftn.c` | a packet, the position in a list file, the access list | `snd_mail()`, `snd_message()`, `snd_to_cc_bcc()` | `GateOut` |
| Message-ID database, `common/msgid.c` | pairs of Message-ID and MSGID | `s_msgid_fido_to_rfc()`, `s_msgid_rfc_to_fido()`, `msgid_dbc_fetch()`, `msgid_dbc_save()` | `GateText`, `Gate` |
| Texts and kludges, `common/message.c` | none | `pkt_get_body_parse()` | `GateText` |
| Addresses, `common/address.c`, `hosts.c`, `rfcaddr.c`, `aliases.c` | none | `str_ftn_to_inet()`, `inet_to_ftn()`, `rfcaddr_from_ftn()`, `alias_lookup()` | `Addresses` |
| Access control, `common/acl.c`, `bounce.c` | the list of one sender | `acl_lookup()`, `list_match()`, `bounce_mail()` | in `GateIn`, `GateOut` |
| Sequencer, `common/sequencer.c` | a number in a file | `sequencer_nx()` | not modelled |
| MIME, headers, character sets, configuration, dates, memory | none | parsing and formatting | not modelled |
| `ftn2ftn`, tools | none of their own | single commands | not modelled |

`PROJECT.json` lists every part, with its files, and says for each what is left
out.

### How the parts interact

* `runinc` starts `ftntoss`, `ftnroute` and `ftnpack` in this order under a lock
  of its own (`toss/runinc.c` 565-605, 880-916); the mailer, `ftntick`,
  `ftnexpire`, `areafix` and `rfc2ftn` come at any time. It also runs
  `ftnroute` without a lock, so that one started by cron, with `-p`, works on
  the same directories beside it.
* `ftntoss` holds `areas.bbs.lock` from its start to its end (2122-2126, 2315)
  and takes the history lock on top of it (2180). It writes all packets through
  `outpkt.c`, and so do `ftnroute` and `areafix`.
* `ftntick` holds the lock of its name, and the history lock twice for each
  TIC file: for the test and for the write.
* `ftnexpire` takes nothing but the history lock and replaces text and index.
* `ftnpack`, `tick_send()`, `ftnfattach` and `rfc2ftn` add entries to FLO files;
  `ftnflo` and the mailer take them away. A bsy file per node, which
  `lock_lockfile()` creates, and an `fcntl()` lock on the FLO file keep them
  apart.
* `ftntoss` hands messages for areafix to `ftnafpkt` as packets. That answers
  by netmail and asks uplinks by netmail before it rewrites `areas.bbs`.
* `rfc2ftn` writes what it has sent under which MSGID to the Message-ID
  database; `ftn2rfc` looks there for what a reply answers. `ftn2rfc` leaves
  files to `ftninpost`, which calls sendmail and rnews.

### What is hard, and what makes it correct

The 40 entries of `hazards` in `PROJECT.json` are the places, each at its line,
with the properties that watch them. By part:

* **Lock files.** The test for the file, the unlinking of a stale one and the
  creation are three calls, with nothing atomic about them. Correct would be at
  most one owner, and no lock broken but a dead one's. The code has neither;
  what holds is that a lock everybody has seen stays, and that nothing but
  the two races between those calls makes a second owner.
* **Output packets.** Streams are closed and reopened when too many are open,
  in the middle of a list that is being freed; calls fail; the process is
  killed. Correct is: the messages of a destination come out in order, in one
  packet that appears whole, or not at all.
* **Echomail.** Copies of a message race each other through cycles of links.
  Correct is: everybody linked gets it, once, and the copies die out, though
  packets are lost, come twice, or have SEEN-BYs deleted.
* **History.** The index is loaded, changed in core and written back as a whole
  by programs that overlap with `ftnexpire` and with each other. Correct is: no
  key is let through twice and none is lost from the index.
* **Tosser.** An inbound packet is unlinked, a key is remembered and a message
  is published at three different times, with errors, signals and kills in
  between. Correct is: no message is lost, none is tossed twice, and the
  inbound directory is emptied.
* **Routing.** A message goes from the inbound through an archive, three
  directories and three programs, each of which unlinks or renames what the
  next one needs; one program closes a stream that belongs to a library; a
  second instance takes netmail back out of the outbound at the same time.
  Correct is: no message is lost, none is copied, each waits for the node that
  the rules of the ROUTING file name, and all are sent.
* **Outbound.** Archives are filled, listed, sent, truncated and listed again by
  different programs. Correct is: nothing is truncated before it was sent,
  whatever is to be sent is listed, and it is sent once.
* **areas.bbs.** The file is read when a program starts and replaced as a whole
  when it ends, in a series of renames nobody looks at. Correct is: what one
  program has changed is there for the next.
* **Areafix.** Links come and go, requests to the uplink and its messages cross,
  and time-outs give up areas; a message has many commands, a run many
  messages, and answers leave before the file is written. Correct is: the state
  of an area says what the uplink was asked last, no link waits for ever in an
  area that looks subscribed, the uplink does not send for ever what nobody
  reads, and what an answer says is what `areas.bbs` says when it is read again.
* **File areas.** A TIC file comes before its file or after it; the file moves
  out of the inbound before the downlinks have it; a file has several names.
  Correct is: no downlink is forgotten, no file that somebody is still to fetch
  is overwritten, nobody is told twice, and the inbound is emptied.
* **Gateways.** A packet or a list file is removed while some of its messages
  stand in files that others publish later; texts are cut into parts in one
  place and counted in another; tear lines that are quoted are held back.
  Correct is: no message is lost, its text comes through unchanged in both
  directions, and an answer finds the article, the name and the address it
  answers to.

## 2. Plan

Written, in this order, the shared foundations first:

1. `Mutex` (abstract), `LockFile`, whose proofs are in `AreasBbs_proofs`
2. `PacketSpool` (abstract), `OutPkt`, `OutPkt_proofs`
3. `EchoMail` (operators), `EchoNet` (several systems), whose proofs are in
   `Tosser_proofs`
4. `HistoryDb` (uses `Mutex` for its two locks), whose proofs are in `Tick_proofs`
5. `PacketFormat` (operators); `Tosser`, `Tosser_proofs` (sees the history and the
   output packets as 2 and 4 show them)
6. `Outbound`, `Outbound_proofs` (sees a bsy file as `Mutex` describes it)
7. `AreasBbs` (uses `Mutex`), and `Areafix` (takes each program as one step, as
   `AreasBbs` shows it); `AreasBbs_proofs` has the proofs for both and for the
   lock file
8. `Tick`, `Tick_proofs`
9. `Routing` (operators), `Router` (`ftnroute` and `ftnpack`), `Runinc`, which
   composes them with `ftntoss` as 5 shows it and with the mailer;
   `Runinc_proofs`
10. `Addresses` (operators), `GateText` (operators and the database), `GateIn`,
    `GateOut`, and `Gate`, which composes the two gateways; `Gate_proofs`
11. `AreasFile` (operators, on those of `Routing`), `FixCommands` (operators),
    `FixMail`; `FixMail_proofs`

Left for later: the creation of the sequencer's file; the addresses of
`TossEchoMail4D`; the directories of the outbound and the weekdays of
archive names; hierarchies of areas.

## 3. The modules

### Mutex, LockFile

`Mutex` is what the callers expect: `Acquire` of a free lock, `Release` by its
owner or by its death. `LockFile` is `lock.c` as built by default, without
`NFS_SAFE_LOCK_FILES`, one step per system call: `Open`, `Read`, `Probe`,
`Unlink` are `check_stale_lock()` (43-104); `Create` and `Write` are `fopen()`
and `fprintf()` of `lock_lockfile()`; `Sleep` is its loop with NOWAIT, WAIT or
seconds. `dir` is the name, `data` the inodes, so that an unlinked file can
still be open. `Crash` kills a process at any program counter of `CrashAt`;
`Respawn` gives its pid to a new one.

Nothing keeps two calls apart, and here they overlap at every step. Two processes
can own the lock, and a valid lock can be unlinked as a stale one: of
`MutualExclusion` and `OnlyStaleRemoved`, which state what callers expect, TLC
refutes either, with two and with three processes. `outdated` and `raced` are
history variables: who is looking at a file the name no longer refers to, and
that a `fopen()` for writing has met a file, or an `unlink()` another file than the
one that was read. `ExclusiveUnlessRaced` says that there are no other causes,
`SettledLockKept` that a lock whose file names its holder, while nobody is about to
act on an earlier look, cannot be taken away any more. The modules that use a lock
take `Mutex` for it: what they show holds as long as no two programs meet in the
moments of these two races.

### PacketSpool, OutPkt

`PacketSpool` is what the writers of packets expect: `Accept` a message,
`Publish` all messages of a destination at once and in order, `Lose` the end of
what waits in a crash or a failure. `OutPkt` has the list, the count
`outpkt_nopen`, the mode of `outpkt_fopen()` and the contents of the `.tmp` and
`.pkt` files, with a buffer for what stdio has not written yet. `OpenFound` and
`OpenNew` are `outpkt_open()`; `CloseLn` is `outpkt_close_ln()`, `Fopen` the
rest of `outpkt_fopen()`; `StartClose` to `EndClose` are `outpkt_close()`.
`fopen()`, `fclose()` and writes may fail, and the process may be killed at any
step.

### PacketFormat

The fields of the packet header and of a message header in the order of the
file, numbers as their two bytes, strings as their bytes: `PutHdr` and
`PutMsgHdr` write them, `HdrReads`, `HdrFrom`, `HdrTo`, `HdrPasswd` and
`MsgHdrReads` are what readers make of them, with the byte-swapped capability
word, the net 65535 of points, the limits of names, and files that end too
early. `GetLine` and `GetBody` are `pkt_get_line()` on a sequence of bytes,
`PutLine` is what is written for a line. `Tosser` reads with them what any
program may have written; `LinesBack` and `HeadersBack` of `GateOut` say that
what `rfc2ftn` writes is read again. The lengths of strings are constants, so
that TLC meets names that are cut.

### EchoMail, EchoNet

`EchoMail` has the functions on SEEN-BY and ^APATH as operators over sets and
sequences of addresses. `EchoNet` puts systems into a network: `Post` is what
`rfc2ftn` sends, `Toss` is `do_echomail()` and `toss_echomail()` for one message
of one packet, with the checks for dupes, links and circular paths, and
`Duplicate` and `Lose` are the transport. A configuration `net` says who is
linked to whom and which options are set; a run starts with each of several.
`AddedNodes` is always empty: `do_seenby()` adds no node when its argument
`passive` is NULL, and the call for `AddToSeenBy` (1078) passes NULL.

### HistoryDb

Text and index are named by generation, as the programs may have files open
that `ftnexpire` has replaced. `OpenHistory` is `hi_init()`, `WriteLine` is
`hi_write_t()`, `SyncIndex` is `dbzsync()` in `hi_close()`. `TossUnlock` comes
before `TossClose`, as it does in `ftntoss.c` 2187-2192. `TickDupe`, `TickNew`,
`TickReplaces` and `TickWrite` are the two holds of `ftntick`. `CopyLines`, `RenameText` and
`RenameIndex` are `do_expire()`. `KillProgram` kills a process between two steps,
`KillInSync` in the middle of rewriting the index. Which slot of the table a key
hashes to is left out: the index is the set of offsets it holds. `gap` and
`blind` are history variables: they remember that a failure has left the index
short of the text, and who has tested with such an index or not at all.

### Tosser

Packets with messages go through runs of `ftntoss`: `Start` is `main()` up to
the loop, `OpenPacket` to `EndPacket` are `unpack_file()` and `unpack()`,
`TossNetmail` and `TossEchomail` are `do_netmail()` and `do_echomail()`, and
`CloseHistory` and `Flush` are the end of `main()`. A packet has a header and
its messages have headers, of `PacketFormat`: who sent it, whether the password
is right and whether it can be read at all follows from the bytes. `Before` and
`After` have the checks of `do_echomail()` in their order around the history;
`Option` names the Kill option for each. `maxmsg`, `-x`, signals
(`signal_exit`), severe errors and failing calls take the ways the code takes.
`out` is what `outpkt_close()` has published, `buf` what would be lost in a
kill. `forgotten` and `hurt` are history variables for the keys a kill or a
failure has touched, which the properties except.

### Routing, Router, Runinc

`Routing` has operators only: addresses that are read against the one before
(`ParseDiff`, `Complete`), lists of complete addresses and of patterns, the
ROUTING file line by line (`ReadRouting`) with all its commands, what
`do_routing()` makes of a packet (`Route`), and `Rewrite` and `Remap` of
`ftntoss`. `Router` is `ftnroute` for one caller, packet by packet and message
by message: `RouteOpen` decides between `do_move()` and `do_packet()`, `Copy`,
`CopyDirect` and `CopyEnd` are the latter with its messages that must not be
routed, `Repack` is `do_repack()` with the bsy file it never removes, `Pack` is
`ftnpack` for one grade. `Runinc` has the inbound directory, `tmpunpack` and
`bad`, `Look`, `Unpacked`, `Unfit` and `UnpackEnd` for `unpack()`, and `Toss`, `Routed`,
`Packed` for `run_toss()`, with what their exit codes make it do. Of an archive that
fails any part may be in `tmpunpack`; it stays there when the archive goes to `bad`,
in place of one of the same name. The mailer brings files and
sends what waits for a node that is not busy. `ftntoss` is one step per run, as
`Tosser` shows it; the outbound is one file per node and flavor, as `Outbound`
has the way of packets through archives and FLO files. `gone`, `cut` and
`stranded` are history variables for the losses the code has no remedy for.

### Outbound

`TakePacket` to `Release` are `ftnpack` for one packet, `OpenOut` and `CopyOut`
its `.OUT` file; `NextDigit` is `arcmail_search()`. `OpenFlo`, `LockFlo` and
`Attach` are `bink_attach()`, for `ftnpack` and for programs that attach a file.
`StartCall` to `EndCall` are `ftnflo -x`, which stands for the mailer as well;
`SendOut` is the mailer with `.OUT` files and external. FLO files are inodes, so
that one can be unlinked while another process waits for its lock. The
configuration has the packing commands pack, rpack and fpack (as the nodes of
archive and FLO file), noarc, whether in_dir is out_dir, `maxarc`, and which
callers run. There is one `ftnpack`, as `runinc` starts it under its own lock; by
itself it takes a lock only with `-l`, and two at a time, such as one that
`ftnroute` starts for another directory, are not modelled. `InodesAssumption` says that the file system has an inode for a
FLO file that has to be created; `ConstantsAssumption` the rest.

### AreasBbs

A file is the set of the changes it contains. `Begin` takes `areas.bbs.lock`,
`BeginCommand` is one of the two programs that do not (after which nothing is
claimed); `ReadList` is `areasbbs_init()`, `ChangeList` whatever the program
changes, and `WriteNew` to `Install` are `areasbbs_rewrite()`, one step per
`unlink()` or `rename()`. `WriteFails` and `WriteShort` are the failures it
notices and those it does not. `torn` and `since` are history variables: they
remember a fault that has left no whole `areas.bbs`, and how many programs have
renumbered the saved files after that.

### Areafix

One area over a long time, with its downlinks (`nodes`, `passive`), its state
and whether its time is past the time-outs; the uplink is the first node and not
in `nodes`. Each command of areafix is an action, as is each command of
`ftnafutil`; `Run` sends the requests first and then rewrites `areas.bbs`,
unless the program is killed in between (`Rewrite`). `ChState` is
`areasbbs_chstate()`, which does nothing when the new state is set already: that
is how an area gets the states U and W together (`SetActive`). `TossMail` and
`TossPost` are what `do_echomail()` does to the area for a message of the uplink
and of anybody else. `TakeRequest` and `UplinkSends` are the uplink, which may
refuse; `DaysPass` is the time.

### AreasFile, FixCommands, FixMail

Many areas over a few runs of `ftnafpkt`. `AreasFile` is how a line of
`areas.bbs` is written and read again, with node lists in their short form.
`FixCommands` has each command as an operator on the session of a program
(areas, rights of the sender, requests, the answer), with wildcards, levels,
keys, limits, groups of rights, NEW, and the entries of the uplinks an area is
forwarded to. `FixMail` is `ftnafpkt`: packets arrive, a run reads `areas.bbs`,
does one message after the other (`DoMessage`), sends the requests grouped by
the text of the uplink's address (`Send`) and the answer (`Reply`), and writes the
file once (`Save`). A request has the text that `znf1()` or `znfp1()` made of the
address (`Znf1`, `Znfp1`: the second ends in `.0` for a node), and `Sent` are those
that the `strcmp()` and `strstr()` of `send_request()` let through (`PartOf`). Kills,
signals and failing calls come in between. `told`, `asked` and `muddled` are history
variables: what a node has been told last of an area, what the uplink was asked
last, and for which areas the requests of the last message went out under
different texts, or under one that is part of an earlier one.

An answer is taken at its word: "subscribed" and "active" say that the node is in
the list of the area and not passive there, "off" that it is in neither list,
"passive" that it is paused. One exception is in `told` by a word of its own: a
node that was passive and subscribes again is told "subscribed" as well, may stay
passive all the same, and is then only expected in the list ("again"). The
documents expect more (`SubscribedActive`, section 6). What a run that fails before
it has written `areas.bbs` has said and asked for is excepted too (`Void`): then
neither answers nor requests need be true, which the code has no remedy for. With
AutoCreateCmd (`autoCreate`) the code leaves `areas.bbs` to that script, which is
not modelled (`doc/old/README.snp:1033` and `cmd_new()`, 924-948): `New` then marks
nothing as changed, and the answer that the area was created is not counted among
those that have to be true.

### Tick

Directories map names to inodes, so that `link()` gives a file a second name and
`copy_file()` truncates the inode for all of its names. `Start` and `NextTic` are
`do_tic()`, `Check`, `NoFile`, `Dupe`, `FindArea`, `Replace`, `Copy`, `Unlink`,
`Pass`, `Link`, `Put`, `Clean` and `History` are `process_tic()` with
`tick_send()` in their order; `Hatch` and `HatchSend` are `ftnhatch` beside it,
`Fetch` is a node that empties its box, `ArriveFile` the mailer. Options of
the configuration decide what becomes of a TIC file without its file, of an
unknown area, of a dupe, of a replaced file. `excused` and `left` are history
variables for what an option tells `ftntick` to drop and for names an
interrupted run has left.

### Addresses, GateText, GateIn, GateOut, Gate

`Addresses` has operators only: lines of HOSTS, `p.f.n.z` addresses, user names
and their characters, and ALIASES, in both directions. `GateText` has the
state machine of `pkt_get_body_parse()` (`ReadStep`) and the conversion of
MSGID and REPLY, with the Message-ID database as a set of pairs. A text may end
without a CR: `ReadBody` then drops what is behind the last CR, or, in echomail
without an Origin line, takes it for that line, as `pkt_get_body_parse()` does
(719, 733). `TextsKept` speaks of complete lines; that the incomplete one arrives
too is `RestKept`, which does not hold (section 6). What answers a message that has
several references is looked for as in `ftn2rfc.c` 1381-1399, where mail prefers
RFC-References; its test for identifications of exactly eight characters is left
out, as identifications are model values.

`GateIn` is `ftn2rfc` and `ftninpost`: a message is skipped, bounced, mailed or
posted (`SkipMessage`, `BounceMessage`, `Mail`, `News`), the files are closed and
renamed, the packet is removed, and `Post` hands a file on. What the code
computes from a message alone is in operators that are evaluated once
(`Received`); `mail_to` and the access list, which the code keeps from one
message to the next, are variables. `GateOut` is `rfc2ftn` over list files and
mails: `ReadArticle` with the position file, `Treat` for one newsgroup or
recipient, which is refused, given up, or written in parts to the open packet
(`SendMessage`), and `OutClose`. `Gate` puts both on one host with one
database; `Arrive` brings packets that answer what was sent.

## 4. The runs

| Run | Instance | What it shows |
|---|---|---|
| `LockFile` | 3 processes, 3 inodes, calls that overlap at every step, kills at every step, pids used again | a second owner only after one of the two races; a settled lock is kept |
| `OutPkt` | 3 destinations, 2 open files, 4 messages, one kill or failure | the count stays right under eviction; published packets are whole; a refinement of `PacketSpool`; all is published in the end |
| `EchoNet` | 4 systems in 7 networks, one message, one packet lost, one delivered twice | everybody is reached, once; the copies die out |
| `History` | 2 `ftntoss` or 2 `ftntick`, one `ftnexpire` run twice, 2 keys, 2 lines | no duplicate passes, no line is lost from the index, `ftnexpire` keeps what it must and repairs what a kill has left |
| `Tosser` | 2 packets in 10 variants, 16 sets of options and failing calls, one signal or kill, one retry | nothing is lost, nothing tossed twice, the inbound directory is emptied |
| `Outbound` | 3 packets, a file, 2 nodes, two archive names, one kill and one failure, 6 configurations | packed mail is somewhere until it is sent, listed until it is sent, sent once, and in the end |
| `AreasBbs` | 2 programs, 3 saved files, 5 changes, 3 faults | no change is forgotten, short of a fault at the wrong time, when it is in a saved file |
| `Areafix` | 2 links, 3 requests and 2 messages under way, 4 set-ups of commands and options, one kill in one of them | the state says what the uplink was asked; nobody loses the area without being told; nobody waits for ever; the uplink stops |
| `FixMail` | 4 configurations of up to 7 areas, 2 messages in packets of their own or up to 3 in one, one kill, signal or failing call | what the answers say is true of `areas.bbs` as it is read again; the uplinks were asked for what its states say |
| `Tick` | 2 TIC files and one of `ftnhatch`, 2 files, 2 areas, 3 nodes, 5 inodes, 38 set-ups, one failing call or death | no downlink is forgotten, no file that is still needed goes, nobody is told twice, the inbound is emptied |
| `Runinc` | 5 configurations, up to 3 files with 6 messages, two runs of `ftnroute -p`, one failure or kill | no message is lost or copied, each waits for the node the ROUTING file names, all are sent |
| `Gate` | 51 scenarios: 2 packets of FTN messages under 4 sets of options, list files and mails under 3, replies to what was gated; one failing call or kill | nothing is lost in either direction, texts and headers come through, answers find what they answer, everything is dealt with |

Every property of a run has a mutant in `PROJECT.json`: an operator beside the
definition it replaces, with a plausible slip in it, that makes TLC refute the
property. Deadlock is checked in `LockFile`, `OutPkt`, `EchoNet`, `History`,
`AreasBbs`, `Areafix` and `Runinc`; in the others the system rests when all mail
has been dealt with.

The runs take from seconds to two minutes; the largest are `LockFile`
with 2.1 million distinct states, `Tosser` with 580 thousand, `Tick` with 230,
`Runinc` with 168 and `Gate` with 62.

### Bounds, and why they are enough

* *Lock files*: a race over one name needs two processes; the third is the one
  that comes while the first two are at it. One inode per open file and one for
  the name is all that can exist.
* *OutPkt*: three destinations with two open files make each of them the one
  that is evicted and reopened, before and within `outpkt_close()`. Four
  messages let one destination be evicted after it was reopened. One kill or
  failing call; runs with two are several times larger and have not been made.
* *EchoNet*: four systems have trees, a ring with two ways to the opposite side,
  and a dense graph with a point. The messages do not affect each other, so one
  message is enough; one duplicate and one loss come at any time.
* *HistoryDb*: a key tested, written and tested again by another process, with another
  line to be expired; two runs of `ftnexpire`, so that a process can have
  a file open that has been replaced twice.
* *Tosser*: two packets, of which one fails while the other waits, with the
  same message in both or twice in one. `MaxPasswd`, `MaxName` and `MaxSubj` are
  3, 3 and 4 in place of 8, 36 and 72, so that passwords and names of the
  greatest length, and one longer, are short sequences.
* *AreasBbs*: a change needs two programs to be overwritten, and a third start
  to be missed; three saved files have a first, a middle and a last one, and
  five changes renumber them until they are gone.
* *Areafix*: two links, so that one is the last or is not; two requests that
  cross, and a third that follows; `MaxOnce` bounds what could go on for ever:
  deletions by links, messages of links, `ftnafutil` (un)resubscribe.
* *FixMail*: a message with up to four commands, another by the same or another
  node, and a third in the same run, which is how far the session of a program
  carries anything over. The configurations were chosen so that every refusal
  and every kind of entry in `uplinks` is met.
* *Tick*: two versions of a file, or two files of the same name, one beside the
  other and one after the other; a sender and two downlinks, one of which may be
  passive; five inodes are two files, their copies, and the one of `ftnhatch`.
* *Outbound*: with two archive names the wrap-around of the digit is met at
  once; packets of size 2 and `maxarc` of 1 or 2 make archives full after one or
  two packets.
* *Runinc*: mail for a node, a point of it, a node behind a host, and the system
  itself, under tables with every command; an archive and a packet that carries
  the same name as one in it, or one that cannot be read; two archives of the same
  name that fail, one after the other. A second run of
  `ftnroute -p` takes back what the first has put in order.
* *Gate*: a message that changes what the reader keeps (`mail_to`, the access
  list, the open packet) and one that meets it. `PosInterval` is 2 in place of
  50, so that the position is saved between articles that share a packet;
  `MaxPasswd`, `MaxName` and `MaxSubj` are 3, 6 and 6; `LinesBack` writes and reads
  every text of up to four bytes of a letter, CR and LF.

### Fairness

* `LockFile`: none; its properties are safety.
* `OutPkt`: weak fairness of the process; all its users call `outpkt_close()` at
  their end.
* `EchoNet`: weak fairness of tossing at each system: mail is delivered and
  `ftntoss` is run again and again. Posting, losing and doubling are not fair.
* `Tosser`: weak fairness of `Work`: `runinc` or cron start `ftntoss` whenever
  there is a packet. Signals, kills and retries are not fair.
* `Areafix`: weak fairness of tossing and of the uplink, which reads its mail.
  Days pass as long as no message comes. `ftnafutil expire` is strongly fair:
  cron runs it every day, but a link that says `+AREA` again and again refreshes
  the time of an area in states U and W, so that it is not always past its
  time-out.
* `Outbound`: weak fairness of each program, restarted by cron, and of the
  mailer's `SendOut`. Kills are not fair. Failures are bounded and cost no
  fairness assumption of their own.
* `Tick`: weak fairness of starting `ftntick`, which `runinc` does again and
  again, of its steps, and of the hours of `TickWaitHour`. The file of a TIC
  need not ever come.
* `Runinc`: weak fairness of `runinc` and its children, of `ftnroute -p` and of
  the mailer's bringing. The mailer's sending is strongly fair: a node may be
  busy at times, and it is called again and again.
* `Gate`: weak fairness of each of the three programs, which the mailer and the
  news server start, and of the arrival of answers.
* `History`, `AreasBbs`, `FixMail`: safety only; `NoSecondLine`, `ExpireKeeps` and
  `ExpireRepairs` are about steps.

## 5. What is proved

`tlapm` checks these for every value of the constants, under the assumptions the
modules name (`ConstantsAssumption`, `LockConstants`, `AreaAssumption`,
`NetsAssumption`, `PacketAssumption`, `ScenariosAssumption`, `ConfigsAssumption`).

* **`LockExclusion`** (`AreasBbs_proofs`): `ExclusiveUnlessRaced` for any processes,
  inodes, waits, kills, reuse of pids, and calls that overlap in any way. While
  neither race has happened, the file of a holder is there and names it
  (`HolderOnRecord`), what a process has created is there, empty, and its own
  alone (`CreatorOnRecord`), and what somebody is about to act on is still true,
  unless the name has been given to another file since (`LookSound`): then the
  process is in `outdated`, and an `unlink()` or a truncating `fopen()` it goes on
  to make is what `raced` records. Creating and removing are the steps that need
  all three at once: who is in the way is either a holder, whom the probe would
  have found alive, or has made the others outdated.
* **`SettledKept`** (`AreasBbs_proofs`): `SettledLockKept` under the same conditions,
  races in the past included. From a settled lock every other call can only open,
  read, find the holder alive, and sleep or give up.
* **`OpenFilesSafe`** (`OutPkt_proofs`): `OpenFilesCounted`,
  `FreedListNotWalked` and `OneEntryPerPacket` for any number of destinations
  and files, whatever fails and whenever the process is killed. The count is
  inductive only together with where the process is: an entry that is being
  opened is not open yet, and in `outpkt_close()` every entry before the one it
  is at has been closed, so that the limit cannot be reached again once one has
  been freed.
* **`PacketsWhole`** (`OutPkt_proofs`): `PublishedComplete` under the same
  conditions. A packet is published when its entry is closed, long after its
  messages were written and possibly after its file was closed and opened again;
  so `Unfinished` says of every entry that still waits to be closed that its file,
  followed by what stands in the buffer of its stream, begins with a header, that
  messages follow, one at least unless it is the entry `outpkt_open()` is making,
  and that nothing is buffered once its stream has been closed; and `Content` that
  the file about to be renamed is a packet with its end. All this while nothing
  fails, which `PublishedComplete` also asks for.
* **`SpoolImplemented`** (`OutPkt_proofs`): `ImplementsSpool`, every step of
  `OutPkt` is a step of `PacketSpool` or a stutter, whatever fails and whenever the
  process is killed. `OutPkt` keeps no list of what waits or of what is
  published: the mapping reads both from the files, as the messages of a `.tmp`
  file and the buffer behind it, and as the `.pkt` files of a destination by
  their numbers. So the invariant `Stored` says what makes that reading right.
  An open stream has its file and a closed one has nothing buffered, so that what
  `outpkt_close_ln()` flushes waits as before; the file of an entry that is being
  made does not exist, so that `fopen()` truncates nothing; the entries are in the order of
  their numbers and every packet has a smaller one than any entry still to be
  published (`InOrder`), so that a rename puts its packet behind the others. That
  messages wait when a packet is published, unless something was lost, is
  `Content` again. A failing `fclose()` cuts the end off and nothing else
  (`MessagesWritten`), a failing `fopen()` in `outpkt_close()` or a kill
  leaves a `.tmp` file that nobody publishes.

* **`DeliveredOnceHolds`** (`Tosser_proofs`, about `EchoNet`): `DeliveredOnce` for any number of
  systems, links, messages, lost and repeated packets. `NetsAssumption` says of a
  configuration that no two systems share an address, and what a tree is: from
  all systems there is a way to each one, such that of two systems that are linked
  one is the next on the way of the other. Two arguments
  carry the two halves. With histories, whoever has tossed a message has it in
  its history, and what was posted is nowhere else until it has been tossed at
  home (`Remembered`), so that its author's gateway is not given it later. In a
  tree, a packet comes along the way that leads to where the message was posted,
  from a system that has tossed it, to one that has not (`Down`), and no other is on
  that link (`Single`): SEEN-BY and the sender keep it from going back, and there
  is no other way round.

* **`HistoryIndexed`**, **`HistoryNoSecondLine`**, **`HistoryExpireKeeps`** and
  **`HistoryExpireRepairs`** (`Tick_proofs`): `IndexCovers`, `NoSecondLine`,
  `ExpireKeeps` and `ExpireRepairs` for any number of programs, keys, lines and
  runs of `ftnexpire`, on the condition `Serial` that all `ftntoss` lock the same
  `areas.bbs` (section 6 says what happens otherwise). None of the four
  is inductive. `HistoryInv` adds which steps each program has (`Roles`); that who is at
  a step that needs a lock has it (`Locks`), so that of all `ftntoss`, or all
  `ftntick`, one at a time has the history open, though not under the history
  lock; what each has open (`Handles`); that the index in core of who has the
  index that has the name covers the text (`CoreCovers`): that is why the late
  write of `hi_close()` loses nothing, and why a test finds what there is; that
  a text and an index just made by `ftnexpire` belong together and are nobody
  else's (`NewFiles`); and that what `ftntick` has tested still holds when it has
  taken the lock again (`Tested`): the lock of its name keeps other `ftntick`
  out, and `ftnexpire` only takes lines away.

* **`TosserKeeps`** and **`TosserOnce`** (`Tosser_proofs`): `NothingLost` and
  `TossedOnce` for any number of packets and messages, any options, failing
  calls, signals and kills. The first needs `Honest`: that a packet has a header
  as programs write it, which reads back as it was written, or one that cannot
  be read; all packets of the run have. `IInv` follows a message from the packet
  to where it ends: what of the packet at hand `ftntoss` is past (`Past`),
  that of a packet that is gone, and of a key that is in the history, every message
  is settled (`Gone`, `Known`), that a key in the history comes from a message
  already handled, so that a dupe is a second one (`Unique`), and that what was
  killed, called bad or set aside was so for a reason that holds (`KilledTrue`,
  `BadTrue`, `SetAside`). The second
  needs no assumption: `Recorded` says that the key of what was tossed with the
  history on is in it, which is why a packet that is tossed again after an error
  brings nothing twice.

* **`AreasSafe`** (`AreasBbs_proofs`): `ChangesKept` for any number of programs,
  saved files, changes and faults, as long as all programs take the lock. The
  property looks at `areas.bbs` between programs; the invariant says what is
  where at each rename (`Steps`: the number after the next saved file is free,
  so no `rename()` replaces one), that what is being written has everything
  (`Complete`), that everything is in `areas.bbs` or, just before the last
  rename, in `areas.o01` (`Intact`), and after a fault how high a number the file
  can have got that has what is gone (`Recent`).

* **`AreafixAsked`** and **`AreafixTells`** (`AreasBbs_proofs`): `AskedUplink` and
  `NoSilentLoss` for any number of links, of requests and messages under way, and
  any set-ups. `AskedUplink` speaks of the states that matter to a reader; `Says`
  also covers those in between, such as U with P, and `Sane` adds that a paused
  area waits for nothing, so that a link that makes it active again cannot turn
  it into one that was never asked for. `NoSilentLoss` is about `ftnafutil delete`,
  which tells nobody because it expects no readers: `Whole` says that an area has
  one state, and nodes only where the uplink sends it or was asked to. `%active`
  breaks this (it leaves U beside W, section 6), hence the assumption `Apart`: no
  set-up has both that command and the cron job. The run's set-ups fulfil it.

* **`OutboundKeeps`** and **`OutboundLists`** (`Outbound_proofs`): `NothingLost` and
  `AllListed` for any number of packets, files, nodes, attaching programs and
  mailers, any digits, kills and failures. The assumption `Sound` names the
  packing files this is about: archive and FLO file of a packet are of the same
  node, which pack and rpack see to and fpack does not; an `.OUT` file is of that
  node too; and netmail for archives is not copied onto itself. All set-ups of
  the run fulfil it; section 6 says what fpack does. `IInv` says what each process
  has done at its place, under the bsy file of the node (`PackerAt`, `AttacherAt`,
  `CallerAt`), that a FLO file which a process has open is the one that has the
  name (`Names`), that it lists only what is of its node (`OwnItems`), that a
  packet is in one archive (`OneArchive`), and where the entry of each archive and
  file is found (`Found`). One argument carries the proof: a step touches only
  what belongs to a node whose bsy file the process holds, or which nobody holds
  (`Alone`), so all that is said of other processes stays true (`Rest`); and what
  `ftnflo` truncates it has sent before, so there is nothing in it that must
  still be listed.
* **`OutboundOnce`**: `SentOnce` under the same condition, where packets and files
  are different things (`ConstantsAssumption`). Nothing of the above says it: that
  an entry has been sent is written into the FLO file, while what it names may be
  filled and listed again. `Once` says that, while nothing is killed, what has
  been sent is in no directory and in no archive, but for the one that the caller
  at `dispose` or `mark` is about to truncate; and that of a file there is one
  entry that is not marked, or an attaching program that is about to write it.

* **`TickForgetsNone`** and **`TickSendsOnce`** (`Tick_proofs`): `NotForgotten` and
  `SentOnce` for any number of TIC files, files, areas and nodes, any options,
  failing calls and deaths of `ftntick`. The assumption `Sound` says what a file
  area is: its record lists nodes, none of them twice (a node that stands there
  twice is sent the file twice), and the TIC files of the inbound have different
  names. `NotForgotten` needs that everything before the removal of the TIC file has
  been done for it: `AreaFound` and `SoFarTold` follow `process_tic()` through its
  branches, `CurFinished` says what holds when it returns without an error, and
  `GoneFinished` that this stays true, because an area that is known keeps its
  record. `SentOnce` needs `Waiting`, that the listing `do_tic()` works on names no
  TIC file which has been dealt with, and `ToldOnce`, which counts: a node that
  has been served since `ftntick` took the TIC file is not served again, because
  that goes, or becomes a BAD file, unless there is an interruption for it.

* **`GateLosesNothing`** and **`GateKeepsArticles`** (`Gate_proofs`): `NothingLost`
  and `ArticleKept` for any messages, articles, options, failing calls and kills
  of the three programs. `PacketAssumption` says that the packets are finitely many,
  `ScenariosAssumption` that messages, articles, targets and lines come in
  sequences. The properties speak of packets and lists that are gone; the
  invariants say what holds before. For `ftn2rfc`, `AllSettled` says that what has been treated is
  settled whether or not its packet is gone, `Passed` that nothing before the
  place in the packet was passed over, `HandedOver` that `ftninpost`
  unlinks only what it has handed over, and `FilesApart` that the files
  being written are not among those it works on: a message moves from one
  file to another only by a rename. For `rfc2ftn`, `AllDealt` says that every target
  behind the place is in a packet, refused or given up; `Behind` is that
  place as the position file, the offset in the list and the targets still to do
  give it. After a kill the position file alone is left, which is why the
  position must not pass an article that is still being sent.
* **`PartsCounted`**: the parts that `snd_message()` counts before it writes
  `^ASPLIT` and those that its loop cuts are equally many, for every text and
  limit. Both walk over the lines with the same state; the proof takes the first
  line at which they would part.

* **`NothingLostHolds`** (`Runinc_proofs`): `NothingLost` of `Runinc` for any
  ROUTING files, files from the mailer, messages, runs of `ftnroute -p`, failing
  calls and kills. The assumption `Sound` says that the outbound has a place for
  every node that mail is for or that the ROUTING file sends it to, that archives
  hold finitely many packets, and that none of these has the name of an archive:
  `runinc` would rename it over one. The property speaks of places; what keeps
  them safe are the moments at which a message is in two of them or between two.
  `RunincAt` says that while an archive has been unpacked and still is in the
  inbound, `tmpunpack` has all its packets; `CallerAt` that of the packet
  `ftnroute` is at, what lies behind its place is in an output packet or counted
  as gone, so that the packet may be unlinked at its end, and that no
  output packet outlives the run that opened it; `Inbound` that a packet of
  `tmpunpack` is never renamed over an archive. `Kept` counts the messages of all
  these. It needs nothing of what `Routing` computes but `Sound`.
* **`WayKeptHolds`**: `WayKept` under the same assumption, for configurations
  whose ways are those of their ROUTING file. The field `way` of a configuration
  says, independently of the programs, for which nodes and flavors each message
  may wait. `WaysAreRouted` says that it has what one run of `ftnroute` makes of
  the packet `ftntoss` puts the message into, direct messages apart, and, where
  `ftnroute -p` runs, what that makes of a packet it takes back for each of
  these. It speaks of one packet and one decision; the theorem is about what
  many runs, cut short and crossing each other, make of many. `WayInv` says of
  every packet in `toss/toss`, and of the one `ftnroute` is at, that its messages
  may still go where it would be sent (`May`), and of those in `toss/route`, of
  the output packets and of the outbound that they are meant for there
  (`Meant`): a packet that `ftnroute -p` takes back is `Meant`, and is sent again
  because it then is `May` as well, under the grade m and the normal flavor.
* **`CopiedOnceHolds`**: `CopiedOnce` under the same assumption, for
  configurations in which the mailer has each message once (`MailIsOnce`).
  `CopiedOnce` counts only behind `toss/toss`, so almost nothing of its reason
  is in it. `OInv` names the nine places a message can be in (`Places`), from the
  files of the mailer to what has been sent, and says that no two have a message
  in common (`Apart`) and each holds it once, except for what was cut short. Two
  places overlap on purpose and are cut down to what counts: of what `ftnroute`
  has written, what belongs to the packet it is still copying (`Done`) is in
  the packet until that is unlinked; of `tmpunpack`, what is still in its archive
  is there (`InArcs`), and `Again` says that `runinc` will unpack that archive
  once more over it, or is about to unlink it, before it moves anything. Each
  step then takes messages from one place to one other (`Flow`), which is what
  the proof shows of each action.

The run's five configurations meet `WaysAreRouted` and `MailIsOnce`.

* **`AskedTrueHolds`** (`FixMail_proofs`): `AskedTrue` for any configuration,
  messages and packets, any failing calls and deaths of `ftnafpkt`. `Settled` says
  which configurations: each area has one line in `areas.bbs`, no area is both
  paused and waiting, and neither a link's NEW nor the entry of an uplink makes an
  area in a state that says what was asked (`-state=W` by NEW, say, asks nobody).
  All configurations of the run are of this kind. The property looks at the file
  between runs; `FixInv` says what holds before: the file goes with what the
  uplinks had been asked before the run (`FileAsked`), except for areas that this
  run has sent requests for (`mine`), and the areas in memory go with the
  requests not sent yet and, where there is none, with those that were (`Ok`). The
  theorem excepts the areas of `muddled`, as the property does: `ClearSent` shows that
  of the requests for any other area the last one is sent, which is false of the
  code where two texts of an address meet (section 6).
  So a run that dies after it has sent leaves only areas of `mine` in doubt, and
  one that saves makes the file what the memory was. Every command keeps `Ok`:
  who changes a state to one that waits, or that is given up, adds the request
  that goes with it, last of all for this area (`SaidLast`). `Forward` does not do
  both at once: it makes the area, sets F, lets the link in with the `cmd_sub()`
  of an area, and only then asks; `Ok` has a set `X` for the area in between. That
  the loops over areas, uplinks, options and lines keep it is an induction over
  their turns (`UpTo`), for which each loop's recursive function is shown to
  exist. An area that is not changed keeps its requests, because names are
  distinct (`DistinctNames`), which `New` sees to.

Only model-checked: `AnswersTrue` of `FixMail`, which compares lists of nodes
with what reading their short form, sorted, gives back; `TextsKept` and
`ThreadsKept` of `Gate`, which compare texts and names that recursive functions make;
`FileKept` of `Tick`, which follows the inodes under all their names; and all
liveness properties (`Emptied`, `Delivered` and their like), which are out of the
prover's reach, as ENABLED is. What recursive functions over texts, lists and
rules compute (`ReadBody`, `GetLine`, `ReadRouting`, `Reach` of `EchoNet`) is only evaluated.

## 6. Where the code and its documents, or its readers, part

What follows was met while reading and modelling. The runs pass, because an
assumption, a configuration or an exception that the property names stays clear of
it. Five statements of what a document or a comment says, which the code does not
keep, stand in the modules without a run: `MutualExclusion` and `OnlyStaleRemoved` of
`LockFile`, `AskedAlways` and `SubscribedActive` of `FixMail`, and `RestKept` of
`GateIn`. TLC refutes each of them when it is put in place of the properties of
`LockFile.cfg`, `FixMail.cfg` or `Gate.cfg`.

Against what the repository says:

* *Locks.* Two processes can find no lock file, and both create it: the second
  `fopen()` truncates the file of the first (`common/lock.c:270`). Two can find the
  same stale lock, and the second removes the valid lock the first has made
  meanwhile (75). Either way both calls return OK, though a second program is to
  stop (`doc/old/README.snp.en:734`; the comment at `lock.c:267`;
  `doc/old/ChangeLog.OO:1188`). The models of the programs take `Mutex` for the
  lock and so assume neither race. A process killed between creating the file and
  writing its pid leaves an empty file that nobody removes (274).
* *`areas.bbs`.* `ftnaf` with a command and `ftnafpkt` with packets on the command
  line rewrite it without its lock (`areafix/ftnaf.c:360`, `ftnafpkt.c:569`;
  `doc/old/README.snp.en:735`). `ftnaf -m` goes on without the lock when its
  wait for it ends (`ftnaf.c:324`), and removes the lock of the other.
* *Packing.* in_dir and out_dir are the same by default (`toss/ftnpack.c:1164`),
  though `doc/old/fidogate.txt:1606` says they are not: netmail that is to go
  into an archive is copied over itself and unlinked.
* *File areas.* An interrupted run leaves its link in PassthroughtBoxesDir, and
  the next run's `copy_file()` truncates the file under both names
  (`tick/ftntick.c:590`; its comment at 538; `doc/old/README.snp:912`).
* *Access lists.* The list of one sender stays for the next one that has none
  (`common/acl.c:138`, `gate/rfc2ftn.c:1566`; `doc/README.ru:396`), and the first
  lookup cuts a list at its first comma (`acl.c:182`).
* *Routing.* `hubroute` never finds a hub and sets no flavor
  (`toss/ftnroute.c:515`; `doc/README.ru:1673`); `hostroute`, `hubroute`,
  `bossroute` and `xroute` reject wildcards (`common/node.c:193`;
  `doc/examples/rpm/routing:37`); a plain `remap` is read and ignored
  (`toss/ftntoss.c:1275`; `doc/old/fidogate.txt:3089`).
* *Tosser.* KillCircular also kills messages of areas in state W
  (`toss/ftntoss.c:1136`; `doc/old/fidogate.txt:2379`); AddToSeenBy never adds a node (573,
  1078; `doc/old/fidogate.txt:2407`); messages of a passive link are insecure (990;
  `doc/old/README.snp.en:202`); `ftnexpire` waits by default (`toss/ftnexpire.c:397`;
  `doc/old/fidogate.txt:1559`).
* *Gateways.* `mail_to` is left over from the message before, or was never set,
  when a message has no address (`gate/ftn2rfc.c`; `doc/old/fidogate.txt:2527`); ErrorsTo
  sets the junk group (1954; `doc/old/fidogate.txt:2543`); in news, X-Flags are obeyed
  whatever XFlagsPolicy says (`gate/rfc2ftn.c:1400`; `doc/old/fidogate.txt:2588`). The
  comment "Put incomplete last line into textlist, if any" (`common/message.c:733`)
  has no code behind it: what follows the last CR of a text is lost, or becomes its
  Origin line (719; `RestKept`).
* *Addresses.* A comment says the point is ignored when aliases are looked up
  (`common/aliases.c:145`); `node_eq()` compares it.
* *Outbound.* `flo_openx()` deletes its bsy file before it repeats its loop
  (`common/flo.c:110`), which `doc/old/ChangeLog:2057` says it does not; without
  append mode it returns with the bsy file still there.
* *areafix.* A passive link that subscribes again is told that it is subscribed and
  stays passive, unless the area has to be asked for (`areafix/areafix.c:1627`,
  1661); `doc/old/README.snp.en:209` says it is activated (`SubscribedActive`).
  `cmd_sub()` asks an uplink under the text of `znf1()` (1654), the other commands
  under that of `znfp1()` (1771, 1851, 2042, 2103), and `send_request()` skips a text
  that is part of an earlier one (2160): of `-AREA` and `+AREA` in one message of its
  last reader the second is never sent, though the area is put into state W and the
  log says that the request was forwarded (1671; `AskedAlways`, and the exception
  `muddled` of `AskedTrue`). For the same reason an uplink whose address is part
  of another's in the same message is not asked.
  `areafix_auth_check()` clears what `areafix_auth_cmd()` has set, so
  the comments at `areafix.c:1547` and `ftnaf.c:343` do not hold for levels, keys
  and the rights to NEW and DELETE.

Unexpected, though nothing says otherwise:

* `outpkt_close()` reopens an entry whose first `fopen()` failed
  (`common/outpkt.c:274`), and publishes a packet without a header.
* `ftntoss` unlocks the history before it writes the index back
  (`toss/ftntoss.c:2187`). `areas.bbs.lock` hides that; two runs with `areas.bbs`
  files of their own (`-b`) share the history and not that lock, and a duplicate
  passes. The constant `Serial` of `HistoryDb` excludes it. When its own lock is
  busy, it leaves `areas.bbs.lock` behind (2152).
* With fpack no bsy file is created, but two are deleted, whoever has created
  them (`toss/ftnpack.c:832`).
* A packet password of more than eight characters is cut in the header and
  compared with the full one on reading, so the mail is always insecure. The
  third message of a second has the time stamp of the first
  (`common/packet.c:588`). A header that ends in the numbers is taken for
  good, and so is a packet file whose header could not be written.
* `do_packet()` of `ftnroute` closes a stream of `outpkt.c` (`ftnroute.c:626`);
  `do_repack()` creates bsy files and removes none (755). `runinc`'s test for free
  space is the wrong way round (`runinc.c:534`), it unlinks an archive before its
  packets have left `tmpunpack` (166) and moves packets over others of the same
  name. What a failed archive has left in `tmpunpack` stays there and is tossed
  after the next good one; a failed archive replaces the one of its name in `bad`
  (157).
* `areasbbs_print()` does not write `-r`, and a node that follows a point of its
  own in a list is written as nothing and lost when the file is read again
  (`BehindPoint`, an exception of `AnswersTrue`).
* `cmd_active()` on an area in state U gives U and W (`areafix/areafix.c:2110`):
  `ftnafutil delete` then takes a requested area with a downlink for a dead one.
  It does not set the time of the area either, so that one that was passive for
  long is given up by the next `ftnafutil expire`.
* The key check of `cmd_sub()` takes any common letter, that of the lists needs
  all (`areafix/areafix.c:1557`, 1233). A forwarded request may leave an area with nobody in it. Answers and requests leave before
  `areas.bbs` is written.
* `ftnafutil` exits with an error when the rewrite has succeeded
  (`ftnafutil.c:597`).
* A TIC file whose TickWaitAction `do_tic()` does not know holds up those behind
  it; `Replaces` unlinks a file that `ftnhatch` has attached (`ftntick.c:463`);
  TickFileAction gets the path of a file that is gone (613).
* `rfc2ftn` saves its position every 50 articles, though they stand in a packet
  that is still temporary (2309); an article without a body is never gated; with
  a failure for one group the others are given up and the list file is removed
  all the same; the exit status for several recipients is that of the last. Its
  ^ASPLIT comes behind the text headers, where `ftn2rfc` does not look.
* A message without a kludge makes `ftn2rfc` lose its place in the packet
  (`common/message.c:527`); text behind SEEN-BY is dropped; `mail_close()` looks at
  no error; without FTNInSendmail mails are unlinked unsent.
* An alias with `_` or `.` is never found for an answer, since `cvt_user_name()`
  has changed it by then (`rfc2ftn.c:553`); an answer to a user who has the
  name of another's alias goes to that other; `rfcaddr.c:152` starts to remove
  trailing spaces at the end of the string and removes none.

## 7. What is not modelled, and why

* `NFS_SAFE_LOCK_FILES` of `lock.c`: off by default, as are `FTN_ACL`, `AI_1`,
  `LOCAL_FTN_ADDRESSES`, `ALIASES_ARE_LOCAL` and `PASSTHRU_NETMAIL` elsewhere.
* The hash tables of `dbz.c`, beyond what is loaded and written back: which slot
  a key has does not matter to who overwrites whom.
* The sequencer: packet and message numbers are taken as fresh. `sequencer.c:48`
  creates its file without a lock, so the first two programs on a new
  system may get the same number.
* `EchoNet`: zones and zone gates, SEEN-BY with points (`TossEchoMail4D`).
* `Tosser`: the state of an area is given with the message, `Areafix` has its
  changes; ^AVia and statistics. There is no dupe check for netmail in the
  code, and so no property.
* `Outbound`: a second `ftnpack` at the same time, flavors, zone and point
  directories, file attaches in netmail,
  `do_prog()`, `do_dirpack()`, the weekday in archive names, `rfc2ftn` as
  another writer of FLO files. With `BundleDisp` delete in place of truncate an
  archive is gone at once; the run has truncate, which is the one that can be
  added to afterwards. A kill of `ftnflo` between truncating an archive and marking
  its entry leaves an entry that `ftnpack`'s next search makes dangling; the
  code has no remedy, and `Delivered` excepts kills.
* `Router`, `Runinc`: `include` in the ROUTING file, the reader of the nodelist
  (its result, the known hubs, is in the configuration), `send_fidogate()`, the
  second inbound directory. `troute_scan()` is not called by anything.
* `Areafix`, `FixMail`: the index of rules, taken as given; areas in hierarchies;
  the wording of lists; `ftnafpkt -w`, which falls through to the usage text.
* `Tick`: TickFileAction and scripts, state letters of an area.
* Gateways: character sets, MIME and the header lines nothing depends on;
  `ftn2rfc -n`, `ftnin` (it calls `ftn2rfc` for the entries of a FLO file),
  `rfc2ftn -w`, `-W`, file attaches, X-Flags m, several lines of recipients with
  `-t`; areas with `-!` and hierarchies; `Z:N/F.P` as a domain, bang addresses,
  FallbackUsername; the FTN addresses in a text of NoFSC0047.
* `ftn2ftn`, the readers of configuration files, dates, logging, memory and the
  tools: single commands and text conversion without state of their own.
