------------------------------ MODULE GateText ------------------------------
(***************************************************************************)
(* What the two gateways share: how the text of an FTN message is split    *)
(* into control information and body (pkt_get_body_parse), and how message *)
(* identifications are converted between FTN and RFC (msgid.c).            *)
(*                                                                         *)
(* A line is [c |-> class, n |-> name, v |-> value]; the classes are       *)
(*   kludge area rfc tear origin via path seenby blank text rest           *)
(* and the name is that of the kludge or of the RFC header.  A "rest" is   *)
(* the last line when no CR ends it; its name is the class it looks like.  *)
(***************************************************************************)
EXTENDS Addresses, FiniteSets

CONSTANT
  MaxFault   \* bound: failing calls and kills

VARIABLES
  db,        \* the Message-ID database: [serial, rfc]
  faults

Fault == faults < MaxFault /\ faults' = faults + 1
Fine  == UNCHANGED faults

(* kludge_get, rfcheader_get: the first line of that name                  *)
Kludge(ls, name) ==
  LET hit == SelectSeq(ls, LAMBDA l : l.c \in {"kludge", "rfc"} /\ l.n = name)
  IN  IF hit = <<>> THEN NONE ELSE hit[1].v

(*************************** reading the message ***************************)

NoBody ==
  [mode |-> "hi", blanks |-> 3, ret |-> "ERROR", unread |-> FALSE,
   area |-> NONE, kludge |-> <<>>, rfc |-> <<>>, body |-> <<>>,
   tear |-> <<>>, origin |-> <<>>, control |-> FALSE, buffer |-> NONE,
   via |-> <<>>, seenby |-> <<>>, path |-> <<>>]

(* A body line: the tear line and the origin held back so far turn out to  *)
(* be text, one of them for each line that follows.  After a line of       *)
(* routing information there is no more text.                              *)
Held(b, h) == [b EXCEPT !.body = @ \o h]
BodyLine(b, l) ==
  CASE b.tear # <<>> -> [Held(b, b.tear \o <<l>>) EXCEPT !.tear = <<>>]
    [] b.tear = <<>> /\ b.origin # <<>>
         -> [Held(b, b.origin \o <<l>>) EXCEPT !.origin = <<>>]
    [] OTHER -> IF b.control THEN b ELSE Held(b, <<l>>)

TextStep(b, l) ==
  LET routing == IF b.area = NONE THEN {"via"} ELSE {"path", "seenby"}
  IN  CASE l.c = "tear" /\ b.tear = <<>>     -> [b EXCEPT !.tear = <<l>>]
        [] l.c = "origin" /\ b.origin = <<>> -> [b EXCEPT !.origin = <<l>>]
        [] l.c \in routing ->
             [b EXCEPT !.control = TRUE,
                       !.via    = IF l.c = "via" THEN Append(@, l) ELSE @,
                       !.path   = IF l.c = "path" THEN Append(@, l) ELSE @,
                       !.seenby = IF l.c = "seenby" THEN Append(@, l) ELSE @]
        [] OTHER -> BodyLine(b, l)

RfcStep(b, l) ==
  IF l.c = "rfc"
  THEN [b EXCEPT !.rfc = Append(@, l)]
  ELSE TextStep([b EXCEPT !.mode = "text",
                          !.ret = IF b.area = NONE THEN "OK" ELSE @], l)

BlankStep(b, l) ==
  LET n == b.blanks - 1
  IN  IF l.c = "blank" /\ n > 0
      THEN [b EXCEPT !.blanks = n]
      ELSE RfcStep([b EXCEPT !.mode = "rfc", !.blanks = n], l)

(* The kludges and the AREA: line come first; a message that has neither   *)
(* is given up at its first line, and the rest of it is not read.          *)
HiStep(b, l) ==
  CASE l.c \in {"kludge", "via", "path"} ->
         [b EXCEPT !.kludge = Append(@, l), !.ret = "OK"]
    [] l.c = "area" /\ b.area = NONE -> [b EXCEPT !.area = l.v, !.ret = "OK"]
    [] OTHER -> IF b.ret = "OK" THEN BlankStep([b EXCEPT !.mode = "blank"], l)
                                ELSE [b EXCEPT !.mode = "error", !.unread = TRUE]

(* An incomplete last line ends the loop: it is put nowhere, and stays in  *)
(* the buffer.  When the message has been given up it is not even read.    *)
ReadStep(b, l) ==
  IF b.mode # "error" /\ l.c = "rest"
  THEN [b EXCEPT !.buffer = IF l.n = "origin" THEN l.v ELSE NONE]
  ELSE CASE b.mode = "hi"    -> HiStep(b, l)
         [] b.mode = "blank" -> BlankStep(b, l)
         [] b.mode = "rfc"   -> RfcStep(b, l)
         [] b.mode = "text"  -> TextStep(b, l)
         [] OTHER            -> b

(* In echomail missing control lines are made up at the end.  For the      *)
(* Origin line what is left in the buffer is taken, be it text or nothing: *)
(* it has an address when it is an Origin line.                            *)
MadeUp(c, v) == [c |-> c, n |-> "", v |-> v]
Finish(b) ==
  IF b.area = NONE \/ b.mode = "error" THEN b
  ELSE [b EXCEPT !.tear   = IF @ = <<>> THEN <<MadeUp("tear", NONE)>> ELSE @,
                 !.origin = IF @ = <<>> THEN <<MadeUp("origin", b.buffer)>> ELSE @,
                 !.seenby = IF @ = <<>> THEN <<MadeUp("seenby", NONE)>> ELSE @,
                 !.path   = IF @ = <<>> THEN <<MadeUp("path", NONE)>> ELSE @]

ReadBody(lines) == Finish(Walk(ReadStep, NoBody, lines))

(************************* addresses of the message ************************)

(* kludge_pt_intl takes what the kludges say.                              *)
Intl(b, msg) ==
  LET intl == Kludge(b.kludge, "INTL")
      fmpt == Kludge(b.kludge, "FMPT")
      topt == Kludge(b.kludge, "TOPT")
      to   == IF intl = NONE THEN msg.to ELSE intl[1]
      from == IF intl = NONE THEN msg.from ELSE intl[2]
  IN  [from |-> IF fmpt = NONE THEN from ELSE [from EXCEPT !.point = fmpt],
       to   |-> IF topt = NONE THEN to ELSE [to EXCEPT !.point = topt]]

(* msg_parse_origin, msg_parse_msgid: NONE when there is no FTN address    *)
OriginAddr(b) == IF b.origin = <<>> THEN NONE ELSE b.origin[1].v
MsgidAddr(b) ==
  LET id == Kludge(b.kludge, "MSGID")
  IN  IF id = NONE \/ id.k # "ftn" THEN NONE ELSE id.addr

(************************ message identifications **************************)

(* FTN: [k |-> "ftn", addr, serial] or the Gatebau form                     *)
(*      [k |-> "rfc", id, serial]: "<id@host> crc"                          *)
(* RFC: [k |-> "own", id]; what the gateway makes: [k |-> "MSGID", of] and   *)
(*      [k |-> "NOMSGID", of]; the old style [k |-> "hex", addr, serial]     *)
UnknownZone(msgid) ==
  msgid.k # "rfc" /\ (msgid.addr = NONE \/ ~ZoneServed(msgid.addr.zone))

(* References are looked up first in the database of the gated IDs, whose  *)
(* key is the serial number alone.                                         *)
FidoToRfc(msgid, reference, default, known) ==
  LET found == {e \in known : e.serial = msgid.serial}
  IN  CASE reference /\ found # {} -> (CHOOSE e \in found : TRUE).rfc
        [] reference /\ found = {} /\ default # NONE -> default
        [] OTHER -> IF msgid.k = "rfc" THEN msgid.id
                                       ELSE [k |-> "MSGID", of |-> msgid]

(* The serial of an RFC ID is its checksum with the area, plus the number  *)
(* of the part less one.                                                   *)
Serial(id, area, part) == <<id, area, part>>
RfcToFido(id, area, part, split, style) ==
  CASE id.k = "NOMSGID" -> NONE
    [] id.k = "hex" /\ ~split -> [k |-> "ftn", addr |-> id.addr, serial |-> id.serial]
    [] id.k = "MSGID" -> id.of
    [] OTHER -> IF style = "rfc"
                THEN [k |-> "rfc", id |-> id, serial |-> Serial(id, area, part)]
                ELSE [k |-> "crc", serial |-> Serial(id, area, part)]
=============================================================================
