------------------------------ MODULE Areafix -------------------------------
(***************************************************************************)
(* One area of areas.bbs, its links and its uplink: the commands that      *)
(* links send to areafix, the runs of ftnafutil, and what ftntoss does to  *)
(* the state of the area.  Each program has areas.bbs.lock while it runs,  *)
(* so that its changes are one step here (AreasBbs); the requests it sends *)
(* go to the uplink as netmail, which answers them in its own time.        *)
(*                                                                         *)
(* The uplink, the first of the nodes of the area, is not in nodes here.   *)
(* Levels, keys, limits and mandatory areas only refuse commands, which    *)
(* is as good as not sending them; FixCommands has them, with more areas.  *)
(***************************************************************************)
EXTENDS Naturals, Sequences

CONSTANTS
  Link,       \* the links of the system other than the uplink
  NoArea,       \* no area
  Setups,     \* commands and options, one of which the run uses
  MaxRequest, \* bound: requests under way to the uplink
  MaxMail,    \* bound: messages under way from the uplink
  MaxOnce     \* bound: runs of ftnafutil (un)resubscribe, areas deleted
              \* by links, messages of links

ASSUME AreaAssumption ==
  NoArea \notin Link /\ {MaxRequest, MaxMail, MaxOnce} \subseteq Nat

State == {"S", "U", "W", "F", "P"}

VARIABLES
  setup,    \* [cmds: the commands in use; passthru; create: the uplink may
            \*  create areas; delete: cron runs ftnafutil delete; kills: how
            \*  many programs may be killed before areasbbs_rewrite() is done]
  area,     \* NoArea or [nodes, passive, state, old: time is past the time-out]
  requests, \* to the uplink: "+" and "-"
  upsub,    \* the uplink sends us the area
  asked,    \* the last request sent, if any
  mail,     \* messages of the uplink under way
  told,     \* links the last step has told that they lost the area
  hungry,   \* links in nodes, active, that had no message for some days
  once, kills

areavars == <<setup, area, requests, upsub, asked, mail, told, hungry, once, kills>>

Area == [nodes : SUBSET Link, passive : SUBSET Link, state : SUBSET State,
         old : BOOLEAN]

ASSUME NoneAssumption == NoArea \notin Area

\* cmd_new_int() with the options of the uplink: a new area, its time is now.
NewArea(st) == [nodes |-> {}, passive |-> {}, state |-> {st}, old |-> FALSE]

AreaInit ==
  /\ setup \in Setups
  /\ area \in {NoArea, NewArea("S")}
  /\ requests = <<>>
  /\ upsub = (area # NoArea)
  /\ asked = IF upsub THEN "+" ELSE "-"
  /\ mail = 0
  /\ told = {}
  /\ hungry = {}
  /\ once = 0
  /\ kills = 0

\* Mutant: the old states go, the new one is not set.
ChStateForgets(st, old, new) == st \ old

\* areasbbs_chstate(): nothing is done when the new state is set already.
ChState(st, old, new) == IF new \in st THEN st ELSE (st \ old) \cup {new}

Is(letters) == area.state \cap letters # {}

\* Who is sent the messages of the area.
Readers(a) == IF a = NoArea THEN {} ELSE a.nodes \ a.passive

Nodes   == IF area = NoArea THEN {} ELSE area.nodes
Passive == IF area = NoArea THEN {} ELSE area.passive
Active  == Nodes \ Passive

\* tl_appendf(upl, ...) and send_request(): netmail to the areafix of the uplink.
SendRequests(rs) ==
  /\ Len(requests) + Len(rs) <= MaxRequest
  /\ requests' = requests \o rs
  /\ asked' = IF rs = <<>> THEN asked ELSE rs[Len(rs)]

\* areasbbs_rewrite(): the change is in the file, unless the program is killed
\* or fails when the requests have been sent already.
Rewrite(a) ==
  \/ area' = a /\ UNCHANGED kills
  \/ kills < setup.kills /\ kills' = kills + 1 /\ UNCHANGED area

\* What a program does to the area: a is what it writes, rs what it asks the
\* uplink for, and whom are the links it tells that they have lost the area.
Run(a, rs, whom) ==
  /\ SendRequests(rs)
  /\ Rewrite(a)
  /\ told' = whom
  /\ hungry' = hungry \cap Readers(area')
  /\ UNCHANGED <<setup, upsub, mail>>

Once == once < MaxOnce /\ once' = once + 1

Command(c) == c \in setup.cmds /\ UNCHANGED once

-----------------------------------------------------------------------------
(* The commands of areafix. *)

\* cmd_sub(): a known area.  Where the uplink does not send it, it is asked to.
SubKnown(l) ==
  /\ area # NoArea /\ l \notin area.nodes
  /\ Command("sub")
  /\ LET joined == [area EXCEPT !.nodes = @ \cup {l}]
     IN  IF Is({"U", "P"})
         THEN Run([joined EXCEPT !.state = ChState(@, {"U", "P"}, "W"),
                                 !.passive = @ \ {l}, !.old = FALSE],
                  <<"+">>, {})
         ELSE Run(joined, <<>>, {})

\* cmd_sub(): a link that is passive but in the list of nodes, too.
SubPassive(l) ==
  /\ l \in Nodes \cap Passive
  /\ Command("sub")
  /\ Run([area EXCEPT !.passive = @ \ {l}], <<>>, {})

\* cmd_sub(): the area is one the uplink has, and is requested from it.
SubForward(l) ==
  /\ area = NoArea
  /\ Command("sub")
  /\ Run([NewArea("F") EXCEPT !.nodes = {l}], <<"+">>, {})

\* cmd_unsub(): a passthru area without nodes is given up at the uplink.
Unsub(l) ==
  /\ l \in Nodes
  /\ Command("unsub")
  /\ LET left == [area EXCEPT !.nodes = @ \ {l}, !.passive = @ \ {l}]
     IN  IF left.nodes = {} /\ setup.passthru
         THEN Run([left EXCEPT !.state = ChState(@, {"S", "W", "F"}, "U")],
                  <<"-">>, {l})
         ELSE Run(left, <<>>, {l})

\* cmd_passive(): when the last node goes, the area is given up at the uplink.
SetPassive(l) ==
  /\ l \in Active
  /\ Command("passive")
  /\ LET moved == [area EXCEPT !.nodes = @ \ {l}, !.passive = @ \cup {l}]
     IN  IF moved.nodes = {}
         THEN Run([moved EXCEPT !.state = IF Is({"W", "F", "S"})
                                          THEN ChState(@, {"W", "F", "S"}, "P")
                                          ELSE @,
                                !.old = FALSE],
                  <<"-">>, {l})
         ELSE Run(moved, <<>>, {l})

\* cmd_active(): the first node to come back asks for the area again.
SetActive(l) ==
  /\ l \in Passive \ Nodes
  /\ Command("active")
  /\ LET moved == [area EXCEPT !.nodes = @ \cup {l}, !.passive = @ \ {l}]
     IN  IF area.nodes = {}
         THEN Run([moved EXCEPT !.state = IF Is({"P", "U"})
                                          THEN ChState(@, {"P"}, "W") ELSE @],
                  <<"+">>, {})
         ELSE Run(moved, <<>>, {})

\* cmd_delete(): a link with the right to do so deletes the area.
Delete(l) ==
  /\ area # NoArea
  /\ "delete" \in setup.cmds /\ Once
  /\ Run(NoArea, <<>>, {l})

-----------------------------------------------------------------------------
(* The runs of ftnafutil. *)

\* Mutant: only a forwarded request times out.
TimedOutForward == area.old /\ Is({"F"})

\* Nobody has answered our request in time.
TimedOut == area.old /\ Is({"F", "W"})

\* No message has come in time.
NoTraffic == area.old /\ Is({"S"}) /\ ~TimedOut

\* Mutant: only areas without messages are looked at.
UnusedNever == FALSE

\* The area is passed on to nobody.
Unused == Is({"S"}) /\ ~TimedOut /\ area.nodes = {} /\ setup.passthru

\* Mutant: nobody is told.
NotifiedNobody == {}

\* do_mail_notify() to every node but the uplink.
Notified == area.nodes

\* DO_EXPIRE: the area is given up at the uplink, and its nodes are told.
Expire ==
  /\ area # NoArea
  /\ UNCHANGED once
  /\ LET left(st) == [area EXCEPT !.nodes = {}, !.old = FALSE,
                                  !.state = ChState(@, {st}, "U")]
     IN  \/ TimedOut /\ Is({"F"}) /\ Run(NoArea, <<"-">>, Notified)
         \/ TimedOut /\ ~Is({"F"}) /\ Run(left("W"), <<"-">>, Notified)
         \/ (NoTraffic \/ Unused) /\ Run(left("S"), <<"-">>, Notified)

\* DO_DELETE: areas that are not subscribed at the uplink.
DeleteDead ==
  /\ setup.delete
  /\ area # NoArea /\ Is({"U"})
  /\ UNCHANGED once
  /\ Run(NoArea, <<>>, {})

\* DO_RESUBSCRIBE
Resubscribe ==
  /\ area # NoArea /\ Is({"S", "F", "W"})
  /\ Once
  /\ Run([area EXCEPT !.old = FALSE], <<"+">>, {})

\* DO_UNRESUBSCRIBE
Unresubscribe ==
  /\ area # NoArea
  /\ Once
  /\ IF Is({"S", "F", "W"}) THEN Run([area EXCEPT !.old = FALSE], <<"-", "+">>, {})
                            ELSE Run(area, <<"-">>, {})

-----------------------------------------------------------------------------
(* ftntoss *)

\* do_echomail(): a message that is let through feeds the active nodes but its
\* author, and the area is subscribed, whoever has written it.
Feed(author) ==
  IF Is({"U", "W", "F"}) \/ ~Is({"P"})
  THEN /\ Rewrite([area EXCEPT !.old = FALSE,
                     !.state = IF Is({"U", "W", "F"})
                               THEN ChState(@, {"U", "W", "F"}, "S") ELSE @])
       /\ hungry' = hungry \ (Active \ author)
  ELSE UNCHANGED <<area, hungry, kills>>

\* A message of the uplink arrives; an area not known is created or the message
\* is set aside.
TossMail ==
  /\ mail > 0
  /\ mail' = mail - 1
  /\ told' = {}
  /\ IF area # NoArea THEN Feed({})
     ELSE /\ IF setup.create THEN Rewrite(NewArea("S")) ELSE UNCHANGED <<area, kills>>
          /\ UNCHANGED hungry
  /\ UNCHANGED <<setup, requests, upsub, asked, once>>

\* A message of a node, or of the gateway (nobody in Link) where the area is
\* gated: bad as long as the uplink has not sent any.
TossPost ==
  /\ area # NoArea /\ ~Is({"W"})
  /\ Once
  /\ \E author \in {{l} : l \in Nodes} \cup (IF setup.passthru THEN {} ELSE {{}}) :
       Feed(author)
  /\ told' = {}
  /\ UNCHANGED <<setup, requests, upsub, asked, mail>>

-----------------------------------------------------------------------------
(* The uplink, and the days. *)

\* The areafix of the uplink takes a request; it may refuse to subscribe us.
TakeRequest ==
  /\ requests # <<>>
  /\ requests' = Tail(requests)
  /\ \/ upsub' = (Head(requests) = "+")
     \/ Head(requests) = "+" /\ upsub' = FALSE
  /\ told' = {}
  /\ UNCHANGED <<setup, area, asked, mail, hungry, once, kills>>

UplinkSends ==
  /\ upsub /\ mail < MaxMail
  /\ mail' = mail + 1
  /\ told' = {}
  /\ UNCHANGED <<setup, area, requests, upsub, asked, hungry, once, kills>>

\* More days pass than AreaFixRequestTimeout and AreaFixNoTrafficTimeout allow.
DaysPass ==
  /\ area # NoArea
  /\ area' = [area EXCEPT !.old = TRUE]
  /\ hungry' = Active
  /\ told' = {}
  /\ UNCHANGED <<setup, requests, upsub, asked, mail, once, kills>>

AreaNext ==
  \/ \E l \in Link : SubKnown(l) \/ SubPassive(l) \/ SubForward(l) \/ Unsub(l)
                     \/ SetPassive(l) \/ SetActive(l) \/ Delete(l)
  \/ Expire \/ DeleteDead \/ Resubscribe \/ Unresubscribe
  \/ TossMail \/ TossPost
  \/ TakeRequest \/ UplinkSends \/ DaysPass

AreaSpec == AreaInit /\ [][AreaNext]_areavars

\* cron runs ftnafutil expire and ftntoss, and the uplink answers.  The days
\* without a message add up, when no more come.
FairSpec ==
  /\ AreaSpec
  /\ SF_areavars(Expire) /\ WF_areavars(TossMail)
  /\ WF_areavars(TakeRequest) /\ WF_areavars(mail = 0 /\ DaysPass)

-----------------------------------------------------------------------------
AreaTypeOK ==
  /\ area \in Area \cup {NoArea} /\ (area # NoArea => area.state # {})
  /\ requests \in Seq({"+", "-"}) /\ Len(requests) <= MaxRequest
  /\ upsub \in BOOLEAN /\ asked \in {"+", "-"}
  /\ mail \in 0..MaxMail
  /\ told \subseteq Link /\ hungry \subseteq Active
  /\ once \in 0..MaxOnce /\ kills \in 0..setup.kills

\* The state of an area says what the uplink was asked last: an area that waits
\* for its first message has been requested, and one that is given up has been
\* cancelled, in whatever order links come and go.  U and W together, which
\* SetActive makes of U, say neither.
AskedUplink ==
  kills = 0 /\ area # NoArea =>
    /\ Is({"W", "F"}) /\ ~Is({"U"}) => asked = "+"
    /\ area.state \subseteq {"U", "P"} => asked = "-"

\* No link loses the area without its own command, or the delete command of
\* another, or a message that says so.
NoSilentLoss ==
  [][(\E l \in Link : Delete(l)) \/ (Active \ Active') \subseteq told']_areavars

\* A link that is subscribed is sent messages, or it is told that there are
\* none: there is no area that looks subscribed and is dead.
FedOrTold == \A l \in Link : l \in hungry ~> l \notin hungry

Unread == area = NoArea \/ (setup.passthru /\ area.nodes = {})

\* The uplink does not go on for ever sending an area nobody reads, though its
\* messages cross our request to stop and set the area to subscribed.
Quiet == ~(<>[]Unread /\ []<>(mail > 0))
=============================================================================
