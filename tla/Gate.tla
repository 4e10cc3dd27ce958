--------------------------------- MODULE Gate ---------------------------------
(***************************************************************************)
(* Both gateways at work on one host.  They share the Message-ID database: *)
(* rfc2ftn remembers there under which FTN identification it sent an       *)
(* article, and ftn2rfc looks there for what a reply refers to.  A packet  *)
(* with replies comes when the packet of what it answers has been sent.    *)
(***************************************************************************)
EXTENDS GateIn, GateOut

CONSTANT Scenarios \* [in, out]: what the two programs have to do

(* Messages, articles, targets and lines come as sequences.                 *)
IsList(s) == s \in Seq(Range(s))
Sound(s) ==
  /\ \A p \in Packet : IsList(s.in.content[p])
  /\ IsList(s.out.jobs)
  /\ \A j \in DOMAIN s.out.jobs :
       LET job == s.out.jobs[j] IN
       /\ {"kind", "arts"} \subseteq DOMAIN job /\ IsList(job.arts)
       /\ \A i \in DOMAIN job.arts :
            LET a == job.arts[i] IN
            /\ {"there", "targets", "lines"} \subseteq DOMAIN a
            /\ a.there \in BOOLEAN /\ IsList(a.targets) /\ IsList(a.lines)
ASSUME ScenariosAssumption == \A s \in Scenarios : Sound(s)

gvars == <<inown, outown, db, faults>>

Init ==
  /\ \E s \in Scenarios : InInit(s.in) /\ OutInit(s.out)
  /\ db = {} /\ faults = 0

SentOut == \* the FTN messages that other systems can answer
  UNION {{outp[n].items[i] : i \in DOMAIN outp[n].items} :
         n \in {n \in DOMAIN outp : outp[n].ext = "pkt"}}
Arrive(p) ==
  /\ pkt[p] = "away" /\ content[p] # <<>>
  /\ \A i \in DOMAIN content[p] : \E x \in SentOut :
       MsgidOf(x) = Kludge(Body(<<p, i>>).kludge, "REPLY")
  /\ pkt' = [pkt EXCEPT ![p] = "in"]
  /\ UNCHANGED <<opt, content, unpackv, spool, postv, handed, outcome, outown, db, faults>>

In_  == UNCHANGED outown
Out_ == UNCHANGED inown
Next ==
  \/ InNext /\ In_
  \/ (OutStep \/ OutKill) /\ Out_
  \/ \E p \in Packet : Arrive(p)

(* The mailer and the news server start the programs again and again.      *)
Fairness ==
  /\ WF_gvars(GateInStep /\ In_) /\ WF_gvars(PostStep /\ In_)
  /\ WF_gvars(OutStep /\ Out_) /\ \A p \in Packet : WF_gvars(Arrive(p))
Spec == Init /\ [][Next]_gvars /\ Fairness

(******************************* properties ********************************)

(* An FTN reply to an article that rfc2ftn gated is posted with the        *)
(* Message-ID of that article as its reference, unless the history was     *)
(* locked by another program (msgid.c:130, msgid.c:107).                   *)
ThreadBack ==
  \A k \in Key : \A x \in SentOut :
    LET a == ArticleOf(x)
    IN  (/\ outcome[k].what = "gated"
         /\ outcome[k].item.kind = "news" /\ ~outcome[k].busy
         /\ given[x.key] = "sent" /\ a.id # NONE /\ a.id.k = "own"
         /\ Kludge(Body(k).kludge, "REPLY") = MsgidOf(x)
         /\ Kludge(Body(k).kludge, "ORIGREF") = NONE
         /\ oopt.style = "rfc" \/ opt.dbc)
        => outcome[k].item.refs = a.id

(* An answer to the RFC address that ftn2rfc gave to the sender of a       *)
(* message goes to him: rfc2ftn makes the same name and address of it.     *)
(* Where HOSTS shows no points it goes to the boss of a point; characters  *)
(* that both directions change, a zone without a domain and an alias that  *)
(* is another person's are the exceptions (rfcaddr.c:88, rfc2ftn.c:486).   *)
Unchanged(name) ==
  /\ ToSet(name) \cap ({DOT, UNDER, PERCENT, QUOTE, BACKSLASH} \cup 0..31) = {}
  /\ ~Eq(name, Postmaster)
ReplyBack ==
  \A k \in Key :
    LET b == Body(k)
        m == content[k[1]][k[2]]
        n == m.source
        h == HostOf(opt.hosts, n)
        rfc == [outcome[k].item.from EXCEPT !.real = <<>>]
        back == MailReceiver(rfc, NodeOf(rfc))
        al == AliasLookup(oopt.aliases, n, CvtUserName(Unquoted(rfc.user)))
    IN  (/\ outcome[k].what = "gated"
         /\ RfcFrom(b) = NONE /\ n # NONE
         /\ h = NONE => ZoneDomain(n.zone) # Site.invalid
         /\ Unchanged(m.sender)
         /\ al # NONE => al.full = m.sender /\ al.dom = NONE)
        => /\ Eq(back.name, Fitting(m.sender))
           /\ back.node = IF h = NONE \/ h.pointed \/ Nameless(h) \/ h.node.point > 0 THEN n ELSE Boss(n)

(* Replies refer to what they answer, on either side of the gateway, and   *)
(* go to whom they answer (msgid.c:130, address.c:130).                    *)
ThreadsKept == ThreadKept /\ ThreadBack /\ ReplyBack

(* What is gated arrives, on either side of the gateway: the complete      *)
(* lines all and in order up to the routing lines of a message, and        *)
(* readable again in the parts of an article and in the headers and lines  *)
(* of its packet (message.c:608, rfc2ftn.c:957).                           *)
TextsKept == TextKept /\ TextBack /\ HeadersBack /\ LinesBack

(* Everything that is to be gated is dealt with in the end, in both        *)
(* directions.                                                             *)
AllGated == []<>(/\ \A p \in Packet : pkt[p] # "in"
                 /\ Published("mail") \o Published("news") = <<>>
                 /\ jn > Len(jobs))
=============================================================================
