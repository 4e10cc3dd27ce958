------------------------------ MODULE EchoMail ------------------------------
(***************************************************************************)
(* The SEEN-BY and ^APATH processing of ftntoss: what do_echomail() makes  *)
(* of the two lists of a message, and whom it sends the message to.        *)
(*                                                                         *)
(* An address is [node, point]: node stands for the net/node pair, point 0 *)
(* is the node itself.  Zones are left out, as SEEN-BY and ^APATH have     *)
(* none: all addresses belong to the zone of the area.  SEEN-BY is a set   *)
(* (its lines are sorted, and searched only), ^APATH a sequence.           *)
(***************************************************************************)
EXTENDS Naturals, Sequences, SequencesExt

Addr(Node, Point) == [node : Node, point : Point]

\* node_eq_echo_pa(): a point 0 of the first address matches any point.
EchoEqPA(a, b) == a.node = b.node /\ a.point \in {0, b.point}

\* Mutant: a point is not put in the place of its node.
Do4dSeenbyNode(seenby, from, self) == seenby \cup {self}

\* do_4dpoint(): a point's message names the point's node in SEEN-BY and in
\* ^APATH; if that is all they name, it is replaced by the address of the point.
Do4dSeenby(seenby, from, self) ==
  (IF \E a \in seenby : seenby = {a} /\ EchoEqPA(a, from) THEN {from} ELSE seenby)
    \cup {self}

Do4dPath(path, from) ==
  IF Len(path) = 1 /\ EchoEqPA(path[1], from) THEN <<from>> ELSE path

\* Make sure that the sender is in the ^APATH.
SenderInPath(path, from) ==
  IF path # <<>> /\ Last(path) = from THEN path ELSE Append(path, from)

\* do_seenby(): the nodes of the area that are not in SEEN-BY yet, except the
\* sender, the passive ones and the first cup - 1 uplinks.
NewNodes(seenby, nodes, passive, cup, from) ==
  {nodes[j] : j \in {i \in DOMAIN nodes :
                       /\ nodes[i] \notin seenby
                       /\ i >= cup /\ nodes[i] # from
                       /\ nodes[i] \notin passive}}

\* do_seenby() with the nodes of AddToSeenBy: its argument passive is NULL.
AddedNodes(seenby, nodes) == {}

\* do_path(): our address at the end of ^APATH, if it is not there.
DoPath(path, self) ==
  IF path # <<>> /\ Last(path) = self THEN path ELSE Append(path, self)

\* do_check_path(): one of our addresses in ^APATH before its end.
Circular(path, aka) == \E i \in 1 .. Len(path) - 1 : path[i] \in aka

\* do_deletepath(): the first of each of the nodes to delete.
DoDeletePath(path, del) ==
  LET first(i) == path[i] \in del /\ \A j \in 1 .. i - 1 : path[j] # path[i]
      kept == {i \in DOMAIN path : ~first(i)}
  IN [n \in 1 .. Cardinality(kept) |->
        path[CHOOSE i \in kept : Cardinality({j \in kept : j <= i}) = n]]

\* lon_to_kludge() and lon_to_kludge_sorted(): points are not written.
SeenbyLine(seenby) == {a \in seenby : a.point = 0}
PathLine(path)     == SelectSeq(path, LAMBDA a : a.point = 0)
=============================================================================
