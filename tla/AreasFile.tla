----------------------------- MODULE AreasFile ------------------------------
(***************************************************************************)
(* The lines of areas.bbs: an area with its options, its passive nodes and *)
(* its nodes, how it is written and how it is read again                   *)
(* (common/areasbbs.c), and the lists of nodes (common/node.c).            *)
(*                                                                         *)
(* A node list is written in short form: of an address only what differs   *)
(* from the one before it.  So an address that differs from a point of it  *)
(* in nothing but the point is written as nothing.                         *)
(***************************************************************************)
EXTENDS Routing, SequencesExt

NoNode == [f \in Fields |-> -1]

Order == <<"zone", "net", "node", "point">>

\* node_cmp()
NodeLess(a, b) ==
  \E k \in 1..4 : /\ a[Order[k]] < b[Order[k]]
                  /\ \A j \in 1..(k - 1) : a[Order[j]] = b[Order[j]]

\* node_to_asc_diff(): from the first part that differs on; a point if it has one.
ShortText(a, old) ==
  LET full == <<<<"", a.zone>>, <<":", a.net>>, <<"/", a.node>>>>
      point == IF a.point = 0 THEN <<>> ELSE <<<<".", a.point>>>>
  IN CASE a.zone # old.zone -> full \o point
       [] a.zone = old.zone /\ a.net # old.net ->
            <<<<"", a.net>>, <<"/", a.node>>>> \o point
       [] a.zone = old.zone /\ a.net = old.net /\ a.node # old.node ->
            <<<<"", a.node>>>> \o point
       [] OTHER -> point

-----------------------------------------------------------------------------
\* Lists of nodes, LON.

\* Addresses one after the other, each against the one before it.
ShortTexts(list) ==
  [i \in DOMAIN list |-> ShortText(list[i], IF i = 1 THEN NoNode ELSE list[i - 1])]

\* lon_remove(): the first that is equal.
LonRemove(list, a) ==
  IF a \in ToSet(list) THEN RemoveFirst(list, a) ELSE list

\* lon_sort(): all but the first n, which are the uplinks.
LonSorted(list, n) ==
  IF Len(list) <= n THEN list
  ELSE SubSeq(list, 1, n) \o SortSeq(SubSeq(list, n + 1, Len(list)), NodeLess)

\* Equal neighbours are written once.
Squeeze(list) ==
  LET f[i \in 0..Len(list)] ==
        IF i = 0 THEN <<>>
        ELSE IF i > 1 /\ list[i] = list[i - 1] THEN f[i - 1]
        ELSE Append(f[i - 1], list[i])
  IN f[Len(list)]

\* lon_print_sorted(); strtok() passes over what has been written as nothing.
WriteNodes(list, n) ==
  SelectSeq(ShortTexts(Squeeze(LonSorted(list, n))), LAMBDA t : t # <<>>)

\* lon_print_passive(), with commas, where nothing is an address too.
WritePassive(list) == ShortTexts(list)

\* areasbbs_add_string(), areasbbs_add_passive(): up to the first bad one.
ReadNext(r, found) ==
  IF ~r.ok \/ found = <<>> THEN [r EXCEPT !.ok = FALSE]
  ELSE [ok |-> TRUE, old |-> found[1], list |-> r.list \o found]

ReadList(texts) ==
  LET f[i \in 0..Len(texts)] ==
        IF i = 0 THEN [old |-> Nowhere, list |-> <<>>, ok |-> TRUE]
        ELSE ReadNext(f[i - 1], Complete(texts[i], f[i - 1].old))
  IN f[Len(texts)].list

-----------------------------------------------------------------------------
\* An area: [name, passthru, readonly, zone, lvl, key, state, uplinks, nodes,
\* passive]; key and state are sets of letters.

\* areasbbs_print(): readonly is not written.
WriteArea(p) ==
  [name |-> p.name, passthru |-> p.passthru, zone |-> p.zone, lvl |-> p.lvl,
   key |-> p.key, state |-> p.state, uplinks |-> p.uplinks,
   passive |-> WritePassive(p.passive), nodes |-> WriteNodes(p.nodes, p.uplinks)]

\* areasbbs_parse_line(): an area without a zone has that of its uplink.
ReadArea(line) ==
  [name |-> line.name, passthru |-> line.passthru,
   readonly |-> "readonly" \in DOMAIN line, lvl |-> line.lvl, key |-> line.key,
   state |-> line.state, uplinks |-> line.uplinks,
   passive |-> ReadList(line.passive), nodes |-> ReadList(line.nodes),
   zone |-> IF line.zone # -1 THEN line.zone
            ELSE IF line.nodes # <<>> THEN ReadList(line.nodes)[1].zone ELSE 0]

\* A node stands right behind a point of its own in a list as it is written.
BehindPoint(p) ==
  LET Behind(list) ==
        \E i \in 2..Len(list) : list[i].point = 0 /\ list[i - 1].point # 0
                                /\ [list[i - 1] EXCEPT !.point = 0] = list[i]
  IN Behind(LonSorted(p.nodes, p.uplinks)) \/ Behind(p.passive)

\* areasbbs_isstate(), areasbbs_chstate().
IsState(p, letters) == p.state \cap letters # {}
ChState(p, old, new) ==
  IF new \in p.state THEN p ELSE [p EXCEPT !.state = (@ \ old) \cup {new}]
=============================================================================
