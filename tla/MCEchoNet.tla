----------------------------- MODULE MCEchoNet -----------------------------
(* Instances of EchoNet for TLC: small networks of four systems. *)
EXTENDS EchoNet, TLC

CONSTANTS a, b, c, d

\* Nodes 1 to 4, and the point 2.1 of node 2, which system d is in some nets.
N(n) == [node |-> n, point |-> 0]
P21  == [node |-> 2, point |-> 1]

FourNodes == a :> N(1) @@ b :> N(2) @@ c :> N(3) @@ d :> N(4)
WithPoint == [FourNodes EXCEPT ![d] = P21]

Empty == [s \in Sys |-> {}]

\* A network of four nodes, without history, path check and further lists.
Plain(addr, nodes) ==
  [addr |-> addr, nodes |-> nodes,
   uplinks |-> [s \in Sys |-> 1], passive |-> Empty,
   aka |-> [s \in Sys |-> {addr[s]}], otherAka |-> FALSE,
   addTo |-> Empty, del |-> Empty, delPath |-> FALSE,
   gateway |-> [s \in Sys |-> TRUE],
   dupeCheck |-> FALSE, checkPath |-> FALSE, tree |-> FALSE]

\* a - b - c, and the point under b.
Tree == [Plain(WithPoint, a :> <<N(2)>> @@ b :> <<N(1), N(3), P21>>
                            @@ c :> <<N(2)>> @@ d :> <<N(2)>>)
         EXCEPT !.tree = TRUE]

\* b is an uplink of c, takes messages from a without sending any to it, and
\* has an AddToSeenBy list, which adds nothing.
PassiveTree == [Tree EXCEPT !.passive[b] = {N(1)}, !.uplinks[b] = 2,
                            !.addTo[b] = {N(4)}]

\* a - b - c - d - a, with and without a history, b with a second address.
Ring == Plain(FourNodes, a :> <<N(2), N(4)>> @@ b :> <<N(1), N(3)>>
                           @@ c :> <<N(2), N(4)>> @@ d :> <<N(3), N(1)>>)
RingPath   == [Ring EXCEPT !.checkPath = TRUE,
                             !.del = [s \in Sys |-> {N(1), N(2), N(3), N(4)}]]
RingDupe   == [Ring EXCEPT !.dupeCheck = TRUE]
RingDelete == [RingDupe EXCEPT !.del[b] = {N(1), N(2), N(4)}, !.delPath = TRUE]

\* The ring with c - a as well, and with a point under b in place of d.
Dense == [Plain(WithPoint, a :> <<N(2), N(3)>> @@ b :> <<N(1), N(3), P21>>
                             @@ c :> <<N(1), N(2), P21>> @@ d :> <<N(2), N(3)>>)
          EXCEPT !.dupeCheck = TRUE, !.aka[b] = {N(2), N(5)}, !.otherAka = TRUE]

AllNets == {Tree, PassiveTree, Ring, RingPath, RingDupe, RingDelete, Dense}
=============================================================================
