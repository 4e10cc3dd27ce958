----------------------------- MODULE MCOutbound -----------------------------
(* Instances of Outbound for TLC.                                           *)
EXTENDS Outbound, TLC

CONSTANTS p1, p2, p3, a, b, c

\* All packets are echomail for node a, packed for a in in_dir.
Base == [pkts |-> {p1, p2}, files |-> File, to |-> [p \in Pkt |-> a],
         arcnode |-> [p \in Pkt |-> a],
         flonode |-> [p \in Pkt |-> a], net |-> [p \in Pkt |-> FALSE],
         noarc |-> [p \in Pkt |-> FALSE], same |-> TRUE, maxarc |-> 2,
         callers |-> {c}]

\* p2 is for b: packed for b, or via a (rpack); or netmail for a, to an archive
\* or to the .OUT file.
Two   == [Base EXCEPT !.to[p2] = b, !.arcnode[p2] = b, !.flonode[p2] = b]
Rpack == [Base EXCEPT !.to[p2] = b]
Net   == [Base EXCEPT !.net[p2] = TRUE]
Noarc == [Net EXCEPT !.noarc[p2] = TRUE]
Apart(conf) == [conf EXCEPT !.same = FALSE]

\* Three packets and two archives with room for one packet each.
Three == [Base EXCEPT !.pkts = Pkt, !.files = {}, !.maxarc = 1]

\* One packet, and two mailers that have seen its FLO file.
Race == [Base EXCEPT !.pkts = {p1}, !.files = {}, !.callers = Caller]

PassConfigs == {Two, Three, Noarc, Apart(Net), Apart(Rpack), Race}
=============================================================================
