----------------------------- MODULE MCAreafix ------------------------------
(* Instances of Areafix for TLC.                                            *)
EXTENDS Areafix, TLC

Plain   == [cmds |-> {"sub", "unsub"}, passthru |-> TRUE, create |-> FALSE,
            delete |-> TRUE, kills |-> 0]
Gated   == [Plain EXCEPT !.passthru = FALSE]
Killed  == [Plain EXCEPT !.cmds = @ \cup {"delete"}, !.create = TRUE, !.kills = 1]
Pausing == [Plain EXCEPT !.cmds = @ \cup {"passive", "active"}, !.delete = FALSE]

PassSetups == {Plain, Gated, Killed, Pausing}
=============================================================================
