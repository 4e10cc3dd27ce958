------------------------------- MODULE MCTick -------------------------------
(* Instances of Tick for TLC.                                               *)
EXTENDS Tick, TLC

CONSTANTS u, x, y, a, b, F, G, t1, t2, h

\* u sends; x and y are downlinks, x passive in the second area.
Open(p)  == [nodes |-> <<u, x, y>>, uplinks |-> 1, passive |-> {},
             passthru |-> p, fresh |-> FALSE]
Half     == [Open(FALSE) EXCEPT !.passive = {x}]
Created  == [nodes |-> <<u>>, uplinks |-> 1, passive |-> {}, passthru |-> TRUE,
             fresh |-> TRUE]

Announce(ar, fi, from, seen, rep) ==
  [area |-> ar, file |-> fi, from |-> from, seenby |-> seen, replaces |-> rep,
   key |-> <<ar, fi>>, othersize |-> {}, pw |-> "right"]

Base ==
  [info |-> (t1 :> Announce(a, F, u, {}, NONE) @@ t2 :> Announce(a, F, u, {}, F)
             @@ h :> Announce(b, G, u, {}, NONE)),
   order |-> <<t1, t2>>, comes |-> {t1, t2}, calls |-> {},
   areas |-> (a :> Open(FALSE) @@ b :> Half),
   create |-> NONE, unknown |-> NONE, hatch |-> NONE,
   wait |-> TRUE, action |-> "bad", kill_dupe |-> FALSE, history |-> TRUE,
   crc |-> FALSE, ignore |-> FALSE, xrdir |-> FALSE,
   insecure |-> FALSE, checkpw |-> TRUE]

\* Two versions of a file, in an area and in a pass-through area.
Versions == {[Base EXCEPT !.areas[a] = Open(p), !.action = act, !.xrdir = p,
                            !.calls = IF p THEN {y} ELSE {}] :
               p \in BOOLEAN, act \in {"bad", "delete", "undefined"}}
\* The same file from two sides; one of them may have the wrong size.
Dupes ==
  {[Base EXCEPT !.info[t2] = [Announce(a, F, y, s, NONE) EXCEPT !.othersize = w],
                !.kill_dupe = k, !.wait = k, !.crc = ~k] :
     s \in {{}, {x}}, w \in {{}, {t1}}, k \in BOOLEAN}
\* Areas that are not known, and a file that replaces another one.
Unknown ==
  {[Base EXCEPT !.areas[b] = NONE, !.create = c, !.unknown = un, !.action = act,
                !.info[t2] = [Announce(b, G, u, {}, NONE) EXCEPT !.pw = w]] :
     c \in {NONE, Created}, un \in {NONE, a}, act \in {"bad", "other"},
     w \in {"wrong", "right"}}
Other ==
  {[Base EXCEPT !.info[t2] = Announce(b, G, fr, {}, F), !.hatch = ha,
                !.comes = co, !.history = FALSE, !.info[t1].area = b] :
     fr \in {u, y}, ha \in {NONE, h}, co \in {{t1, t2}, {t2}}}

AllConfigs   == Versions \cup Dupes \cup Unknown \cup Other
=============================================================================
