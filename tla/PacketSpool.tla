---------------------------- MODULE PacketSpool ----------------------------
(***************************************************************************)
(* What common/outpkt.c promises the programs that write packets: messages *)
(* handed over for one destination wait together, in the order they were   *)
(* handed over, and become a packet of the output directory all at once.   *)
(* A crash or a failing call loses some of those that wait, the last first.*)
(***************************************************************************)
EXTENDS Naturals, Sequences, SequencesExt

CONSTANTS
  Key,     \* destinations: from, to, grade, type, flavour, bad
  Msg      \* messages

VARIABLES
  pending,    \* messages of each destination that wait for outpkt_close()
  published,  \* packets of each destination, in the order they appeared
  losses      \* crashes and failing calls so far

spool == <<pending, published, losses>>

Init == /\ pending = [k \in Key |-> <<>>]
        /\ published = [k \in Key |-> <<>>]
        /\ losses = 0

Accept(k) ==
  /\ \E m \in Msg : pending' = [pending EXCEPT ![k] = Append(@, m)]
  /\ UNCHANGED <<published, losses>>

Publish(k) ==
  /\ pending[k] # <<>> \/ losses > 0
  /\ pending' = [pending EXCEPT ![k] = <<>>]
  /\ published' = [published EXCEPT ![k] = Append(@, pending[k])]
  /\ UNCHANGED losses

Lose ==
  /\ losses' = losses + 1
  /\ \A k \in Key : IsPrefix(pending'[k], pending[k])
  /\ UNCHANGED published

Next == Lose \/ \E k \in Key : Accept(k) \/ Publish(k)

Spec == Init /\ [][Next]_spool
=============================================================================
