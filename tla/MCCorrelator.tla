---------------------------- MODULE MCCorrelator ----------------------------
(* NfqueueCorrelator on small sets of flows and packets.                   *)
EXTENDS NfqueueCorrelator, TLC

(* Packets are interchangeable: a token, a cell and a generation are named *)
(* by a packet, and no action tells two unused packets apart.              *)
PacketSymmetry == Permutations(Packets)

(* So are the tuples of a run that has two.                                *)
PacketAndKeySymmetry == PacketSymmetry \cup Permutations(Keys)

(* A reload meets one tuple and no fault; two tuples and a fault meet none. *)
ReloadAlone ==
    \/ reloads = 0
    \/ /\ faults = 0
       /\ \A p, q \in Packets : None \in {pkey[p], pkey[q]} \/ pkey[p] = pkey[q]
=============================================================================
