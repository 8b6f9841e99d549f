----------------------------- MODULE ByteStream -----------------------------
(***************************************************************************)
(* What a connected Transport promises, src/src/transport/Transport.h:     *)
(* reads return the bytes of the peer in order and without a gap, one read *)
(* at a time, until a read fails; the peer receives of every write the     *)
(* first bytes, perhaps not all of them, in the order of the writes.       *)
(***************************************************************************)
EXTENDS Naturals, Sequences

CONSTANTS
    Sizes,      \* sizes of reads
    Lens        \* lengths of writes

VARIABLES
    wanted,     \* the bytes the read in progress wants, 0 without one
    got,        \* what the last read returned
    pos,        \* how many bytes of the peer were consumed
    write,      \* the number of the last write
    received    \* what the peer has received: a write's number and a byte's

vars == <<wanted, got, pos, write, received>>

(* The bytes of the peer are numbered from 1. *)
Failed == <<0>>

Init ==
    /\ wanted = 0
    /\ got = <<>>
    /\ pos = 0
    /\ write = 0
    /\ received = <<>>

Read(n) ==
    /\ wanted = 0 /\ got # Failed
    /\ wanted' = n
    /\ UNCHANGED <<got, pos, write, received>>

Return ==
    /\ wanted > 0
    /\ wanted' = 0
    /\ got' = [i \in 1 .. wanted |-> pos + i]
    /\ pos' = pos + wanted
    /\ UNCHANGED <<write, received>>

(* A read that fails drops the bytes it has got. *)
Fail ==
    /\ wanted > 0
    /\ wanted' = 0
    /\ got' = Failed
    /\ \E k \in 0 .. wanted - 1 : pos' = pos + k
    /\ UNCHANGED <<write, received>>

Write ==
    /\ write' = write + 1
    /\ UNCHANGED <<wanted, got, pos, received>>

(* At most once for each write. *)
Accept(k) ==
    /\ write > 0
    /\ \A i \in DOMAIN received : received[i][1] < write
    /\ received' = received \o [i \in 1 .. k |-> <<write, i>>]
    /\ UNCHANGED <<wanted, got, pos, write>>

Next ==
    \/ \E n \in Sizes : Read(n)
    \/ Return \/ Fail
    \/ Write
    \/ \E k \in Lens : Accept(k)

Spec == Init /\ [][Next]_vars
=============================================================================
