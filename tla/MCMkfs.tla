------------------------------- MODULE MCMkfs -------------------------------
(* Instances of Mkfs for TLC: one file of up to a block. *)
EXTENDS Mkfs

OneFile == {<<n>> : n \in 0 .. BSIZE}
TwoInodes == 1 .. 2
=============================================================================
