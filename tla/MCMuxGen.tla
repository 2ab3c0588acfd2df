------------------------------ MODULE MCMuxGen ------------------------------
(***************************************************************************)
(* Arguments at, below and above each limit.                               *)
(***************************************************************************)
EXTENDS MuxGen

MCArguments == {-1, 0, 1, 2, 8, 31, 32, 33} \X {-1, 0, 1, 2, 4, 15, 16}

\* The bits that the number n has.
Bits[n \in 0..256] == IF n = 0 THEN 0 ELSE 1 + Bits[n \div 2]
MCClog2 == [n \in 0..256 |-> Bits[n]]
=============================================================================
