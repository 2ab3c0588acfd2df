---------------------------- MODULE SrcselAtomic ----------------------------
(***************************************************************************)
(* What the driver's header promises of the register block: "Pinmux        *)
(* programs SRCSEL.SRC.  Pinconf covers SHORT / DIREN / DIRCTL."           *)
(*                                                                         *)
(* Every change of a register is one of two atomic steps: the SRC field of *)
(* one signal is replaced by a legal source and nothing else moves, or one *)
(* control bit of one signal is set or cleared and nothing else moves.     *)
(***************************************************************************)
EXTENDS Srcsel

CONSTANTS Pins, NAlts

VARIABLE regs

Init == regs = [p \in Pins |-> ResetWord]

\* Pinmux: signal p is switched to source s.
ProgramSrc(p, s) == regs' = [regs EXCEPT ![p].src = s]

\* Pinconf: control bit b of signal p becomes v.
ProgramControl(p, b, v) ==
  regs' = [regs EXCEPT ![p].ctl = IF v THEN @ \cup {b} ELSE @ \ {b}]

Next ==
  \E p \in Pins :
    \/ \E s \in 0..NAlts : ProgramSrc(p, s)
    \/ \E b \in ControlBits, v \in BOOLEAN : ProgramControl(p, b, v)

Spec == Init /\ [][Next]_regs
=============================================================================
