------------------------------- MODULE Srcsel -------------------------------
(***************************************************************************)
(* The SRCSEL register of one signal, as the driver reads and writes it.   *)
(*                                                                         *)
(* A word is the record of its SRC field (bits 3..0) and the set of its    *)
(* one-bit control fields that are 1: SHORT (bit 5), DIREN (bit 6) and     *)
(* DIRCTL (bit 7).  The bits the driver never names are left out: every    *)
(* write of the driver is a read-modify-write that keeps them.             *)
(***************************************************************************)
EXTENDS Integers

AXIMUX_MAX_PINS == 32
AXIMUX_MAX_ALTS == 15

ControlBits == {"SHORT", "DIREN", "DIRCTL"}

Word == [src : 0..15, ctl : SUBSET ControlBits]

\* The hardware default of every field is 0.
ResetWord == [src |-> 0, ctl |-> {}]

\* One packed pinconf value: the parameter, and whether its argument is
\* non-zero.  "GENERIC" stands for every parameter of the generic pinconf
\* list (bias, drive strength, ...), none of which the driver handles.
Params == ControlBits \cup {"GENERIC"}
Config == [param : Params, arg : BOOLEAN]

\* aximux_set_src on the value read: replace SRC by the low four bits of src.
SetSrcDropsControl(w, s) == [src |-> s % 16, ctl |-> {}]
SetSrc(w, s) == [w EXCEPT !.src = s % 16]

\* The switch of aximux_pinconf_set on the value read: one bit set or cleared.
SetControlNeverClears(w, c) == [w EXCEPT !.ctl = @ \cup {c.param}]
SetControl(w, c) ==
  [w EXCEPT !.ctl = IF c.arg THEN @ \cup {c.param} ELSE @ \ {c.param}]
=============================================================================
