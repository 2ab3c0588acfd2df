---------------------------- MODULE AximuxRestart ----------------------------
(***************************************************************************)
(* AximuxProduction with the two ways in which kernel and registers can    *)
(* get out of step.                                                        *)
(*                                                                         *)
(* The kernel goes down at any moment, in the middle of a selection or     *)
(* between ioread32 and iowrite32, and comes up with nobody in a state and *)
(* nothing claimed.  The register block has a reset, but a restart of the  *)
(* kernel need not pulse it; the QEMU model, which zeroes its registers in *)
(* realize and has no reset handler, never does; and probe writes no       *)
(* register.  So the driver may come up over what its predecessor left.    *)
(*                                                                         *)
(* Or the registers lose their contents under the running kernel: a        *)
(* bitstream is loaded again, or power is cut in a suspend.  The driver    *)
(* has no hook for either (aximux_driver has a probe and a match table),   *)
(* so calls in progress go on, and the core remembers states that the      *)
(* registers no longer hold.                                               *)
(***************************************************************************)
EXTENDS AximuxProduction

VARIABLE renewed  \* the consumers that began a selection since then

restartVars == <<pinctrlVars, renewed>>

RestartInit == Init /\ renewed = {}

\* What a new kernel may find in the registers.
AfterRestart == {regs, [p \in Pins |-> ResetWord]}

\* Nothing of the old kernel survives, whatever it was in the middle of.
Restart ==
  /\ regs' \in AfterRestart
  /\ call'  = [t \in Threads |-> NoCall]
  /\ val'   = [t \in Threads |-> ResetWord]
  /\ owner' = [p \in Pins |-> None]
  /\ state' = [c \in Consumers |-> None]
  /\ sel'   = [c \in Consumers |-> NoSelection]
  /\ renewed' = {}

Reload ==
  /\ regs' = [p \in Pins |-> ResetWord]
  /\ renewed' = {}
  /\ UNCHANGED <<call, val, owner, state, sel>>

Began == {c \in Consumers : sel[c].pc = "idle" /\ sel'[c].pc # "idle"}

UndisturbedStep == PinctrlNext /\ renewed' = renewed \cup Began

-----------------------------------------------------------------------------
(***************************************************************************)
(* Properties                                                              *)
(***************************************************************************)

\* What is lost comes back with the next selection: from a consumer's first
\* selection after a restart or a loss on, whether it ended in the new state
\* or went back to the old one, its settled state is in the registers in full,
\* whatever was in them before, and although others may still write back words
\* that they read before the loss (aximux_set_src, aximux_pinconf_set).
RenewedApplied ==
  \A c \in renewed :
    sel[c].pc = "idle" /\ state[c] # None =>
      MuxApplied(state[c]) /\ ConfigsApplied(state[c])
=============================================================================
