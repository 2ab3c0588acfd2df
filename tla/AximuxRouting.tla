---------------------------- MODULE AximuxRouting ----------------------------
(***************************************************************************)
(* The generated datapath under the driver: what the pads and the          *)
(* alternates of each signal see.  It is combinational, so the state is    *)
(* the register block of AximuxProduction and every port is an operator on *)
(* one signal and on the levels of the inputs.                             *)
(*                                                                         *)
(* Signal p has the alternates 0..NAlts, one more than MUXINFO counts.     *)
(* Alternate a drives outgoing[a] and ctl[a], and receives an incoming.    *)
(***************************************************************************)
EXTENDS AximuxProduction

\* The number of values the SRC field holds: 2^clog2(alternate_signals).
CONSTANT SrcValues

\* The field holds every alternate (the routing tests reach alternate 4 of a
\* mux with four alternate signals) and fits below bit 4.
ASSUME DatapathAssumption == SrcValues \in (NAlts + 1)..16

Alternates == 0..NAlts
Levels == [Alternates -> BOOLEAN]

\* The ports that the register block gives to the datapath.
srcsel(p)   == regs[p].src % SrcValues
shortsel(p) == "SHORT" \in regs[p].ctl
diren(p)    == "DIREN" \in regs[p].ctl
dirctl(p)   == "DIRCTL" \in regs[p].ctl

\* get_multiplexer: the input that src names, and low where there is none.
MultiplexerMissesLast(src, inputs) ==
  src \in DOMAIN inputs \ {NAlts} /\ inputs[src]
Multiplexer(src, inputs) == src \in DOMAIN inputs /\ inputs[src]

sig_out(p, outgoing) == Multiplexer(srcsel(p), outgoing)

hw_dir_sig(p, ctl) == Multiplexer(srcsel(p), ctl)
DirSwapped(p, ctl) == IF diren(p) THEN hw_dir_sig(p, ctl) ELSE dirctl(p)
sig_dir(p, ctl)    == IF diren(p) THEN dirctl(p) ELSE hw_dir_sig(p, ctl)

\* incoming_gen: alternate a hears the pad if it is selected, or if SHORT
\* lets all alternates hear it.
incoming(p, a, sig_in) == (srcsel(p) = a \/ shortsel(p)) /\ sig_in

-----------------------------------------------------------------------------
(***************************************************************************)
(* Properties                                                              *)
(***************************************************************************)

\* Alternate a alone decides the level of pad p; a hears pad p.
Drives(p, a) == \A outgoing \in Levels : sig_out(p, outgoing) = outgoing[a]
Hears(p, a)  == \A level \in BOOLEAN : incoming(p, a, level) = level

\* The direction of pad p follows alternate a; software holds it at v.
DirFollows(p, a) == \A ctl \in Levels : sig_dir(p, ctl) = ctl[a]
DirHeld(p, v)    == \A ctl \in Levels : sig_dir(p, ctl) = v

\* The multiplexers of a signal never come apart: at every moment, also half
\* way through a switch or a rollback, exactly one alternate drives the pad,
\* and unless SHORT is set that one alone hears it and without DIREN that one
\* turns it (MUXINFO, the driver's bound and the port count agree).
OneAlternate ==
  \A p \in Pins :
    \E a \in Alternates :
      /\ \A b \in Alternates : Drives(p, b) <=> a = b
      /\ ~shortsel(p) => \A b \in Alternates : Hears(p, b) <=> a = b
      /\ ~diren(p) => DirFollows(p, a)

\* From the consumer to the pad: while a consumer sits in a state, its pads
\* are driven by the alternates the state names, turned by them or by
\* software as the state's pinconf says, and heard by all alternates or by
\* the selected one alone as it says of SHORT.
PadsSettled ==
  \A c \in Consumers :
    sel[c].pc = "idle" /\ state[c] # None =>
      \A p \in Pins, a \in Alternates :
        Routes(state[c], p, a) =>
          /\ Drives(p, a)
          /\ Asks(state[c], p, "DIREN", FALSE) => DirFollows(p, a)
          /\ \A v \in BOOLEAN :
               Asks(state[c], p, "DIREN", TRUE) /\ Asks(state[c], p, "DIRCTL", v)
                 => DirHeld(p, v)
          /\ Asks(state[c], p, "SHORT", TRUE) => \A b \in Alternates : Hears(p, b)
          /\ Asks(state[c], p, "SHORT", FALSE) =>
               \A b \in Alternates : Hears(p, b) <=> a = b
=============================================================================
