------------------------------- MODULE MCLab -------------------------------
(***************************************************************************)
(* Two consumers that share no pin, each with one state that cannot be     *)
(* applied (a source the hardware lacks, a parameter the driver does not   *)
(* handle), and a shell that writes any line to pinmux-select.             *)
(***************************************************************************)
EXTENDS AximuxPinctrl

MCGroupPins == [g0 |-> <<0>>, g1 |-> <<1>>, bundle |-> <<0, 1>>]
MCMuxVals ==
  [alt1   |-> [g0 |-> <<1>>, g1 |-> <<1>>],
   toofar |-> [bundle |-> <<1, 2>>, g1 |-> <<2>>]]

Short  == <<[param |-> "SHORT", arg |-> TRUE]>>
Output == <<[param |-> "DIREN", arg |-> TRUE],
            [param |-> "DIRCTL", arg |-> TRUE]>>
Bias   == <<[param |-> "SHORT", arg |-> FALSE],
            [param |-> "GENERIC", arg |-> TRUE]>>
MCConfigLists == {Short, Output, Bias}

MCStatesOf == [a |-> {"a_pin", "a_bias"}, b |-> {"b_pin", "b_far"}]
MCMuxSettings ==
  [a_pin  |-> <<[fn |-> "alt1", group |-> "g0"]>>,
   a_bias |-> <<[fn |-> "alt1", group |-> "g0"]>>,
   b_pin  |-> <<[fn |-> "alt1", group |-> "g1"]>>,
   b_far  |-> <<[fn |-> "toofar", group |-> "g1"]>>]
MCConfigSettings ==
  [a_pin  |-> <<[pins |-> <<0>>, cfgs |-> Short]>>,
   a_bias |-> <<[pins |-> <<0>>, cfgs |-> Bias]>>,
   b_pin  |-> <<[pins |-> <<1>>, cfgs |-> Output]>>,
   b_far  |-> <<>>]
=============================================================================
