----------------------------- MODULE MCReadout -----------------------------
(***************************************************************************)
(* Two signals.  Consumer a switches both together and configures them as  *)
(* a group; consumer b contends for the second, and b_far fails half way   *)
(* through a group that it holds.                                          *)
(***************************************************************************)
EXTENDS AximuxReadout

MCPinOrder == <<1, 0>>
MCGroupPins == [bundle |-> <<0, 1>>, g1 |-> <<1>>]
MCMuxVals ==
  [uart |-> [bundle |-> <<1, 2>>],
   pwm  |-> [g1 |-> <<1>>],
   far  |-> [bundle |-> <<1, 3>>]]

Out == <<[param |-> "DIREN", arg |-> TRUE]>>
In  == <<[param |-> "DIREN", arg |-> FALSE]>>
MCConfigLists == {Out, In}

MCStatesOf == [a |-> {"a_uart"}, b |-> {"b_pwm", "b_far"}]
MCMuxSettings ==
  [a_uart |-> <<[fn |-> "uart", group |-> "bundle"]>>,
   b_pwm  |-> <<[fn |-> "pwm", group |-> "g1"]>>,
   b_far  |-> <<[fn |-> "far", group |-> "bundle"]>>]
MCConfigSettings ==
  [a_uart |-> <<[pins |-> <<0, 1>>, cfgs |-> Out]>>,
   b_pwm  |-> <<[pins |-> <<1>>, cfgs |-> In]>>,
   b_far  |-> <<>>]
=============================================================================
