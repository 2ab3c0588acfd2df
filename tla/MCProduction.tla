---------------------------- MODULE MCProduction ----------------------------
(***************************************************************************)
(* Two signals with three alternates each, so that one value of the        *)
(* two-bit SRC field names no alternate.  Consumer a switches both signals *)
(* with a group and turns them by software, switches them one by one, and  *)
(* tries a source that is beyond the hardware; consumer b contends for     *)
(* signal 1, and b_bias asks for a parameter that is not supported.        *)
(***************************************************************************)
EXTENDS AximuxRouting
MCGroupPins == [g0 |-> <<0>>, g1 |-> <<1>>, bundle |-> <<0, 1>>]
MCMuxVals ==
  [alt0   |-> [g0 |-> <<0>>],
   alt1   |-> [g1 |-> <<1>>],
   alt2   |-> [g1 |-> <<2>>],
   uart   |-> [bundle |-> <<2, 1>>],
   toofar |-> [bundle |-> <<2, 3>>]]
SetTo(b, v) == [param |-> b, arg |-> v]
Out   == <<SetTo("DIRCTL", TRUE), SetTo("DIREN", TRUE)>>
Free  == <<SetTo("DIREN", FALSE), SetTo("SHORT", TRUE)>>
Alone == <<SetTo("SHORT", FALSE)>>
Bias  == <<SetTo("DIREN", FALSE), SetTo("GENERIC", TRUE)>>
MCConfigLists == {Out, Free, Alone, Bias}
MCStatesOf == [a |-> {"a_uart", "a_pin", "a_bad"}, b |-> {"b_pin", "b_bias"}]
MCMuxSettings ==
  [a_uart |-> <<[fn |-> "uart", group |-> "bundle"]>>,
   a_pin  |-> <<[fn |-> "alt0", group |-> "g0"], [fn |-> "alt1", group |-> "g1"]>>,
   a_bad  |-> <<[fn |-> "toofar", group |-> "bundle"]>>,
   b_pin  |-> <<[fn |-> "alt2", group |-> "g1"]>>,
   b_bias |-> <<[fn |-> "alt1", group |-> "g1"]>>]
MCConfigSettings ==
  [a_uart |-> <<[pins |-> <<0, 1>>, cfgs |-> Out],
                [pins |-> <<1>>, cfgs |-> Alone]>>,
   a_pin  |-> <<[pins |-> <<0>>, cfgs |-> Free]>>,
   a_bad  |-> <<>>,
   b_pin  |-> <<[pins |-> <<1>>, cfgs |-> Free]>>,
   b_bias |-> <<[pins |-> <<1>>, cfgs |-> Bias]>>]
=============================================================================
