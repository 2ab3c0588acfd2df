------------------------------- MODULE MCQemu -------------------------------
(***************************************************************************)
(* Two threads on a device of two signals with two alternates.  uart       *)
(* switches both signals, toofar the first one to its last alternate and   *)
(* the second one to a source that the device does not have.               *)
(***************************************************************************)
EXTENDS AximuxQemu
MCGroupPins == [bundle |-> <<0, 1>>]
MCMuxVals ==
  [uart   |-> [bundle |-> <<1, 0>>],
   toofar |-> [bundle |-> <<2, 3>>]]
MCConfigLists ==
  {<<[param |-> "DIRCTL", arg |-> TRUE]>>,
   <<[param |-> "DIRCTL", arg |-> FALSE], [param |-> "GENERIC", arg |-> FALSE]>>}
=============================================================================
