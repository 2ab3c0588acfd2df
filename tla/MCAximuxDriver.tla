--------------------------- MODULE MCAximuxDriver ---------------------------
(***************************************************************************)
(* Two threads calling anything.  Two signals, one alternate (sources 0    *)
(* and 1), the bundle group of aximux.dtsi with its mux values <1 2>, the  *)
(* second of which this hardware does not have.  alt1 names bundle with    *)
(* one value, as when a group of two pins has the name of another.         *)
(***************************************************************************)
EXTENDS AximuxDriver

MCGroupPins == [g0 |-> <<0>>, g1 |-> <<1>>, bundle |-> <<0, 1>>]
MCMuxVals ==
  [alt0   |-> [g0 |-> <<0>>, g1 |-> <<0>>],
   alt1   |-> [g1 |-> <<1>>, bundle |-> <<1>>],
   bundle |-> [bundle |-> <<1, 2>>]]
MCConfigLists ==
  {<<[param |-> "SHORT", arg |-> TRUE]>>,
   <<[param |-> "DIREN", arg |-> FALSE], [param |-> "GENERIC", arg |-> TRUE]>>}
=============================================================================
