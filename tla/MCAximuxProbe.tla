---------------------------- MODULE MCAximuxProbe ----------------------------
(***************************************************************************)
(* Controllers for the probe.  Every tree of up to three children from a   *)
(* small set of nodes is tried, with every MUXINFO of interest: no pins,   *)
(* too few, enough, more than 32, and alternates below, at and above the   *)
(* legal range.                                                            *)
(***************************************************************************)
EXTENDS AximuxProbe, TLC

MCPinName == [n \in 0..31 |-> "pin" \o ToString(n)]
MCNames == {"pin", "spare", "gpio", "uart", "uart-grp", "spi-grp"}
             \cup {MCPinName[n] : n \in 0..31}

PinNode(r, fs) == [name |-> "pin", reg |-> r, funcs |-> fs, pins |-> Absent,
                   mux |-> Absent, fn |-> Absent]
GroupNode(n, ps, ms, fn) == [name |-> n, reg |-> Absent, funcs |-> Absent,
                             pins |-> ps, mux |-> ms, fn |-> fn]

\* Pins with shared and repeated function names, the empty property, a
\* register beyond the hardware, a child that is neither pin nor group.
PinNodes2 ==
  {PinNode(0, <<"gpio", "uart">>), PinNode(1, <<"uart", "uart">>),
   PinNode(1, Absent), PinNode(0, <<>>), PinNode(2, <<"gpio">>),
   PinNode(Absent, Absent)}

\* Groups with a full, a short, a long and no mux list, an unknown pin, an
\* empty list, and one whose function is also a pin's and whose name is too.
GroupNodes2 ==
  {GroupNode("uart-grp", <<"pin0", "pin1">>, <<1, 2>>, "uart"),
   GroupNode("uart-grp", <<"pin1">>, <<3>>, Absent),
   GroupNode("spi-grp", <<"pin1", "pin0">>, <<1>>, Absent),
   GroupNode("pin0", <<"pin1">>, <<2, 3>>, "gpio"),
   GroupNode("spi-grp", <<"pin0", "spare">>, Absent, "uart"),
   GroupNode("spi-grp", <<>>, Absent, Absent)}

Trees == UNION {[1..n -> PinNodes2 \cup GroupNodes2] : n \in 0..3}

MCControllers ==
  [hwPins : {2}, hwAlts : {4}, children : Trees]
    \cup [hwPins : {0, 1, 3, 33}, hwAlts : {0, 15, 16},
          children : {<<>>,
                      <<PinNode(0, <<"gpio">>), PinNode(1, Absent)>>,
                      <<GroupNode("uart-grp", <<"pin0">>, Absent, Absent)>>}]
=============================================================================
