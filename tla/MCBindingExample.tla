-------------------------- MODULE MCBindingExample --------------------------
(***************************************************************************)
(* The example tree of the binding document, on hardware with its two pins *)
(* and the largest or any smaller number of alternates, with memory to     *)
(* spare.  The tree is the document's own, node for node.                  *)
(***************************************************************************)
EXTENDS AximuxProbe, TLC

MCPinName == [n \in 0..31 |-> "pin" \o ToString(n)]
MCNames == {"pin", "gpio", "uart_tx", "uart_rx", "spi_mosi", "spi_miso",
            "uart0-grp", "uart0", "pin@0", "pin@1"}
             \cup {MCPinName[n] : n \in 0..31}

ExamplePin(r, fs) ==
  [name |-> "pin", reg |-> r, funcs |-> fs,
   pins |-> Absent, mux |-> Absent, fn |-> Absent]

Example ==
  <<ExamplePin(0, <<"gpio", "uart_tx", "spi_mosi">>),
    ExamplePin(1, <<"gpio", "uart_rx", "spi_miso">>),
    [name |-> "uart0-grp", reg |-> Absent, funcs |-> Absent,
     pins |-> <<"pin@0", "pin@1">>, mux |-> <<1, 1>>, fn |-> "uart0"]>>

MCControllers == [hwPins : {2}, hwAlts : 3..16, children : {Example}]
=============================================================================
