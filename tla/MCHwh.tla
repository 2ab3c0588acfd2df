-------------------------------- MODULE MCHwh --------------------------------
(***************************************************************************)
(* Hand-offs of two muxes, one of two pins with alternates 0..2 and one of *)
(* one pin, with a UART, an I2C controller and glue.  A slot of a mux is   *)
(* connected in one of six ways.                                           *)
(***************************************************************************)
EXTENDS HwhProbe

\* AximuxProbe's names are those of HwhNaming.
MCPinName == [n \in 0..31 |-> [dev |-> "pin" \o ToString(n), sig |-> ""]]
MCNames == [dev : STRING, sig : STRING]
MCControllers == {}


PortName(p, kind, a) == "sig" \o ToString(p) \o kind \o ToString(a)
SlotRecords == [pin : 0..1, kind : Kinds, alt : 0..2]
MCSlotOf ==
  [n \in {PortName(s.pin, s.kind, s.alt) : s \in SlotRecords} |->
     CHOOSE s \in SlotRecords : PortName(s.pin, s.kind, s.alt) = n]
MCBaseName == [scl_i |-> "scl", scl_o |-> "scl", scl_t |-> "scl"]
MCDevName == [axi_uart16550_0 |-> "uart0", axi_iic_0 |-> "i2c0"]
MCSigName == [sin |-> "rxd", sout |-> "txd"]
MCCleanName == ("my-uart" :> "my_uart")
MCRank == [axi_mux_0 |-> 1, axi_mux_1 |-> 2, gpio0 |-> 3, i2c0 |-> 4,
           my_uart |-> 5, uart0 |-> 6]
MCNoise == {"xlconcat_0", "xlconstant_0", "xlconstant_1"}

\* The nets of a slot: <<incoming, outgoing, ctl>>.  Each slot has a net of
\* its own to the concatenation, n; zero is the constant's net.
Nets(way, n, zero) ==
  CASE way = "none"   -> <<"", "", "">>
    [] way = "tie"    -> <<"", zero, "">>
    [] way = "rx"     -> <<"uart_sin", "", zero>>
    [] way = "tx"     -> <<"", "uart_sout", "">>
    [] way = "iic"    -> <<"scl_i", "scl_o", "scl_t">>
    [] way = "glue"   -> <<n, zero, zero>>

SlotPorts(p, a, nets) ==
  <<[name |-> PortName(p, "incoming", a), net |-> nets[1]],
    [name |-> PortName(p, "outgoing", a), net |-> nets[2]],
    [name |-> PortName(p, "ctl", a), net |-> nets[3]]>>

Bus == <<[name |-> "s_axi_awaddr", net |-> "awaddr"]>>
Module(inst, mux, ports) == [inst |-> inst, mux |-> mux, ports |-> ports]
Port(n, net) == [name |-> n, net |-> net]

\* The ways of the slots of pin 0, pin 1 and the second mux; the muxes in the
\* document against the order of their names.
Design(w, zero1) ==
  <<Module("axi_mux_1", TRUE, Bus
      \o SlotPorts(0, 0, Nets(w.m0, "g2", zero1)) \o SlotPorts(0, 1, Nets(w.m1, "g3", zero1))),
    Module("axi_uart16550_0", FALSE, <<Port("sin", "uart_sin"), Port("sout", "uart_sout")>>),
    Module("axi_mux_0", TRUE,
      SlotPorts(1, 1, Nets(w.q1, "g1", "zero")) \o SlotPorts(1, 0, Nets(w.q0, "g0", "zero"))
      \o SlotPorts(0, 2, Nets(w.p2, "g6", "zero")) \o SlotPorts(0, 0, Nets(w.p0, "g4", "zero"))
      \o SlotPorts(0, 1, Nets(w.p1, "g5", "zero")) \o Bus),
    Module("axi_iic_0", FALSE,
      <<Port("scl_i", "scl_i"), Port("scl_o", "scl_o"), Port("scl_t", "scl_t")>>),
    Module("xlconcat_0", FALSE,
      [x \in 1..7 |-> Port("In" \o ToString(x - 1), "g" \o ToString(x - 1))]),
    Module("xlconstant_0", FALSE, <<Port("dout", "zero")>>),
    Module("xlconstant_1", FALSE, <<Port("dout", "one")>>)>>

Ways == [p0 : {"glue", "iic"}, p1 : {"none", "rx", "tx", "glue"},
         p2 : {"none", "rx", "iic"}, q0 : {"glue", "none"},
         q1 : {"none", "tie", "tx", "iic"}, m0 : {"glue"}, m1 : {"none", "rx", "iic"}]

\* An incoming port is an output of the mux: no two of them are on one net.
Zero == {"p0", "p1", "p2", "q0", "q1"}
Once(w, way) == Cardinality({s \in DOMAIN w : w[s] = way}) <= 1
Buildable(w) == Once(w, "rx") /\ Once(w, "iic")
\* No peripheral has pins of both muxes.
Separate(w) ==
  w.m1 = "rx" => \A s \in Zero : w[s] \notin {"rx", "tx"}

MCDesigns == {Design(w, "one") : w \in {v \in Ways : Buildable(v) /\ Separate(v)}}
              \cup {None}

\* Without a naming file; and one that renames, aliases and maps.
NoFileNaming ==
  [gpio |-> "gpio0", bases |-> <<>>, overrides |-> <<>>, rules |-> <<>>,
   consumers |-> <<>>, aliases |-> <<>>, skip |-> {}]
BoardNaming ==
  [gpio |-> "gpio0", bases |-> [axi_mux_1 |-> 8],
   overrides |-> ([dev |-> "axi_uart16550_0", sig |-> "sin"] :>
                    [dev |-> "my-uart", sig |-> "rx"]),
   rules |-> <<[dev |-> "axi_uart16550_0", sig |-> "sout"] :>
                 [dev |-> "my-uart", sig |-> "tx"],
               [dev |-> "axi_uart16550_0", sig |-> "sin"] :>
                 [dev |-> "other", sig |-> "rx"]>>,
   consumers |-> [axi_uart16550_0 |-> "serial0"],
   aliases |-> <<<<"i2c0", "bus-0">>, <<"my_uart", "console">>, <<"spi0", "none">>>>,
   skip |-> {"axi_iic_0"}]
MCNamings == {NoFileNaming, BoardNaming, None}
MCOptions == {[style |-> "pinctrl2", files |-> Files],
              [style |-> "legacy", files |-> {"output", "consumers"}],
              [style |-> "json", files |-> {"json"}]}

\* What the theorems about wiring suppose of a hand-off and its naming file is
\* so in all of these.
ASSUME AllSupposed ==
  \A d \in MCDesigns \ {None}, n \in MCNamings \ {None} :
    Apart(d, n) /\ Direct(d) /\ Coherent(d, n)

-----------------------------------------------------------------------------
\* For the run that leaves Separate out: a UART with its input on one mux and
\* its output on the other.
MCSplitDesigns ==
  {Design([p0 |-> "glue", p1 |-> "rx", p2 |-> "none", q0 |-> "glue",
           q1 |-> "none", m0 |-> "glue", m1 |-> "tx"], "one")}
MCPlainNaming == {NoFileNaming}
MCPinctrl2 == {[style |-> "pinctrl2", files |-> {"output"}]}
=============================================================================
