-------------------------------- MODULE MuxGen --------------------------------
(***************************************************************************)
(* generator/mux_gen.py: two command line arguments to a netlist, signal   *)
(* by signal.  A wire is [kind, sig, alt]; a wire that has no alternates   *)
(* has alt 0, and bit m of a vector port is the wire of signal m.  A       *)
(* driver gives its target the value of an operation on other wires.       *)
(***************************************************************************)
EXTENDS Integers, Sequences, FiniteSets

SeqX == INSTANCE SequencesExt

CONSTANTS
  Arguments,  \* the pairs of numbers the generator is called with
  Clog2       \* hdltools' clog2, as a function

MAX_ALT_SIGNALS == 15
MAX_SIGNALS == 32
MUXINFO == 128   \* 0x80

\* argparse makes numbers of them.
ASSUME ArgumentAssumption == Arguments \subseteq Int \X Int

\* clog2(n) bits can name n as a value: with n alternate signals there are
\* n + 1 sources, and the routing tests reach the last one.  It is called with
\* alternate counts, and with byte addresses up to the one after MUXINFO.
ASSUME Clog2Assumption ==
  /\ 1..(MUXINFO + 4) \subseteq DOMAIN Clog2
  /\ \A n \in DOMAIN Clog2 : Clog2[n] \in Nat /\ n < 2 ^ Clog2[n]

VARIABLES
  mux_signals, alternate_signals,  \* the arguments
  pc, mux,       \* the phase, and the signal at hand
  ports,         \* the module's ports: the wires that are inputs and outputs
  signals,       \* declared wires, with their sizes
  drivers,       \* what drives wires, in the order of mod.add
  slave,         \* connections of the slave: its ports to wires
  addr_width     \* C_S_AXI_ADDR_WIDTH

genVars == <<mux_signals, alternate_signals, pc, mux, ports, signals, drivers,
             slave, addr_width>>
args == <<mux_signals, alternate_signals>>

Signals == 0..(mux_signals - 1)
Sources == 0..alternate_signals
Wire(kind, m, a) == [kind |-> kind, sig |-> m, alt |-> a]
PerSignal(kinds) == {Wire(kind, m, 0) : kind \in kinds, m \in Signals}
PerSource(kind) == {Wire(kind, m, a) : m \in Signals, a \in Sources}

\* One input for each source, in order.
Lane(kind, m) == [x \in 1..(alternate_signals + 1) |-> Wire(kind, m, x - 1)]

GenInit ==
  /\ \E a \in Arguments : mux_signals = a[1] /\ alternate_signals = a[2]
  /\ pc = "args" /\ mux = 0
  /\ ports = [in |-> {}, out |-> {}]
  /\ signals = {} /\ drivers = <<>> /\ slave = {}
  /\ addr_width = 0

-----------------------------------------------------------------------------
(***************************************************************************)
(* The sanity checks, and the ports                                        *)
(***************************************************************************)
ArgumentsLegalNoMaximum == mux_signals >= 1 /\ alternate_signals >= 1
ArgumentsLegal ==
  /\ alternate_signals <= MAX_ALT_SIGNALS /\ alternate_signals >= 1
  /\ mux_signals <= MAX_SIGNALS /\ mux_signals >= 1

BadArguments ==
  /\ pc = "args" /\ ~ArgumentsLegal
  /\ pc' = "exit"
  /\ UNCHANGED <<args, mux, ports, signals, drivers, slave, addr_width>>

Larger(a, b) == IF a > b THEN a ELSE b
AddrWidth == Clog2[Larger(mux_signals * 4, MUXINFO) + 4]

Ports ==
  /\ pc = "args" /\ ArgumentsLegal
  /\ addr_width' = AddrWidth
  /\ ports' = [in  |-> PerSignal({"sig_in"}) \cup PerSource("ctl") \cup PerSource("outgoing"),
               out |-> PerSignal({"sig_out", "sig_dir"}) \cup PerSource("incoming")]
  /\ pc' = "signals"
  /\ UNCHANGED <<args, mux, signals, drivers, slave>>

Sized(wires, size) == {[wire |-> w, size |-> size] : w \in wires}
OneBit == {"shortsel", "diren", "dirctl"}

DeclareSignals ==
  /\ pc = "signals"
  /\ signals' = Sized(PerSignal({"srcsel"}), Clog2[alternate_signals])
                  \cup Sized(PerSignal(OneBit \cup {"hw_dir_sig", "sig_in_bit"}), 1)
  /\ pc' = "bits"
  /\ UNCHANGED <<args, mux, ports, drivers, slave, addr_width>>

-----------------------------------------------------------------------------
(***************************************************************************)
(* The logic.  "mux": the input that the first wire names.  "hears": the   *)
(* pad, if the select is index or SHORT is set, and 0 otherwise.           *)
(***************************************************************************)
Driver(target, op, ins, index) ==
  [target |-> target, op |-> op, in |-> ins, index |-> index]

AssignBit ==
  /\ pc = "bits" /\ mux < mux_signals
  /\ drivers' = Append(drivers,
       Driver(Wire("sig_in_bit", mux, 0), "copy", <<Wire("sig_in", mux, 0)>>, 0))
  /\ mux' = mux + 1
  /\ UNCHANGED <<args, pc, ports, signals, slave, addr_width>>

BitsAssigned ==
  /\ pc = "bits" /\ mux = mux_signals
  /\ pc' = "logic" /\ mux' = 0
  /\ UNCHANGED <<args, ports, signals, drivers, slave, addr_width>>

Select(m) == <<Wire("srcsel", m, 0)>>

HwDirMux(m) ==
  Driver(Wire("hw_dir_sig", m, 0), "mux", Select(m) \o Lane("ctl", m), 0)
DirMuxOfFirst(m) ==
  Driver(Wire("sig_dir", 0, 0), "mux",
         <<Wire("diren", m, 0), Wire("hw_dir_sig", m, 0), Wire("dirctl", m, 0)>>, 0)
DirMuxSwapped(m) ==
  Driver(Wire("sig_dir", m, 0), "mux",
         <<Wire("diren", m, 0), Wire("dirctl", m, 0), Wire("hw_dir_sig", m, 0)>>, 0)
DirMux(m) ==
  Driver(Wire("sig_dir", m, 0), "mux",
         <<Wire("diren", m, 0), Wire("hw_dir_sig", m, 0), Wire("dirctl", m, 0)>>, 0)
OutMux(m) ==
  Driver(Wire("sig_out", m, 0), "mux", Select(m) \o Lane("outgoing", m), 0)
IncomingGen(m) ==
  [x \in 1..(alternate_signals + 1) |->
     Driver(Wire("incoming", m, x - 1), "hears",
            <<Wire("srcsel", m, 0), Wire("shortsel", m, 0), Wire("sig_in_bit", m, 0)>>,
            x - 1)]

SignalLogic ==
  /\ pc = "logic" /\ mux < mux_signals
  /\ drivers' = drivers \o <<HwDirMux(mux), DirMux(mux), OutMux(mux)>> \o IncomingGen(mux)
  /\ mux' = mux + 1
  /\ UNCHANGED <<args, pc, ports, signals, slave, addr_width>>

\* The AXI slave: each of its extra ports to the wire of that name.  Its bus,
\* and the change of its ports' names to capitals, are left out.
SlavePort(kind, m, size) == [port |-> Wire(kind, m, 0), size |-> size,
                             wire |-> Wire(kind, m, 0)]
ConnectSlave ==
  /\ pc = "logic" /\ mux = mux_signals
  /\ slave' = {SlavePort("srcsel", m, Clog2[alternate_signals]) : m \in Signals}
                \cup {SlavePort(kind, m, 1) : kind \in OneBit, m \in Signals}
  /\ pc' = "done"
  /\ UNCHANGED <<args, mux, ports, signals, drivers, addr_width>>

GenFinished == pc \in {"done", "exit"} /\ UNCHANGED genVars

GenNext ==
  \/ BadArguments \/ Ports \/ DeclareSignals \/ AssignBit \/ BitsAssigned
  \/ SignalLogic \/ ConnectSlave \/ GenFinished

GenSpec == GenInit /\ [][GenNext]_genVars

-----------------------------------------------------------------------------
(***************************************************************************)
(* Properties                                                              *)
(***************************************************************************)
Targets == {drivers[x].target : x \in DOMAIN drivers} \cup {s.wire : s \in slave}
Declared == {s.wire : s \in signals}

\* The netlist is closed at the end: whatever is read is an input, a driven
\* signal or a register field, every output and every signal has exactly one
\* driver, inputs have none, both ends of a connection have one size, and no
\* wire of one signal has to do with another signal (the wires are found by
\* names made in loops).
NetlistClosed ==
  pc = "done" =>
    /\ Targets = ports.out \cup Declared
    /\ Cardinality(Targets) = Len(drivers) + Cardinality(slave)
    /\ \A x \in DOMAIN drivers : \A y \in DOMAIN drivers[x].in :
         /\ drivers[x].in[y] \in ports.in \cup Declared
         /\ drivers[x].in[y].sig = drivers[x].target.sig
    /\ \A s \in slave : [wire |-> s.wire, size |-> s.size] \in signals

\* The registers have addresses of their own on the bus: SRCSEL at 4 * m and
\* MUXINFO, all within the width, none on another.
Addresses == [m \in Signals |-> (4 * m) % (2 ^ addr_width)]
AddressesDistinct ==
  pc = "done" =>
    /\ \A m, n \in Signals : Addresses[m] = Addresses[n] => m = n
    /\ \A m \in Signals : Addresses[m] # MUXINFO % (2 ^ addr_width)
    /\ MUXINFO < 2 ^ addr_width

(***************************************************************************)
(* What the netlist computes for signal m, for the levels in of its wires. *)
(* select is a number, all others are 0 or 1.                              *)
(***************************************************************************)
DriverOf(w) == drivers[CHOOSE x \in DOMAIN drivers : drivers[x].target = w]
Operation(d, v) ==
  CASE d.op = "copy" -> v[1]
    [] d.op = "mux" -> IF v[1] + 2 \in DOMAIN v THEN v[v[1] + 2] ELSE 0
    [] d.op = "hears" -> IF v[1] = d.index \/ v[2] = 1 THEN v[3] ELSE 0
Inner(d, in) ==
  Operation(d, [y \in DOMAIN d.in |-> in[d.in[y]]])
Level(w, in) ==
  LET d == DriverOf(w)
      value(u) == IF u \in DOMAIN in THEN in[u] ELSE Inner(DriverOf(u), in)
  IN Operation(d, [y \in DOMAIN d.in |-> value(d.in[y])])

InputsOf(m) ==
  {w \in ports.in \cup {s.wire : s \in slave} : w.sig = m}
LevelsOf(m) ==
  {in \in [InputsOf(m) -> 0..alternate_signals] :
     \A w \in InputsOf(m) : w.kind # "srcsel" => in[w] \in {0, 1}}

\* The selected source drives the pad and alone hears it, unless SHORT lets
\* all hear it, and the direction is that of the source or, with DIREN, of
\* software.
IsDatapath ==
  \A m \in Signals : \A in \in LevelsOf(m) :
    LET s == in[Wire("srcsel", m, 0)] IN
      /\ Level(Wire("sig_out", m, 0), in) = in[Wire("outgoing", m, s)]
      /\ Level(Wire("sig_dir", m, 0), in) =
           IF in[Wire("diren", m, 0)] = 1 THEN in[Wire("dirctl", m, 0)]
           ELSE in[Wire("ctl", m, s)]
      /\ \A a \in Sources :
           Level(Wire("incoming", m, a), in) =
             IF a = s \/ in[Wire("shortsel", m, 0)] = 1
             THEN in[Wire("sig_in", m, 0)] ELSE 0

\* Whatever is generated is the datapath that the driver is written for (at
\* all levels, for netlists small enough to try them).
ComputesDatapath ==
  pc = "done" /\ alternate_signals <= 2 /\ mux_signals <= 2 => IsDatapath
=============================================================================
