----------------------------- MODULE MuxGen_proofs -----------------------------
(***************************************************************************)
(* The generator for any arguments: the netlist is closed, and computes    *)
(* the datapath that the driver is written for.  The order of the drivers  *)
(* does not matter; what matters is which ones there are, and that no two  *)
(* of them drive one wire.                                                 *)
(***************************************************************************)
EXTENDS MuxGen, FiniteSetTheorems, FunctionTheorems, TLAPS

\* Wires and drivers are told apart by their fields.
LEMMA WireFields ==
  \A k1, k2, m, n, a, b :
    /\ Wire(k1, m, a).kind = k1 /\ Wire(k1, m, a).sig = m /\ Wire(k1, m, a).alt = a
    /\ Wire(k1, m, a) = Wire(k2, n, b) => k1 = k2 /\ m = n /\ a = b
BY DEF Wire

LEMMA DriverFields ==
  \A w, op, ins, x :
    LET d == Driver(w, op, ins, x)
    IN d.target = w /\ d.op = op /\ d.in = ins /\ d.index = x
BY DEF Driver

-----------------------------------------------------------------------------
(***************************************************************************)
(* Sequences of drivers                                                    *)
(***************************************************************************)
Content(s) == {s[x] : x \in DOMAIN s}
Distinct(s) == \A x, y \in DOMAIN s : s[x].target = s[y].target => x = y

\* Two lists that drive different wires, one after the other.
LEMMA Joined ==
  ASSUME NEW S, NEW s \in Seq(S), NEW b \in Seq(S), Distinct(s), Distinct(b),
         \A d \in Content(s), e \in Content(b) : d.target # e.target
  PROVE  /\ s \o b \in Seq(S) /\ Distinct(s \o b)
         /\ Content(s \o b) = Content(s) \cup Content(b)
<1> DEFINE c == s \o b
<1>1. /\ c \in Seq(S) /\ DOMAIN c = 1..(Len(s) + Len(b))
      /\ Len(s) \in Nat /\ Len(b) \in Nat
      /\ DOMAIN s = 1..Len(s) /\ DOMAIN b = 1..Len(b)
      /\ \A x \in 1..(Len(s) + Len(b)) :
           c[x] = IF x <= Len(s) THEN s[x] ELSE b[x - Len(s)]
  OBVIOUS
<1> HIDE DEF c
<1>2. ASSUME NEW x \in DOMAIN c
      PROVE  \/ x \in DOMAIN s /\ c[x] = s[x]
             \/ x - Len(s) \in DOMAIN b /\ c[x] = b[x - Len(s)]
  BY <1>1
<1>3. Content(c) = Content(s) \cup Content(b)
  <2>1. \A d \in Content(c) : d \in Content(s) \cup Content(b)
    BY <1>2 DEF Content
  <2>2. ASSUME NEW x \in DOMAIN s PROVE s[x] \in Content(c)
    BY <1>1 DEF Content
  <2>3. ASSUME NEW x \in DOMAIN b PROVE b[x] \in Content(c)
    <3>1. x + Len(s) \in DOMAIN c /\ c[x + Len(s)] = b[x]
      BY <1>1
    <3>2. QED
      BY <3>1 DEF Content
  <2>4. QED
    BY <2>1, <2>2, <2>3 DEF Content
<1>4. ASSUME NEW x \in DOMAIN c, NEW y \in DOMAIN c, c[x].target = c[y].target
      PROVE  x = y
  <2>1. CASE x \in DOMAIN s /\ c[x] = s[x] /\ y \in DOMAIN s /\ c[y] = s[y]
    BY <1>4, <2>1 DEF Distinct
  <2>2. CASE /\ x - Len(s) \in DOMAIN b /\ c[x] = b[x - Len(s)]
             /\ y - Len(s) \in DOMAIN b /\ c[y] = b[y - Len(s)]
    <3>1. x - Len(s) = y - Len(s)
      BY <1>4, <2>2 DEF Distinct
    <3>2. QED
      BY <1>1, <3>1
  <2>3. CASE /\ x \in DOMAIN s /\ c[x] = s[x]
             /\ y - Len(s) \in DOMAIN b /\ c[y] = b[y - Len(s)]
    BY <1>4, <2>3 DEF Content
  <2>4. CASE /\ x - Len(s) \in DOMAIN b /\ c[x] = b[x - Len(s)]
             /\ y \in DOMAIN s /\ c[y] = s[y]
    BY <1>4, <2>4 DEF Content
  <2>5. QED
    BY <1>2, <2>1, <2>2, <2>3, <2>4
<1>5. QED
  BY <1>1, <1>3, <1>4 DEF Distinct, c

\* A driver more.
LEMMA OneMore ==
  ASSUME NEW S, NEW s \in Seq(S), NEW d \in S, Distinct(s),
         \A e \in Content(s) : e.target # d.target
  PROVE  /\ Append(s, d) \in Seq(S) /\ Distinct(Append(s, d))
         /\ Content(Append(s, d)) = Content(s) \cup {d}
<1> DEFINE c == Append(s, d)
<1>1. /\ c \in Seq(S) /\ DOMAIN c = 1..(Len(s) + 1) /\ Len(s) \in Nat
      /\ DOMAIN s = 1..Len(s)
      /\ \A x \in 1..Len(s) : c[x] = s[x]
      /\ c[Len(s) + 1] = d
  OBVIOUS
<1> HIDE DEF c
<1>2. \A x \in DOMAIN c : x \in DOMAIN s \/ x = Len(s) + 1
  BY <1>1
<1>3. Content(c) = Content(s) \cup {d}
  BY <1>1, <1>2 DEF Content
<1>4. Distinct(c)
  BY <1>1, <1>2 DEF Distinct, Content
<1>5. QED
  BY <1>1, <1>3, <1>4 DEF c

\* As many wires as drivers.
LEMMA TargetsCounted ==
  ASSUME NEW S, NEW s \in Seq(S), Distinct(s)
  PROVE  LET T == {s[x].target : x \in DOMAIN s}
         IN IsFiniteSet(T) /\ Cardinality(T) = Len(s)
<1> DEFINE T == {s[x].target : x \in DOMAIN s}
           f == [x \in 1..Len(s) |-> s[x].target]
<1>1. DOMAIN s = 1..Len(s) /\ Len(s) \in Nat
  OBVIOUS
<1>2. f \in [1..Len(s) -> T] /\ IsInjective(f) /\ \A t \in T : \E x \in 1..Len(s) : f[x] = t
  BY <1>1 DEF Distinct, IsInjective
<1>3. ExistsBijection(1..Len(s), T)
  BY <1>2 DEF ExistsBijection, Bijection, Injection, Surjection
<1>4. Cardinality(T) = Len(s)
  BY <1>1, <1>3, FS_CountingElements
<1>5. IsFiniteSet(T)
  BY <1>1, <1>3, FS_NatBijection
<1>6. QED
  BY <1>4, <1>5

-----------------------------------------------------------------------------
(***************************************************************************)
(* What is generated                                                       *)
(***************************************************************************)
BitDriver(m) ==
  Driver(Wire("sig_in_bit", m, 0), "copy", <<Wire("sig_in", m, 0)>>, 0)
IncomingDriver(m, a) ==
  Driver(Wire("incoming", m, a), "hears",
         <<Wire("srcsel", m, 0), Wire("shortsel", m, 0), Wire("sig_in_bit", m, 0)>>, a)
Muxes(m) == {HwDirMux(m), DirMux(m), OutMux(m)}
Incoming(m) == {IncomingDriver(m, a) : a \in Sources}
LogicOf(m) == Muxes(m) \cup Incoming(m)

Below(n) == {m \in Signals : m < n}
BitsBelow(n) == {BitDriver(m) : m \in Below(n)}
LogicBelow(n) == UNION {LogicOf(m) : m \in Below(n)}
AllDrivers == BitsBelow(mux_signals) \cup LogicBelow(mux_signals)

LEMMA TargetsAre ==
  \A m, a :
    /\ BitDriver(m).target = Wire("sig_in_bit", m, 0)
    /\ HwDirMux(m).target = Wire("hw_dir_sig", m, 0)
    /\ DirMux(m).target = Wire("sig_dir", m, 0)
    /\ OutMux(m).target = Wire("sig_out", m, 0)
    /\ IncomingDriver(m, a).target = Wire("incoming", m, a)
BY DriverFields DEF BitDriver, HwDirMux, DirMux, OutMux, IncomingDriver

\* The logic of a signal drives wires of that signal, but not its input bit.
LEMMA LogicTargets ==
  \A m : \A d \in LogicOf(m) : d.target.sig = m /\ d.target.kind # "sig_in_bit"
BY TargetsAre, WireFields DEF LogicOf, Muxes, Incoming

LEMMA BitTargets ==
  \A m : BitDriver(m).target.sig = m /\ BitDriver(m).target.kind = "sig_in_bit"
BY TargetsAre, WireFields

LEMMA BelowMore ==
  ASSUME NEW n \in Signals, mux_signals \in Int
  PROVE  /\ Below(n + 1) = Below(n) \cup {n}
         /\ BitsBelow(n + 1) = BitsBelow(n) \cup {BitDriver(n)}
         /\ LogicBelow(n + 1) = LogicBelow(n) \cup LogicOf(n)
<1>1. Below(n + 1) = Below(n) \cup {n}
  BY DEF Below, Signals
<1>2. QED
  BY <1>1 DEF BitsBelow, LogicBelow

LEMMA BelowAll ==
  ASSUME mux_signals \in Int
  PROVE  Below(mux_signals) = Signals /\ Below(0) = {}
BY DEF Below, Signals

\* One run of the loop over the sources of a signal.
LEMMA IncomingMade ==
  ASSUME NEW m \in Signals, ArgumentsLegal, mux_signals \in Int, alternate_signals \in Int
  PROVE  /\ IncomingGen(m) \in Seq(AllDrivers) /\ Distinct(IncomingGen(m))
         /\ Content(IncomingGen(m)) = Incoming(m)
<1> DEFINE s == IncomingGen(m)
           n == alternate_signals + 1
<1>1. n \in Nat /\ Sources = {x - 1 : x \in 1..n}
  <2>1. n \in Nat
    BY DEF ArgumentsLegal
  <2>2. \A a \in Sources : a + 1 \in 1..n /\ a = (a + 1) - 1
    BY DEF Sources
  <2>3. \A x \in 1..n : x - 1 \in Sources
    BY DEF Sources
  <2>4. QED
    BY <2>1, <2>2, <2>3
<1>2. DOMAIN s = 1..n /\ \A x \in 1..n : s[x] = IncomingDriver(m, x - 1)
  BY DEF IncomingGen, IncomingDriver
<1>3. \A x \in 1..n : s[x] \in AllDrivers
  <2>1. Incoming(m) \subseteq LogicBelow(mux_signals)
    BY BelowAll DEF LogicBelow, LogicOf
  <2>2. QED
    BY <1>1, <1>2, <2>1 DEF AllDrivers, Incoming
<1>4. s = [x \in 1..n |-> s[x]]
  BY DEF IncomingGen
<1> HIDE DEF s, n
<1>5. s \in Seq(AllDrivers)
  BY <1>1, <1>3, <1>4
<1>6. Content(s) = Incoming(m)
  BY <1>1, <1>2 DEF Content, Incoming
<1>7. ASSUME NEW x \in 1..n, NEW y \in 1..n, s[x].target = s[y].target
      PROVE  x = y
  <2>1. Wire("incoming", m, x - 1) = Wire("incoming", m, y - 1)
    BY <1>2, <1>7, TargetsAre
  <2>2. x - 1 = y - 1
    BY <2>1, WireFields
  <2>3. QED
    BY <1>1, <2>2
<1>8. QED
  BY <1>2, <1>5, <1>6, <1>7 DEF Distinct, s

\* And the three multiplexers before it.
LEMMA MuxesMade ==
  ASSUME NEW m \in Signals, mux_signals \in Int
  PROVE  LET s == <<HwDirMux(m), DirMux(m), OutMux(m)>>
         IN s \in Seq(AllDrivers) /\ Distinct(s) /\ Content(s) = Muxes(m)
<1>1. Muxes(m) \subseteq AllDrivers
  BY BelowAll DEF AllDrivers, LogicBelow, LogicOf
<1> DEFINE p == HwDirMux(m)
           q == DirMux(m)
           r == OutMux(m)
<1>2. p \in AllDrivers /\ q \in AllDrivers /\ r \in AllDrivers
  BY <1>1 DEF Muxes
<1>3. p.target # q.target /\ p.target # r.target /\ q.target # r.target
  BY TargetsAre, WireFields
<1>4. Muxes(m) = {p, q, r}
  BY DEF Muxes
<1> HIDE DEF p, q, r
<1> DEFINE s == <<p, q, r>>
<1>5. /\ s \in Seq(AllDrivers) /\ DOMAIN s = {1, 2, 3}
      /\ s[1] = p /\ s[2] = q /\ s[3] = r
  BY <1>2
<1> HIDE DEF s
<1>6. Distinct(s)
  BY <1>3, <1>5 DEF Distinct
<1>7. Content(s) = {p, q, r}
  BY <1>5 DEF Content
<1>8. QED
  BY <1>4, <1>5, <1>6, <1>7 DEF s, p, q, r

-----------------------------------------------------------------------------
(***************************************************************************)
(* The inductive invariant: what has been generated at each phase          *)
(***************************************************************************)
MadePorts ==
  [in  |-> PerSignal({"sig_in"}) \cup PerSource("ctl") \cup PerSource("outgoing"),
   out |-> PerSignal({"sig_out", "sig_dir"}) \cup PerSource("incoming")]
MadeSignals ==
  Sized(PerSignal({"srcsel"}), Clog2[alternate_signals])
    \cup Sized(PerSignal(OneBit \cup {"hw_dir_sig", "sig_in_bit"}), 1)
MadeSlave ==
  {SlavePort("srcsel", m, Clog2[alternate_signals]) : m \in Signals}
    \cup {SlavePort(kind, m, 1) : kind \in OneBit, m \in Signals}

Holds(content) ==
  drivers \in Seq(AllDrivers) /\ Distinct(drivers) /\ Content(drivers) = content

ArgsInv ==
  /\ mux_signals \in Int /\ alternate_signals \in Int
  /\ pc \in {"args", "exit", "signals", "bits", "logic", "done"}
PortsInv ==
  pc \in {"signals", "bits", "logic", "done"} =>
    ArgumentsLegal /\ ports = MadePorts /\ addr_width = AddrWidth
EmptyInv == pc \in {"args", "signals"} => drivers = <<>> /\ mux = 0
SignalsInv == pc \in {"bits", "logic", "done"} => signals = MadeSignals
BitsInv ==
  pc = "bits" => mux \in 0..mux_signals /\ Holds(BitsBelow(mux))
LogicInv ==
  pc = "logic" =>
    mux \in 0..mux_signals /\ Holds(BitsBelow(mux_signals) \cup LogicBelow(mux))
DoneInv == pc = "done" => Holds(AllDrivers) /\ slave = MadeSlave

GenInv ==
  /\ ArgsInv /\ PortsInv /\ EmptyInv /\ SignalsInv /\ BitsInv /\ LogicInv /\ DoneInv

\* A bit more, and the logic of a signal more.
LEMMA BitAdded ==
  ASSUME mux \in Signals, mux_signals \in Int, Holds(BitsBelow(mux))
  PROVE  LET s == Append(drivers, BitDriver(mux))
         IN /\ s \in Seq(AllDrivers) /\ Distinct(s) /\ Content(s) = BitsBelow(mux + 1)
<1>1. BitDriver(mux) \in AllDrivers
  BY BelowAll DEF AllDrivers, BitsBelow
<1>2. \A e \in BitsBelow(mux) : e.target # BitDriver(mux).target
  <2>1. \A m \in Below(mux) : m # mux
    BY DEF Below, Signals
  <2>2. QED
    BY <2>1, BitTargets DEF BitsBelow
<1>3. /\ drivers \in Seq(AllDrivers) /\ Distinct(drivers)
      /\ Content(drivers) = BitsBelow(mux)
  BY DEF Holds
<1>4. \A e \in Content(drivers) : e.target # BitDriver(mux).target
  BY <1>2, <1>3
<1>5. BitsBelow(mux + 1) = BitsBelow(mux) \cup {BitDriver(mux)}
  BY BelowMore
<1> DEFINE S == AllDrivers
           d == BitDriver(mux)
<1>6. S = AllDrivers /\ d = BitDriver(mux)
  OBVIOUS
<1> HIDE DEF S, d
<1>7. /\ Append(drivers, d) \in Seq(S) /\ Distinct(Append(drivers, d))
      /\ Content(Append(drivers, d)) = Content(drivers) \cup {d}
  BY <1>1, <1>3, <1>4, <1>6, OneMore
<1>8. QED
  BY <1>3, <1>5, <1>6, <1>7

LEMMA LogicAdded ==
  ASSUME mux \in Signals, mux_signals \in Int, alternate_signals \in Int, ArgumentsLegal,
         Holds(BitsBelow(mux_signals) \cup LogicBelow(mux))
  PROVE  LET s == drivers \o <<HwDirMux(mux), DirMux(mux), OutMux(mux)>> \o IncomingGen(mux)
         IN /\ s \in Seq(AllDrivers) /\ Distinct(s)
            /\ Content(s) = BitsBelow(mux_signals) \cup LogicBelow(mux + 1)
<1> DEFINE S == AllDrivers
           three == <<HwDirMux(mux), DirMux(mux), OutMux(mux)>>
           rest == IncomingGen(mux)
<1>1. /\ drivers \in Seq(S) /\ Distinct(drivers)
      /\ Content(drivers) = BitsBelow(mux_signals) \cup LogicBelow(mux)
  BY DEF Holds
<1>2. three \in Seq(S) /\ Distinct(three) /\ Content(three) = Muxes(mux)
  BY MuxesMade
<1>3. rest \in Seq(S) /\ Distinct(rest) /\ Content(rest) = Incoming(mux)
  BY IncomingMade
<1>4. \A d \in Content(drivers), e \in LogicOf(mux) : d.target # e.target
  <2>1. \A d \in BitsBelow(mux_signals), e \in LogicOf(mux) : d.target # e.target
    BY BitTargets, LogicTargets DEF BitsBelow
  <2>2. \A m \in Below(mux) : m # mux
    BY DEF Below, Signals
  <2>3. \A d \in LogicBelow(mux), e \in LogicOf(mux) : d.target # e.target
    BY <2>2, LogicTargets DEF LogicBelow
  <2>4. QED
    BY <1>1, <2>1, <2>3
<1>5. \A d \in Muxes(mux), e \in Incoming(mux) : d.target # e.target
  BY TargetsAre, WireFields DEF Muxes, Incoming
<1>6. LogicOf(mux) = Muxes(mux) \cup Incoming(mux)
  BY DEF LogicOf
<1>7. LogicBelow(mux + 1) = LogicBelow(mux) \cup LogicOf(mux)
  BY BelowMore
<1> HIDE DEF S, three, rest
<1> DEFINE most == drivers \o three
<1>8. most \in Seq(S) /\ Distinct(most) /\ Content(most) = Content(drivers) \cup Muxes(mux)
  <2>1. \A d \in Content(drivers), e \in Content(three) : d.target # e.target
    BY <1>2, <1>4, <1>6
  <2>2. QED
    BY <1>1, <1>2, <2>1, Joined
<1> HIDE DEF most
<1>9. /\ most \o rest \in Seq(S) /\ Distinct(most \o rest)
      /\ Content(most \o rest) = Content(most) \cup Incoming(mux)
  <2>1. \A d \in Content(most), e \in Content(rest) : d.target # e.target
    BY <1>3, <1>4, <1>5, <1>6, <1>8
  <2>2. QED
    BY <1>3, <1>8, <2>1, Joined
<1>10. QED
  <2>1. Content(most \o rest) = BitsBelow(mux_signals) \cup LogicBelow(mux + 1)
    BY <1>1, <1>6, <1>7, <1>8, <1>9
  <2>2. QED
    BY <1>9, <2>1 DEF most, three, rest, S

-----------------------------------------------------------------------------
LEMMA GenInitInv == GenInit => GenInv
<1> SUFFICES ASSUME GenInit PROVE GenInv
  OBVIOUS
<1>1. mux_signals \in Int /\ alternate_signals \in Int
  BY ArgumentAssumption DEF GenInit
<1>2. QED
  BY <1>1 DEF GenInit, GenInv, ArgsInv, PortsInv, EmptyInv, SignalsInv, BitsInv, LogicInv,
     DoneInv

LEMMA NothingBelow ==
  ASSUME mux_signals \in Int
  PROVE  BitsBelow(0) = {} /\ LogicBelow(0) = {}
BY BelowAll DEF BitsBelow, LogicBelow

\* What depends only on the arguments.
LEMMA SameArguments ==
  ASSUME UNCHANGED args
  PROVE  /\ mux_signals' = mux_signals /\ alternate_signals' = alternate_signals
         /\ ArgumentsLegal' = ArgumentsLegal /\ AddrWidth' = AddrWidth
         /\ MadePorts' = MadePorts /\ MadeSignals' = MadeSignals
         /\ MadeSlave' = MadeSlave /\ AllDrivers' = AllDrivers
         /\ \A n : BitsBelow(n)' = BitsBelow(n) /\ LogicBelow(n)' = LogicBelow(n)
<1>1. mux_signals' = mux_signals /\ alternate_signals' = alternate_signals
  BY DEF args
<1>2. ArgumentsLegal' = ArgumentsLegal /\ AddrWidth' = AddrWidth
  BY <1>1 DEF ArgumentsLegal, AddrWidth
<1>3. Signals' = Signals /\ Sources' = Sources
  BY <1>1 DEF Signals, Sources
<1>4. MadePorts' = MadePorts /\ MadeSignals' = MadeSignals /\ MadeSlave' = MadeSlave
  BY <1>1, <1>3 DEF MadePorts, MadeSignals, MadeSlave, PerSignal, PerSource
<1>5. \A m : LogicOf(m)' = LogicOf(m)
  <2>1. \A m : Incoming(m)' = Incoming(m)
    BY <1>3 DEF Incoming
  <2>2. \A m, kind : Lane(kind, m)' = Lane(kind, m)
    BY <1>1 DEF Lane
  <2>3. \A m : Muxes(m)' = Muxes(m)
    BY <2>2 DEF Muxes, HwDirMux, DirMux, OutMux
  <2>4. QED
    BY <2>1, <2>3 DEF LogicOf
<1>6. \A n : Below(n)' = Below(n)
  BY <1>3 DEF Below
<1>7. \A n : BitsBelow(n)' = BitsBelow(n) /\ LogicBelow(n)' = LogicBelow(n)
  BY <1>5, <1>6 DEF BitsBelow, LogicBelow
<1>8. AllDrivers' = AllDrivers
  BY <1>1, <1>7 DEF AllDrivers
<1>9. QED
  BY <1>1, <1>2, <1>4, <1>7, <1>8

LEMMA AssignBitInv == GenInv /\ AssignBit => GenInv'
<1> SUFFICES ASSUME GenInv, AssignBit PROVE GenInv'
  OBVIOUS
<1>1. /\ pc = "bits" /\ pc' = "bits" /\ mux < mux_signals /\ mux' = mux + 1
      /\ drivers' = Append(drivers, BitDriver(mux))
      /\ UNCHANGED args /\ UNCHANGED <<ports, signals, slave, addr_width>>
  BY DEF AssignBit, BitDriver
<1>2. mux \in 0..mux_signals /\ Holds(BitsBelow(mux)) /\ mux_signals \in Int
  BY <1>1 DEF GenInv, BitsInv, ArgsInv
<1>3. mux \in Signals /\ mux' \in 0..mux_signals
  BY <1>1, <1>2 DEF Signals
<1>4. /\ drivers' \in Seq(AllDrivers) /\ Distinct(drivers')
      /\ Content(drivers') = BitsBelow(mux + 1)
  BY <1>1, <1>2, <1>3, BitAdded
<1>5. BitsBelow(mux)' = BitsBelow(mux + 1) /\ AllDrivers' = AllDrivers
  <2> DEFINE n == mux + 1
  <2>1. mux' = n /\ (\A k : BitsBelow(k)' = BitsBelow(k))
    BY <1>1, SameArguments
  <2>2. QED
    BY <2>1, <1>1, SameArguments DEF BitsBelow, Below, Signals, args
<1>6. (Holds(BitsBelow(mux)))'
  BY <1>4, <1>5 DEF Holds, Distinct, Content
<1>7. mux_signals' = mux_signals /\ alternate_signals' = alternate_signals
  BY <1>1 DEF args
<1>8. ArgsInv' /\ PortsInv' /\ SignalsInv'
  <2>1. ArgsInv'
    BY <1>1, <1>7 DEF GenInv, ArgsInv
  <2>2. PortsInv'
    BY <1>1, SameArguments DEF GenInv, PortsInv
  <2>3. SignalsInv'
    BY <1>1, SameArguments DEF GenInv, SignalsInv
  <2>4. QED
    BY <2>1, <2>2, <2>3
<1>9. EmptyInv' /\ LogicInv' /\ DoneInv'
  BY <1>1 DEF EmptyInv, LogicInv, DoneInv
<1>10. BitsInv'
  BY <1>3, <1>6, <1>7 DEF BitsInv
<1>11. QED
  BY <1>8, <1>9, <1>10 DEF GenInv

LEMMA SignalLogicInv == GenInv /\ SignalLogic => GenInv'
<1> SUFFICES ASSUME GenInv, SignalLogic PROVE GenInv'
  OBVIOUS
<1>1. /\ pc = "logic" /\ pc' = "logic" /\ mux < mux_signals /\ mux' = mux + 1
      /\ drivers' = drivers \o <<HwDirMux(mux), DirMux(mux), OutMux(mux)>> \o IncomingGen(mux)
      /\ UNCHANGED args /\ UNCHANGED <<ports, signals, slave, addr_width>>
  BY DEF SignalLogic
<1>2. /\ mux \in 0..mux_signals /\ Holds(BitsBelow(mux_signals) \cup LogicBelow(mux))
      /\ mux_signals \in Int /\ alternate_signals \in Int /\ ArgumentsLegal
  BY <1>1 DEF GenInv, LogicInv, ArgsInv, PortsInv
<1>3. mux \in Signals /\ mux' \in 0..mux_signals
  BY <1>1, <1>2 DEF Signals
<1>4. /\ drivers' \in Seq(AllDrivers) /\ Distinct(drivers')
      /\ Content(drivers') = BitsBelow(mux_signals) \cup LogicBelow(mux + 1)
  BY <1>1, <1>2, <1>3, LogicAdded
<1>5. mux_signals' = mux_signals /\ alternate_signals' = alternate_signals
  BY <1>1 DEF args
<1>6. LogicBelow(mux)' = LogicBelow(mux + 1) /\ AllDrivers' = AllDrivers
      /\ BitsBelow(mux_signals)' = BitsBelow(mux_signals)
  <2>1. /\ \A n : BitsBelow(n)' = BitsBelow(n) /\ LogicBelow(n)' = LogicBelow(n)
        /\ AllDrivers' = AllDrivers
    BY <1>1, SameArguments
  <2>2. QED
    BY <1>1, <1>5, <2>1
<1>7. (Holds(BitsBelow(mux_signals) \cup LogicBelow(mux)))'
  BY <1>4, <1>6 DEF Holds, Distinct, Content
<1>8. ArgsInv' /\ PortsInv' /\ SignalsInv'
  <2>1. ArgsInv'
    BY <1>1, <1>5 DEF GenInv, ArgsInv
  <2>2. PortsInv'
    BY <1>1, SameArguments DEF GenInv, PortsInv
  <2>3. SignalsInv'
    BY <1>1, SameArguments DEF GenInv, SignalsInv
  <2>4. QED
    BY <2>1, <2>2, <2>3
<1>9. EmptyInv' /\ BitsInv' /\ DoneInv'
  BY <1>1 DEF EmptyInv, BitsInv, DoneInv
<1>10. LogicInv'
  BY <1>3, <1>5, <1>7 DEF LogicInv
<1>11. QED
  BY <1>8, <1>9, <1>10 DEF GenInv

\* The other steps leave the drivers as they are.
LEMMA QuietInv ==
  ASSUME GenInv,
         BadArguments \/ Ports \/ DeclareSignals \/ BitsAssigned \/ ConnectSlave
           \/ UNCHANGED genVars
  PROVE  GenInv'
<1>1. UNCHANGED args /\ drivers' = drivers
  BY DEF BadArguments, Ports, DeclareSignals, BitsAssigned, ConnectSlave, genVars, args
<1>2. /\ mux_signals' = mux_signals /\ alternate_signals' = alternate_signals
      /\ ArgumentsLegal' = ArgumentsLegal /\ AddrWidth' = AddrWidth
      /\ MadePorts' = MadePorts /\ MadeSignals' = MadeSignals
      /\ MadeSlave' = MadeSlave /\ AllDrivers' = AllDrivers
      /\ \A n : BitsBelow(n)' = BitsBelow(n) /\ LogicBelow(n)' = LogicBelow(n)
  BY <1>1, SameArguments
<1>3. \A content : Holds(content)' = Holds(content)
  BY <1>1, <1>2 DEF Holds, Distinct, Content
<1>4. mux_signals \in Int /\ alternate_signals \in Int
  BY DEF GenInv, ArgsInv
<1>5. ArgsInv'
  BY <1>2 DEF GenInv, ArgsInv, BadArguments, Ports, DeclareSignals, BitsAssigned,
     ConnectSlave, genVars
<1>6. CASE BadArguments
  BY <1>5, <1>6 DEF BadArguments, GenInv, PortsInv, EmptyInv, SignalsInv, BitsInv,
     LogicInv, DoneInv
<1>7. CASE Ports
  <2>1. /\ pc = "args" /\ pc' = "signals" /\ ArgumentsLegal /\ ports' = MadePorts
        /\ addr_width' = AddrWidth /\ mux' = mux
    BY <1>7 DEF Ports, MadePorts
  <2>2. PortsInv'
    BY <1>2, <2>1 DEF PortsInv
  <2>3. EmptyInv'
    BY <1>1, <2>1 DEF GenInv, EmptyInv
  <2>4. QED
    BY <1>5, <2>1, <2>2, <2>3 DEF GenInv, SignalsInv, BitsInv, LogicInv, DoneInv
<1>8. CASE DeclareSignals
  <2>1. /\ pc = "signals" /\ pc' = "bits" /\ signals' = MadeSignals
        /\ UNCHANGED <<mux, ports, addr_width>>
    BY <1>8 DEF DeclareSignals, MadeSignals
  <2>2. PortsInv' /\ SignalsInv'
    BY <1>2, <2>1 DEF GenInv, PortsInv, SignalsInv
  <2>3. drivers = <<>> /\ mux = 0 /\ mux' = 0 /\ ArgumentsLegal
    BY <2>1 DEF GenInv, EmptyInv, PortsInv
  <2>4. 0 \in 0..mux_signals
    BY <1>4, <2>3 DEF ArgumentsLegal
  <2>5. Holds(BitsBelow(0))
    <3>1. Content(drivers) = {} /\ Distinct(drivers) /\ drivers \in Seq(AllDrivers)
      BY <2>3 DEF Content, Distinct
    <3>2. QED
      BY <1>4, <3>1, NothingBelow DEF Holds
  <2>6. (Holds(BitsBelow(mux)))'
    BY <1>1, <1>2, <2>3, <2>5 DEF Holds, Distinct, Content
  <2>7. BitsInv'
    BY <1>2, <2>3, <2>4, <2>6 DEF BitsInv
  <2>8. QED
    BY <1>5, <2>1, <2>2, <2>7 DEF GenInv, EmptyInv, LogicInv, DoneInv
<1>9. CASE BitsAssigned
  <2>1. /\ pc = "bits" /\ pc' = "logic" /\ mux = mux_signals /\ mux' = 0
        /\ UNCHANGED <<ports, signals, addr_width>>
    BY <1>9 DEF BitsAssigned
  <2>2. PortsInv' /\ SignalsInv'
    BY <1>2, <2>1 DEF GenInv, PortsInv, SignalsInv
  <2>3. Holds(BitsBelow(mux_signals)) /\ ArgumentsLegal
    BY <2>1 DEF GenInv, BitsInv, PortsInv
  <2>4. 0 \in 0..mux_signals
    BY <1>4, <2>3 DEF ArgumentsLegal
  <2>5. Holds(BitsBelow(mux_signals) \cup LogicBelow(0))
    BY <1>4, <2>3, NothingBelow DEF Holds
  <2>6. (Holds(BitsBelow(mux_signals) \cup LogicBelow(mux)))'
    BY <1>1, <1>2, <2>1, <2>5 DEF Holds, Distinct, Content
  <2>7. LogicInv'
    BY <1>2, <2>1, <2>4, <2>6 DEF LogicInv
  <2>8. QED
    BY <1>5, <2>1, <2>2, <2>7 DEF GenInv, EmptyInv, BitsInv, DoneInv
<1>10. CASE ConnectSlave
  <2>1. /\ pc = "logic" /\ pc' = "done" /\ mux = mux_signals /\ slave' = MadeSlave
        /\ UNCHANGED <<ports, signals, addr_width>>
    BY <1>10 DEF ConnectSlave, MadeSlave
  <2>2. PortsInv' /\ SignalsInv'
    BY <1>2, <2>1 DEF GenInv, PortsInv, SignalsInv
  <2>3. Holds(AllDrivers)
    BY <2>1 DEF GenInv, LogicInv, AllDrivers
  <2>4. DoneInv'
    BY <1>1, <1>2, <2>1, <2>3 DEF DoneInv, Holds, Distinct, Content
  <2>5. QED
    BY <1>5, <2>1, <2>2, <2>4 DEF GenInv, EmptyInv, BitsInv, LogicInv
<1>11. CASE UNCHANGED genVars
  <2>1. UNCHANGED <<pc, mux, ports, signals, slave, addr_width>>
    BY <1>11 DEF genVars
  <2>2. PortsInv' /\ SignalsInv' /\ EmptyInv'
    BY <1>1, <1>2, <2>1 DEF GenInv, PortsInv, SignalsInv, EmptyInv
  <2>3. BitsInv' /\ LogicInv' /\ DoneInv'
    BY <1>1, <1>2, <2>1 DEF GenInv, BitsInv, LogicInv, DoneInv, Holds, Distinct, Content
  <2>4. QED
    BY <1>5, <2>2, <2>3 DEF GenInv
<1>12. QED
  BY <1>6, <1>7, <1>8, <1>9, <1>10, <1>11

LEMMA GenNextInv == GenInv /\ [GenNext]_genVars => GenInv'
BY AssignBitInv, SignalLogicInv, QuietInv DEF GenNext, GenFinished

LEMMA GenInvariant == GenSpec => []GenInv
<1>1. GenInit => GenInv
  BY GenInitInv
<1>2. GenInv /\ [GenNext]_genVars => GenInv'
  BY GenNextInv
<1>3. QED
  BY <1>1, <1>2, PTL DEF GenSpec

-----------------------------------------------------------------------------
\* Once the netlist is done.
LEMMA Generated ==
  ASSUME GenInv, pc = "done"
  PROVE  /\ mux_signals \in 1..MAX_SIGNALS /\ alternate_signals \in 1..MAX_ALT_SIGNALS
         /\ ports = MadePorts /\ signals = MadeSignals /\ slave = MadeSlave
         /\ addr_width = AddrWidth /\ drivers \in Seq(AllDrivers)
         /\ Distinct(drivers) /\ Content(drivers) = AllDrivers
<1>1. mux_signals \in Int /\ alternate_signals \in Int
  BY DEF GenInv, ArgsInv
<1>2. ArgumentsLegal /\ ports = MadePorts /\ addr_width = AddrWidth
  BY DEF GenInv, PortsInv
<1>3. signals = MadeSignals
  BY DEF GenInv, SignalsInv
<1>4. Holds(AllDrivers) /\ slave = MadeSlave
  BY DEF GenInv, DoneInv
<1>5. mux_signals \in 1..MAX_SIGNALS /\ alternate_signals \in 1..MAX_ALT_SIGNALS
  BY <1>1, <1>2 DEF ArgumentsLegal
<1>6. QED
  BY <1>2, <1>3, <1>4, <1>5 DEF Holds

-----------------------------------------------------------------------------
(***************************************************************************)
(* Addresses                                                               *)
(***************************************************************************)
LEMMA SmallMod ==
  ASSUME NEW a \in Nat, NEW b \in Nat, a < b
  PROVE  a % b = a
BY Z3

\* The byte after MUXINFO is the highest that the width has to hold.
LEMMA AddressesFit ==
  ASSUME GenInv, pc = "done"
  PROVE  2 ^ addr_width \in Nat /\ 132 < 2 ^ addr_width
<1>1. mux_signals \in 1..32 /\ addr_width = AddrWidth
  BY Generated DEF MAX_SIGNALS
<1>2. Larger(mux_signals * 4, MUXINFO) + 4 = 132
  BY <1>1 DEF Larger, MUXINFO
<1>3. 132 \in DOMAIN Clog2
  BY Clog2Assumption DEF MUXINFO
<1>4. \A n \in DOMAIN Clog2 : Clog2[n] \in Nat /\ n < 2 ^ Clog2[n]
  BY Clog2Assumption
<1>5. addr_width = Clog2[132]
  BY <1>1, <1>2 DEF AddrWidth
<1>6. addr_width \in Nat /\ 132 < 2 ^ addr_width
  BY <1>3, <1>4, <1>5
<1>7. 2 ^ addr_width \in Nat
  BY <1>6
<1>8. QED
  BY <1>6, <1>7

\* For any legal arguments, every SRCSEL register and MUXINFO have bus
\* addresses of their own: C_S_AXI_ADDR_WIDTH is never too small.
THEOREM AddressesApart == GenSpec => []AddressesDistinct
<1>1. GenInv => AddressesDistinct
  <2> SUFFICES ASSUME GenInv, pc = "done"
               PROVE  /\ \A m, n \in Signals : Addresses[m] = Addresses[n] => m = n
                      /\ \A m \in Signals : Addresses[m] # MUXINFO % (2 ^ addr_width)
                      /\ MUXINFO < 2 ^ addr_width
    BY DEF AddressesDistinct
  <2> DEFINE size == 2 ^ addr_width
  <2>1. size \in Nat /\ 132 < size
    BY AddressesFit
  <2>2. mux_signals \in 1..32
    BY Generated DEF MAX_SIGNALS
  <2>3. ASSUME NEW m \in Signals PROVE Addresses[m] = 4 * m /\ 4 * m < 128 /\ m \in Nat
    <3>1. m \in Nat /\ 4 * m \in Nat /\ 4 * m < 128
      BY <2>2 DEF Signals
    <3>2. Addresses[m] = (4 * m) % size
      BY DEF Addresses
    <3> HIDE DEF size
    <3>3. 4 * m < size
      BY <2>1, <3>1
    <3>4. (4 * m) % size = 4 * m
      BY <2>1, <3>1, <3>3, SmallMod
    <3>5. QED
      BY <3>1, <3>2, <3>4
  <2>4. MUXINFO = 128 /\ MUXINFO < size /\ MUXINFO % size = 128
    <3> HIDE DEF size
    <3>1. 128 < size
      BY <2>1
    <3>2. 128 % size = 128
      BY <2>1, <3>1, SmallMod
    <3>3. QED
      BY <3>1, <3>2 DEF MUXINFO
  <2>5. \A m \in Signals : Addresses[m] # MUXINFO % size
    BY <2>3, <2>4
  <2>6. \A m, n \in Signals : Addresses[m] = Addresses[n] => m = n
    BY <2>3
  <2>7. QED
    BY <2>4, <2>5, <2>6
<1>2. QED
  BY <1>1, GenInvariant, PTL

-----------------------------------------------------------------------------
(***************************************************************************)
(* The netlist                                                             *)
(***************************************************************************)
WireKinds == {"srcsel"} \cup OneBit

LEMMA Members ==
  ASSUME GenInv, pc = "done"
  PROVE  /\ \A m \in Signals : BitDriver(m) \in Content(drivers)
         /\ \A m \in Signals : LogicOf(m) \subseteq Content(drivers)
         /\ \A d \in Content(drivers) :
              \E m \in Signals : d = BitDriver(m) \/ d \in LogicOf(m)
<1>1. Below(mux_signals) = Signals /\ Content(drivers) = AllDrivers
  <2>1. mux_signals \in Int
    BY Generated
  <2>2. QED
    BY <2>1, Generated, BelowAll
<1>2. /\ \A m \in Signals : BitDriver(m) \in AllDrivers
      /\ \A m \in Signals : LogicOf(m) \subseteq AllDrivers
      /\ \A d \in AllDrivers : \E m \in Signals : d = BitDriver(m) \/ d \in LogicOf(m)
  BY <1>1 DEF AllDrivers, BitsBelow, LogicBelow
<1>3. QED
  BY <1>1, <1>2

\* What is driven: by logic, and by the slave.
LEMMA DrivenWires ==
  ASSUME GenInv, pc = "done"
  PROVE  /\ {d.target : d \in Content(drivers)} =
              PerSignal({"sig_in_bit", "hw_dir_sig", "sig_dir", "sig_out"})
                \cup PerSource("incoming")
         /\ {s.wire : s \in slave} = PerSignal(WireKinds)
<1> DEFINE D == PerSignal({"sig_in_bit", "hw_dir_sig", "sig_dir", "sig_out"})
                  \cup PerSource("incoming")
<1>1. ASSUME NEW d \in Content(drivers) PROVE d.target \in D
  <2>1. PICK m \in Signals : d = BitDriver(m) \/ d \in LogicOf(m)
    BY Members
  <2>2. CASE d \in Incoming(m)
    BY <2>2, TargetsAre DEF Incoming, PerSource
  <2>3. CASE d = BitDriver(m) \/ d \in Muxes(m)
    BY <2>3, TargetsAre DEF Muxes, PerSignal
  <2>4. QED
    BY <2>1, <2>2, <2>3 DEF LogicOf
<1>2. ASSUME NEW w \in D PROVE \E d \in Content(drivers) : d.target = w
  <2>1. CASE w \in PerSource("incoming")
    <3>1. PICK m \in Signals, a \in Sources : w = Wire("incoming", m, a)
      BY <2>1 DEF PerSource
    <3>2. IncomingDriver(m, a) \in Content(drivers)
      BY Members DEF LogicOf, Incoming
    <3>3. QED
      BY <3>1, <3>2, TargetsAre
  <2>2. CASE w \in PerSignal({"sig_in_bit", "hw_dir_sig", "sig_dir", "sig_out"})
    <3>1. PICK m \in Signals, kind \in {"sig_in_bit", "hw_dir_sig", "sig_dir", "sig_out"} :
            w = Wire(kind, m, 0)
      BY <2>2 DEF PerSignal
    <3>2. /\ BitDriver(m) \in Content(drivers) /\ HwDirMux(m) \in Content(drivers)
          /\ DirMux(m) \in Content(drivers) /\ OutMux(m) \in Content(drivers)
      BY Members DEF LogicOf, Muxes
    <3>3. QED
      BY <3>1, <3>2, TargetsAre
  <2>3. QED
    BY <2>1, <2>2
<1>3. {s.wire : s \in slave} = PerSignal(WireKinds)
  <2>1. slave = MadeSlave
    BY Generated
  <2>2. ASSUME NEW s \in slave PROVE s.wire \in PerSignal(WireKinds)
    <3>1. \E kind \in WireKinds, m \in Signals : \E size : s = SlavePort(kind, m, size)
      BY <2>1 DEF MadeSlave, WireKinds
    <3>2. \A kind, m, size : SlavePort(kind, m, size).wire = Wire(kind, m, 0)
      BY DEF SlavePort
    <3>3. \E kind \in WireKinds, m \in Signals : s.wire = Wire(kind, m, 0)
      BY <3>1, <3>2
    <3>4. QED
      BY <3>3 DEF PerSignal
  <2>3. ASSUME NEW w \in PerSignal(WireKinds) PROVE \E s \in slave : s.wire = w
    <3>1. PICK kind \in WireKinds, m \in Signals : w = Wire(kind, m, 0)
      BY DEF PerSignal
    <3>2. \A size : SlavePort(kind, m, size).wire = w
      BY <3>1 DEF SlavePort
    <3>3. \E size : SlavePort(kind, m, size) \in slave
      BY <2>1 DEF MadeSlave, WireKinds
    <3>4. QED
      BY <3>2, <3>3
  <2>4. QED
    BY <2>2, <2>3
<1>4. QED
  BY <1>1, <1>2, <1>3

\* What is declared.
LEMMA DeclaredWires ==
  ASSUME GenInv, pc = "done"
  PROVE  Declared = PerSignal(WireKinds \cup {"hw_dir_sig", "sig_in_bit"})
<1>1. signals = MadeSignals
  BY Generated
<1>2. \A wires, size : {s.wire : s \in Sized(wires, size)} = wires
  <2> TAKE wires, size
  <2>1. \A s \in Sized(wires, size) : s.wire \in wires
    BY DEF Sized
  <2>2. \A w \in wires : [wire |-> w, size |-> size] \in Sized(wires, size)
    BY DEF Sized
  <2>3. \A w \in wires : [wire |-> w, size |-> size].wire = w
    OBVIOUS
  <2>4. QED
    BY <2>1, <2>2, <2>3
<1>3. Declared = PerSignal({"srcsel"}) \cup PerSignal(OneBit \cup {"hw_dir_sig", "sig_in_bit"})
  BY <1>1, <1>2 DEF Declared, MadeSignals
<1>4. QED
  <2> DEFINE rest == OneBit \cup {"hw_dir_sig", "sig_in_bit"}
  <2>1. \A j, k : PerSignal(j) \cup PerSignal(k) = PerSignal(j \cup k)
    BY DEF PerSignal
  <2>2. {"srcsel"} \cup rest = WireKinds \cup {"hw_dir_sig", "sig_in_bit"}
    BY DEF WireKinds
  <2>3. Declared = PerSignal({"srcsel"} \cup rest)
    BY <1>3, <2>1
  <2>4. QED
    BY <2>2, <2>3
\* A connection of the slave is its wire.
LEMMA SlaveCounted ==
  ASSUME GenInv, pc = "done"
  PROVE  LET W == {s.wire : s \in slave}
         IN IsFiniteSet(W) /\ Cardinality(W) = Cardinality(slave)
<1> DEFINE W == {s.wire : s \in slave}
           f == [s \in slave |-> s.wire]
<1>1. slave = MadeSlave
  BY Generated
<1>2. \A s, r \in slave : s.wire = r.wire => s = r
  <2>1. \A s \in slave :
          /\ \E kind \in WireKinds, m \in Signals : s.wire = Wire(kind, m, 0)
          /\ s = SlavePort(s.wire.kind, s.wire.sig,
                           IF s.wire.kind = "srcsel" THEN Clog2[alternate_signals] ELSE 1)
    BY <1>1, WireFields DEF MadeSlave, SlavePort, WireKinds, OneBit
  <2>2. QED
    BY <2>1
<1>3. ExistsBijection(slave, W)
  <2>1. f \in Bijection(slave, W)
    BY <1>2 DEF Bijection, Injection, Surjection, IsInjective
  <2>2. QED
    BY <2>1 DEF ExistsBijection
<1>4. IsFiniteSet(W)
  <2>1. mux_signals \in Int
    BY Generated
  <2>2. IsFiniteSet(Signals)
    BY <2>1, FS_Interval DEF Signals
  <2>3. \A kind : IsFiniteSet({Wire(kind, m, 0) : m \in Signals})
    <3> TAKE kind
    <3> DEFINE T == {Wire(kind, m, 0) : m \in Signals}
               g == [m \in Signals |-> Wire(kind, m, 0)]
    <3>1. g \in Surjection(Signals, T)
      BY DEF Surjection
    <3>2. QED
      BY <2>2, <3>1, FS_Surjection
  <2>4. PerSignal(WireKinds) =
          {Wire("srcsel", m, 0) : m \in Signals}
            \cup ({Wire("shortsel", m, 0) : m \in Signals}
            \cup ({Wire("diren", m, 0) : m \in Signals}
            \cup {Wire("dirctl", m, 0) : m \in Signals}))
    BY DEF PerSignal, WireKinds, OneBit
  <2> DEFINE T(kind) == {Wire(kind, m, 0) : m \in Signals}
  <2>5. IsFiniteSet(T("diren") \cup T("dirctl"))
    <3>1. IsFiniteSet(T("diren")) /\ IsFiniteSet(T("dirctl"))
      BY <2>3
    <3> HIDE DEF T
    <3>2. QED
      BY <3>1, FS_Union
  <2>6. IsFiniteSet(T("shortsel") \cup (T("diren") \cup T("dirctl")))
    <3>1. IsFiniteSet(T("shortsel"))
      BY <2>3
    <3> HIDE DEF T
    <3>2. QED
      BY <2>5, <3>1, FS_Union
  <2>7. IsFiniteSet(T("srcsel") \cup (T("shortsel") \cup (T("diren") \cup T("dirctl"))))
    <3>1. IsFiniteSet(T("srcsel"))
      BY <2>3
    <3> HIDE DEF T
    <3>2. QED
      BY <2>6, <3>1, FS_Union
  <2>8. IsFiniteSet(PerSignal(WireKinds))
    BY <2>4, <2>7
  <2>9. QED
    BY <2>8, DrivenWires
<1>5. IsFiniteSet(slave)
  BY <1>3, <1>4, FS_Bijection, Fun_ExistsBijSymmetric
<1>6. QED
  BY <1>3, <1>4, <1>5, FS_Bijection

\* What a driver reads are inputs of the module, register fields or signals
\* between, all of the signal it drives.
LEMMA ReadsOwn ==
  ASSUME GenInv, pc = "done", NEW d \in Content(drivers), NEW y \in DOMAIN d.in
  PROVE  d.in[y] \in ports.in \cup Declared /\ d.in[y].sig = d.target.sig
<1>1. PICK m \in Signals : d = BitDriver(m) \/ d \in LogicOf(m)
  BY Members
<1>2. d.target.sig = m
  BY <1>1, BitTargets, LogicTargets
<1>3. ports = MadePorts /\ alternate_signals \in 1..MAX_ALT_SIGNALS
  BY Generated
<1>4. /\ Wire("sig_in", m, 0) \in ports.in
      /\ \A a \in Sources : Wire("ctl", m, a) \in ports.in /\ Wire("outgoing", m, a) \in ports.in
  BY <1>3 DEF MadePorts, PerSignal, PerSource
<1>5. \A kind \in {"srcsel", "shortsel", "diren", "dirctl", "hw_dir_sig", "sig_in_bit"} :
        Wire(kind, m, 0) \in Declared
  BY DeclaredWires DEF PerSignal, WireKinds, OneBit
<1> DEFINE Own(w) == w \in ports.in \cup Declared /\ w.sig = m
<1>6. /\ Own(Wire("sig_in", m, 0))
      /\ \A a \in Sources : Own(Wire("ctl", m, a)) /\ Own(Wire("outgoing", m, a))
      /\ \A kind \in {"srcsel", "shortsel", "diren", "dirctl", "hw_dir_sig", "sig_in_bit"} :
           Own(Wire(kind, m, 0))
  BY <1>4, <1>5, WireFields
<1> HIDE DEF Own
<1>7. ASSUME NEW kind \in {"ctl", "outgoing"}, d.in = Select(m) \o Lane(kind, m)
      PROVE  Own(d.in[y])
  <2> DEFINE n == alternate_signals + 1
             lane == Lane(kind, m)
  <2>1. /\ n \in Nat /\ lane = [x \in 1..n |-> lane[x]]
        /\ \A x \in 1..n : lane[x] = Wire(kind, m, x - 1)
    BY <1>3 DEF Lane
  <2>2. \A x \in 1..n : x - 1 \in Sources
    BY <1>3 DEF Sources
  <2> HIDE DEF n, lane
  <2>3. \A x \in 1..n : Own(lane[x])
    BY <1>6, <2>1, <2>2
  <2> DEFINE w == Wire("srcsel", m, 0)
  <2>4. Own(w)
    BY <1>6
  <2>5. d.in = <<w>> \o lane
    BY <1>7 DEF Select, lane
  <2> HIDE DEF w
  <2>6. d.in[y] = w \/ \E x \in 1..n : d.in[y] = lane[x]
    <3> DEFINE S == {w} \cup {lane[x] : x \in 1..n}
    <3>1. <<w>> \in Seq(S) /\ lane \in Seq(S)
      BY <2>1
    <3>2. d.in \in Seq(S)
      BY <2>5, <3>1
    <3>3. d.in[y] \in S
      BY <3>2
    <3>4. QED
      BY <3>3
  <2>7. QED
    BY <2>3, <2>4, <2>6
<1>8. CASE d = BitDriver(m)
  <2>1. d.in = <<Wire("sig_in", m, 0)>>
    BY <1>8, DriverFields DEF BitDriver
  <2>2. d.in[y] = Wire("sig_in", m, 0)
    BY <2>1
  <2>3. Own(d.in[y])
    BY <1>6, <2>2
  <2>4. QED
    BY <1>2, <2>3 DEF Own
<1>9. CASE d = HwDirMux(m) \/ d = OutMux(m)
  <2>1. /\ HwDirMux(m).in = Select(m) \o Lane("ctl", m)
        /\ OutMux(m).in = Select(m) \o Lane("outgoing", m)
    BY DEF HwDirMux, OutMux, Driver
  <2>2. Own(d.in[y])
    BY <1>7, <1>9, <2>1
  <2>3. QED
    BY <1>2, <2>2 DEF Own
<1>10. CASE d = DirMux(m)
  <2>1. d.in = <<Wire("diren", m, 0), Wire("hw_dir_sig", m, 0), Wire("dirctl", m, 0)>>
    BY <1>10, DriverFields DEF DirMux
  <2>2. d.in[y] \in {Wire("diren", m, 0), Wire("hw_dir_sig", m, 0), Wire("dirctl", m, 0)}
    BY <2>1
  <2>3. Own(d.in[y])
    BY <1>6, <2>2
  <2>4. QED
    BY <1>2, <2>3 DEF Own
<1>11. CASE d \in Incoming(m)
  <2>1. d.in = <<Wire("srcsel", m, 0), Wire("shortsel", m, 0), Wire("sig_in_bit", m, 0)>>
    BY <1>11, DriverFields DEF Incoming, IncomingDriver
  <2>2. d.in[y] \in {Wire("srcsel", m, 0), Wire("shortsel", m, 0), Wire("sig_in_bit", m, 0)}
    BY <2>1
  <2>3. Own(d.in[y])
    BY <1>6, <2>2
  <2>4. QED
    BY <1>2, <2>3 DEF Own
<1>12. QED
  BY <1>1, <1>8, <1>9, <1>10, <1>11 DEF LogicOf, Muxes

\* For any legal arguments, the netlist that is generated is closed: every
\* output and every signal has one driver, nothing else has one, what is read
\* exists, connections fit, and no two signals have wires in common.
THEOREM ConnectsAll == GenSpec => []NetlistClosed
<1>1. ASSUME GenInv, pc = "done"
      PROVE  /\ Targets = ports.out \cup Declared
             /\ Cardinality(Targets) = Len(drivers) + Cardinality(slave)
             /\ \A x \in DOMAIN drivers : \A y \in DOMAIN drivers[x].in :
                  /\ drivers[x].in[y] \in ports.in \cup Declared
                  /\ drivers[x].in[y].sig = drivers[x].target.sig
             /\ \A s \in slave : [wire |-> s.wire, size |-> s.size] \in signals
  <2> DEFINE D == {drivers[x].target : x \in DOMAIN drivers}
             W == {s.wire : s \in slave}
  <2>1. /\ D = PerSignal({"sig_in_bit", "hw_dir_sig", "sig_dir", "sig_out"})
                 \cup PerSource("incoming")
        /\ W = PerSignal(WireKinds)
    <3>1. D = {d.target : d \in Content(drivers)}
      BY DEF Content
    <3>2. QED
      BY <1>1, <3>1, DrivenWires
  <2>2. Targets = ports.out \cup Declared
    <3>1. ports.out = PerSignal({"sig_out", "sig_dir"}) \cup PerSource("incoming")
      BY <1>1, Generated DEF MadePorts
    <3>2. \A j, k : PerSignal(j) \cup PerSignal(k) = PerSignal(j \cup k)
      BY DEF PerSignal
    <3>3. PerSignal({"sig_in_bit", "hw_dir_sig", "sig_dir", "sig_out"}) =
            PerSignal({"sig_out", "sig_dir"}) \cup PerSignal({"hw_dir_sig", "sig_in_bit"})
      <4>1. {"sig_in_bit", "hw_dir_sig", "sig_dir", "sig_out"} =
              {"sig_out", "sig_dir"} \cup {"hw_dir_sig", "sig_in_bit"}
        OBVIOUS
      <4>2. QED
        BY <3>2, <4>1
    <3>4. Declared = PerSignal(WireKinds) \cup PerSignal({"hw_dir_sig", "sig_in_bit"})
      BY <1>1, <3>2, DeclaredWires
    <3>5. Targets = D \cup W
      BY DEF Targets
    <3>6. QED
      BY <2>1, <3>1, <3>3, <3>4, <3>5
  <2>3. Cardinality(Targets) = Len(drivers) + Cardinality(slave)
    <3>1. IsFiniteSet(D) /\ Cardinality(D) = Len(drivers)
      BY <1>1, Generated, TargetsCounted
    <3>2. IsFiniteSet(W) /\ Cardinality(W) = Cardinality(slave)
      BY <1>1, SlaveCounted
    <3>3. D \cap W = {}
      <4>1. \A w \in D : w.kind \notin WireKinds
        <5>1. \A w \in D : w.kind \in {"sig_in_bit", "hw_dir_sig", "sig_dir", "sig_out", "incoming"}
          BY <2>1, WireFields DEF PerSignal, PerSource
        <5>2. QED
          BY <5>1 DEF WireKinds, OneBit
      <4>2. \A w \in W : w.kind \in WireKinds
        BY <2>1, WireFields DEF PerSignal
      <4>3. QED
        BY <4>1, <4>2
    <3>4. Targets = D \cup W
      BY DEF Targets
    <3> HIDE DEF D, W
    <3>5. Cardinality(D \cup W) = Cardinality(D) + Cardinality(W) - Cardinality({})
      BY <3>1, <3>2, <3>3, FS_Union
    <3>6. Cardinality({}) = 0 /\ Cardinality(D) \in Nat /\ Cardinality(W) \in Nat
      BY <3>1, <3>2, FS_EmptySet, FS_CardinalityType
    <3>7. QED
      BY <3>1, <3>2, <3>4, <3>5, <3>6
  <2>4. ASSUME NEW x \in DOMAIN drivers, NEW y \in DOMAIN drivers[x].in
        PROVE  /\ drivers[x].in[y] \in ports.in \cup Declared
               /\ drivers[x].in[y].sig = drivers[x].target.sig
    <3>1. drivers[x] \in Content(drivers)
      BY DEF Content
    <3>2. QED
      BY <1>1, <2>4, <3>1, ReadsOwn
  <2>5. ASSUME NEW s \in slave PROVE [wire |-> s.wire, size |-> s.size] \in signals
    <3>1. slave = MadeSlave /\ signals = MadeSignals
      BY <1>1, Generated
    <3> DEFINE size == Clog2[alternate_signals]
    <3>2. CASE \E m \in Signals : s = SlavePort("srcsel", m, size)
      <4>1. PICK m \in Signals : s = SlavePort("srcsel", m, size)
        BY <3>2
      <4>2. s.wire = Wire("srcsel", m, 0) /\ s.size = size
        BY <4>1 DEF SlavePort
      <4>3. Wire("srcsel", m, 0) \in PerSignal({"srcsel"})
        BY DEF PerSignal
      <4>4. QED
        BY <3>1, <4>2, <4>3 DEF MadeSignals, Sized
    <3>3. CASE \E kind \in OneBit, m \in Signals : s = SlavePort(kind, m, 1)
      <4>1. PICK kind \in OneBit, m \in Signals : s = SlavePort(kind, m, 1)
        BY <3>3
      <4>2. s.wire = Wire(kind, m, 0) /\ s.size = 1
        BY <4>1 DEF SlavePort
      <4>3. Wire(kind, m, 0) \in PerSignal(OneBit \cup {"hw_dir_sig", "sig_in_bit"})
        BY DEF PerSignal
      <4>4. QED
        BY <3>1, <4>2, <4>3 DEF MadeSignals, Sized
    <3>4. QED
      BY <3>1, <3>2, <3>3 DEF MadeSlave
  <2>6. QED
    BY <2>2, <2>3, <2>4, <2>5
<1>2. GenInv => NetlistClosed
  BY <1>1 DEF NetlistClosed
<1>3. QED
  BY <1>2, GenInvariant, PTL

-----------------------------------------------------------------------------
(***************************************************************************)
(* What it computes                                                        *)
(***************************************************************************)
\* The driver of a wire is the one that was made for it.
LEMMA DriverFound ==
  ASSUME GenInv, pc = "done", NEW d \in Content(drivers)
  PROVE  DriverOf(d.target) = d
<1> DEFINE x == CHOOSE x \in DOMAIN drivers : drivers[x].target = d.target
<1>1. PICK y \in DOMAIN drivers : drivers[y] = d
  BY DEF Content
<1>2. x \in DOMAIN drivers /\ drivers[x].target = d.target
  BY <1>1
<1>3. Distinct(drivers)
  BY Generated
<1>4. DriverOf(d.target) = drivers[x]
  BY DEF DriverOf
<1> HIDE DEF x
<1>5. x = y
  BY <1>1, <1>2, <1>3 DEF Distinct
<1>6. QED
  BY <1>1, <1>4, <1>5

Value(u, in) == IF u \in DOMAIN in THEN in[u] ELSE Inner(DriverOf(u), in)

LEMMA LevelIs ==
  ASSUME GenInv, pc = "done", NEW d \in Content(drivers), NEW in
  PROVE  Level(d.target, in) = Operation(d, [y \in DOMAIN d.in |-> Value(d.in[y], in)])
<1>1. DriverOf(d.target) = d
  BY DriverFound
<1>2. QED
  BY <1>1 DEF Level, Value

\* The inputs whose levels are given.
LEMMA GivenLevels ==
  ASSUME GenInv, pc = "done", NEW m \in Signals, NEW in \in LevelsOf(m)
  PROVE  /\ \A kind \in WireKinds \cup {"sig_in"} : Wire(kind, m, 0) \in DOMAIN in
         /\ \A a \in Sources :
              Wire("ctl", m, a) \in DOMAIN in /\ Wire("outgoing", m, a) \in DOMAIN in
         /\ Wire("hw_dir_sig", m, 0) \notin DOMAIN in
         /\ Wire("sig_in_bit", m, 0) \notin DOMAIN in
         /\ in[Wire("srcsel", m, 0)] \in Sources
         /\ in[Wire("diren", m, 0)] \in {0, 1}
<1>1. DOMAIN in = InputsOf(m) /\ \A w \in InputsOf(m) : in[w] \in 0..alternate_signals
  BY DEF LevelsOf
<1>2. InputsOf(m) = {w \in ports.in \cup PerSignal(WireKinds) : w.sig = m}
  BY DrivenWires DEF InputsOf
<1>3. ports.in = PerSignal({"sig_in"}) \cup PerSource("ctl") \cup PerSource("outgoing")
  BY Generated DEF MadePorts
<1>4. \A kind \in WireKinds \cup {"sig_in"} : Wire(kind, m, 0) \in InputsOf(m)
  <2>1. \A kind \in WireKinds : Wire(kind, m, 0) \in PerSignal(WireKinds)
    BY DEF PerSignal
  <2>2. Wire("sig_in", m, 0) \in PerSignal({"sig_in"})
    BY DEF PerSignal
  <2>3. QED
    BY <1>2, <1>3, <2>1, <2>2, WireFields
<1>5. \A a \in Sources : Wire("ctl", m, a) \in InputsOf(m) /\ Wire("outgoing", m, a) \in InputsOf(m)
  <2>1. \A a \in Sources : Wire("ctl", m, a) \in PerSource("ctl")
                           /\ Wire("outgoing", m, a) \in PerSource("outgoing")
    BY DEF PerSource
  <2>2. QED
    BY <1>2, <1>3, <2>1, WireFields
<1>6. \A w \in InputsOf(m) : w.kind \in WireKinds \cup {"sig_in", "ctl", "outgoing"}
  <2>1. \A w \in PerSignal(WireKinds) : w.kind \in WireKinds
    BY WireFields DEF PerSignal
  <2>2. \A w \in PerSignal({"sig_in"}) : w.kind = "sig_in"
    BY WireFields DEF PerSignal
  <2>3. \A kind : \A w \in PerSource(kind) : w.kind = kind
    BY WireFields DEF PerSource
  <2>4. QED
    BY <1>2, <1>3, <2>1, <2>2, <2>3
<1>7. /\ Wire("hw_dir_sig", m, 0) \notin InputsOf(m)
      /\ Wire("sig_in_bit", m, 0) \notin InputsOf(m)
  <2>1. "hw_dir_sig" \notin WireKinds /\ "sig_in_bit" \notin WireKinds
    BY DEF WireKinds, OneBit
  <2>2. QED
    BY <1>6, <2>1, WireFields
<1>8. "srcsel" \in WireKinds /\ "diren" \in WireKinds
  BY DEF WireKinds, OneBit
<1>9. in[Wire("diren", m, 0)] \in {0, 1}
  <2>1. \A w \in InputsOf(m) : w.kind # "srcsel" => in[w] \in {0, 1}
    BY DEF LevelsOf
  <2>2. QED
    BY <1>4, <1>8, <2>1, WireFields
<1>10. QED
  BY <1>1, <1>4, <1>5, <1>7, <1>8, <1>9 DEF Sources

\* The inputs of a multiplexer over all sources.
LEMMA LaneAt ==
  ASSUME GenInv, pc = "done", NEW m, NEW kind
  PROVE  LET ins == Select(m) \o Lane(kind, m)
         IN /\ DOMAIN ins = 1..(alternate_signals + 2)
            /\ ins[1] = Wire("srcsel", m, 0)
            /\ \A a \in Sources : ins[a + 2] = Wire(kind, m, a) /\ a + 2 \in DOMAIN ins
<1> DEFINE n == alternate_signals + 1
           lane == Lane(kind, m)
           ins == Select(m) \o lane
<1>1. alternate_signals \in Nat
  BY Generated
<1>2. lane = [x \in 1..n |-> lane[x]] /\ \A x \in 1..n : lane[x] = Wire(kind, m, x - 1)
  BY <1>1 DEF Lane
<1>3. \A a \in Sources : a + 1 \in 1..n /\ (a + 1) - 1 = a /\ a \in Nat
  BY <1>1 DEF Sources
<1>4. \A a \in Sources : lane[a + 1] = Wire(kind, m, a)
  BY <1>2, <1>3
<1>5. Select(m) = <<Wire("srcsel", m, 0)>>
  BY DEF Select
<1> HIDE DEF lane
<1>6. n \in Nat /\ lane \in Seq({lane[x] : x \in 1..n}) /\ Len(lane) = n
  BY <1>1, <1>2
<1>7. /\ DOMAIN ins = 1..(1 + n) /\ ins[1] = Wire("srcsel", m, 0)
      /\ \A x \in 1..n : ins[x + 1] = lane[x]
  <2> DEFINE w == Wire("srcsel", m, 0)
             S == {w} \cup {lane[x] : x \in 1..n}
  <2> HIDE DEF w
  <2>1. <<w>> \in Seq(S) /\ lane \in Seq(S) /\ Len(<<w>>) = 1 /\ <<w>>[1] = w
    BY <1>2, <1>6
  <2> HIDE DEF S, n
  <2> DEFINE c == <<w>> \o lane
  <2>2. /\ DOMAIN c = 1..(1 + n) /\ c[1] = w /\ \A x \in 1..n : c[x + 1] = lane[x]
    BY <1>6, <2>1
  <2>3. ins = c
    BY <1>5 DEF w
  <2>4. QED
    BY <2>2, <2>3 DEF w
<1>8. \A a \in Sources : ins[a + 2] = Wire(kind, m, a) /\ a + 2 \in DOMAIN ins
  <2> HIDE DEF ins
  <2> TAKE a \in Sources
  <2>1. a + 1 \in 1..n /\ (a + 1) + 1 = a + 2
    BY <1>3
  <2>2. ins[(a + 1) + 1] = lane[a + 1]
    BY <1>7, <2>1
  <2>3. a + 2 \in DOMAIN ins
    BY <1>1, <1>7, <2>1
  <2>4. QED
    BY <1>4, <2>1, <2>2, <2>3
<1>9. QED
  BY <1>1, <1>7, <1>8 DEF lane

\* The multiplexer over all sources gives what its source gives.
LEMMA MuxGives ==
  ASSUME GenInv, pc = "done", NEW m, NEW kind, NEW s \in Sources, NEW d, NEW v,
         d.op = "mux", d.in = Select(m) \o Lane(kind, m),
         DOMAIN v = DOMAIN d.in, v[1] = s
  PROVE  Operation(d, v) = v[s + 2]
<1>1. s + 2 \in DOMAIN v
  BY LaneAt
<1>2. QED
  BY <1>1 DEF Operation

LEMMA OutIs ==
  ASSUME GenInv, pc = "done", NEW m \in Signals, NEW in \in LevelsOf(m)
  PROVE  Level(Wire("sig_out", m, 0), in) =
           in[Wire("outgoing", m, in[Wire("srcsel", m, 0)])]
<1> DEFINE d == OutMux(m)
           s == in[Wire("srcsel", m, 0)]
           v == [y \in DOMAIN d.in |-> Value(d.in[y], in)]
<1>1. d \in Content(drivers) /\ d.target = Wire("sig_out", m, 0) /\ s \in Sources
  BY Members, TargetsAre, GivenLevels DEF LogicOf, Muxes
<1>2. d.op = "mux" /\ d.in = Select(m) \o Lane("outgoing", m)
  BY DEF OutMux, Driver
<1>3. /\ 1 \in DOMAIN d.in /\ d.in[1] = Wire("srcsel", m, 0)
      /\ s + 2 \in DOMAIN d.in /\ d.in[s + 2] = Wire("outgoing", m, s)
  <2>1. alternate_signals \in Nat
    BY Generated
  <2>2. QED
    BY <1>1, <1>2, <2>1, LaneAt
<1>4. /\ Wire("srcsel", m, 0) \in DOMAIN in /\ Wire("outgoing", m, s) \in DOMAIN in
  BY <1>1, GivenLevels DEF WireKinds
<1>5. v[1] = s /\ v[s + 2] = in[Wire("outgoing", m, s)]
  BY <1>3, <1>4 DEF Value
<1>6. Operation(d, v) = v[s + 2]
  <2>1. DOMAIN v = DOMAIN d.in
    OBVIOUS
  <2> HIDE DEF v, d, s
  <2>2. QED
    BY <1>1, <1>2, <1>5, <2>1, MuxGives
<1>7. Level(d.target, in) = Operation(d, v)
  BY <1>1, LevelIs
<1>8. QED
  BY <1>1, <1>5, <1>6, <1>7

\* The direction of the selected source, before DIREN.
LEMMA HwDirIs ==
  ASSUME GenInv, pc = "done", NEW m \in Signals, NEW in \in LevelsOf(m)
  PROVE  Value(Wire("hw_dir_sig", m, 0), in) =
           in[Wire("ctl", m, in[Wire("srcsel", m, 0)])]
<1> DEFINE d == HwDirMux(m)
           s == in[Wire("srcsel", m, 0)]
           v == [y \in DOMAIN d.in |-> in[d.in[y]]]
<1>1. d \in Content(drivers) /\ d.target = Wire("hw_dir_sig", m, 0) /\ s \in Sources
  BY Members, TargetsAre, GivenLevels DEF LogicOf, Muxes
<1>2. d.op = "mux" /\ d.in = Select(m) \o Lane("ctl", m)
  BY DEF HwDirMux, Driver
<1>3. /\ 1 \in DOMAIN d.in /\ d.in[1] = Wire("srcsel", m, 0)
      /\ s + 2 \in DOMAIN d.in /\ d.in[s + 2] = Wire("ctl", m, s)
  <2>1. alternate_signals \in Nat
    BY Generated
  <2>2. QED
    BY <1>1, <1>2, <2>1, LaneAt
<1>4. v[1] = s /\ v[s + 2] = in[Wire("ctl", m, s)]
  BY <1>3
<1>5. Operation(d, v) = v[s + 2]
  <2>1. DOMAIN v = DOMAIN d.in
    OBVIOUS
  <2> HIDE DEF v, d, s
  <2>2. QED
    BY <1>1, <1>2, <1>4, <2>1, MuxGives
<1>6. DriverOf(Wire("hw_dir_sig", m, 0)) = d
  BY <1>1, DriverFound
<1>7. Wire("hw_dir_sig", m, 0) \notin DOMAIN in
  BY GivenLevels
<1>8. Value(Wire("hw_dir_sig", m, 0), in) = Inner(d, in)
  BY <1>6, <1>7 DEF Value
<1>9. QED
  BY <1>4, <1>5, <1>8 DEF Inner

LEMMA DirIs ==
  ASSUME GenInv, pc = "done", NEW m \in Signals, NEW in \in LevelsOf(m)
  PROVE  Level(Wire("sig_dir", m, 0), in) =
           IF in[Wire("diren", m, 0)] = 1 THEN in[Wire("dirctl", m, 0)]
           ELSE in[Wire("ctl", m, in[Wire("srcsel", m, 0)])]
<1> DEFINE d == DirMux(m)
           v == [y \in DOMAIN d.in |-> Value(d.in[y], in)]
<1>1. d \in Content(drivers) /\ d.target = Wire("sig_dir", m, 0)
  BY Members, TargetsAre DEF LogicOf, Muxes
<1>2. /\ d.op = "mux"
      /\ d.in = <<Wire("diren", m, 0), Wire("hw_dir_sig", m, 0), Wire("dirctl", m, 0)>>
  BY DEF DirMux, Driver
<1>3. /\ DOMAIN d.in = {1, 2, 3} /\ d.in[1] = Wire("diren", m, 0)
      /\ d.in[2] = Wire("hw_dir_sig", m, 0) /\ d.in[3] = Wire("dirctl", m, 0)
  BY <1>2
<1>4. /\ Wire("diren", m, 0) \in DOMAIN in /\ Wire("dirctl", m, 0) \in DOMAIN in
      /\ in[Wire("diren", m, 0)] \in {0, 1}
  BY GivenLevels DEF WireKinds, OneBit
<1>5. /\ DOMAIN v = {1, 2, 3} /\ v[1] = in[Wire("diren", m, 0)]
      /\ v[2] = in[Wire("ctl", m, in[Wire("srcsel", m, 0)])]
      /\ v[3] = in[Wire("dirctl", m, 0)]
  <2>1. v[1] = Value(Wire("diren", m, 0), in) /\ v[3] = Value(Wire("dirctl", m, 0), in)
        /\ v[2] = Value(Wire("hw_dir_sig", m, 0), in) /\ DOMAIN v = {1, 2, 3}
    BY <1>3
  <2>2. QED
    BY <1>4, <2>1, HwDirIs DEF Value
<1>6. Level(d.target, in) = Operation(d, v)
  BY <1>1, LevelIs
<1>7. Operation(d, v) = v[v[1] + 2]
  <2> HIDE DEF v, d
  <2>1. v[1] + 2 \in DOMAIN v
    BY <1>4, <1>5
  <2>2. QED
    BY <1>2, <2>1 DEF Operation
<1> HIDE DEF v, d
<1>8. v[v[1] + 2] = IF v[1] = 1 THEN v[3] ELSE v[2]
  BY <1>4, <1>5
<1>9. QED
  BY <1>1, <1>5, <1>6, <1>7, <1>8

LEMMA IncomingIs ==
  ASSUME GenInv, pc = "done", NEW m \in Signals, NEW in \in LevelsOf(m), NEW a \in Sources
  PROVE  Level(Wire("incoming", m, a), in) =
           IF a = in[Wire("srcsel", m, 0)] \/ in[Wire("shortsel", m, 0)] = 1
           THEN in[Wire("sig_in", m, 0)] ELSE 0
<1> DEFINE d == IncomingDriver(m, a)
           v == [y \in DOMAIN d.in |-> Value(d.in[y], in)]
<1>1. d \in Content(drivers) /\ d.target = Wire("incoming", m, a)
  BY Members, TargetsAre DEF LogicOf, Incoming
<1>2. /\ d.op = "hears" /\ d.index = a
      /\ d.in = <<Wire("srcsel", m, 0), Wire("shortsel", m, 0), Wire("sig_in_bit", m, 0)>>
  BY DEF IncomingDriver, Driver
<1>3. /\ DOMAIN d.in = {1, 2, 3} /\ d.in[1] = Wire("srcsel", m, 0)
      /\ d.in[2] = Wire("shortsel", m, 0) /\ d.in[3] = Wire("sig_in_bit", m, 0)
  BY <1>2
<1>4. Wire("srcsel", m, 0) \in DOMAIN in /\ Wire("shortsel", m, 0) \in DOMAIN in
  BY GivenLevels DEF WireKinds, OneBit
<1>5. Value(Wire("sig_in_bit", m, 0), in) = in[Wire("sig_in", m, 0)]
  <2> DEFINE b == BitDriver(m)
             u == [y \in DOMAIN b.in |-> in[b.in[y]]]
  <2>1. DriverOf(Wire("sig_in_bit", m, 0)) = b
    BY Members, TargetsAre, DriverFound
  <2>2. b.op = "copy" /\ b.in = <<Wire("sig_in", m, 0)>>
    BY DEF BitDriver, Driver
  <2>3. u[1] = in[Wire("sig_in", m, 0)]
    BY <2>2
  <2>4. Operation(b, u) = u[1]
    BY <2>2 DEF Operation
  <2>5. Value(Wire("sig_in_bit", m, 0), in) = Inner(b, in)
    BY <2>1, GivenLevels DEF Value
  <2>6. QED
    BY <2>3, <2>4, <2>5 DEF Inner
<1>6. /\ v[1] = in[Wire("srcsel", m, 0)] /\ v[2] = in[Wire("shortsel", m, 0)]
      /\ v[3] = in[Wire("sig_in", m, 0)]
  <2>1. v[1] = Value(Wire("srcsel", m, 0), in) /\ v[2] = Value(Wire("shortsel", m, 0), in)
        /\ v[3] = Value(Wire("sig_in_bit", m, 0), in)
    BY <1>3
  <2>2. QED
    BY <1>4, <1>5, <2>1 DEF Value
<1>7. Level(d.target, in) = Operation(d, v)
  BY <1>1, LevelIs
<1> HIDE DEF v, d
<1>8. Operation(d, v) = IF v[1] = a \/ v[2] = 1 THEN v[3] ELSE 0
  BY <1>2 DEF Operation
<1>9. QED
  BY <1>1, <1>6, <1>7, <1>8

\* For any legal arguments, and not only for those whose netlists are small
\* enough to try, what is generated is the datapath.
THEOREM NetlistIsDatapath == GenSpec => [](pc = "done" => IsDatapath)
<1>1. GenInv => (pc = "done" => IsDatapath)
  BY OutIs, DirIs, IncomingIs DEF IsDatapath
<1>2. QED
  BY <1>1, GenInvariant, PTL

THEOREM SmallOnesCompute == GenSpec => []ComputesDatapath
<1>1. (pc = "done" => IsDatapath) => ComputesDatapath
  BY DEF ComputesDatapath
<1>2. QED
  BY <1>1, NetlistIsDatapath, PTL
=============================================================================
