------------------------ MODULE AximuxProduction_proofs ------------------------
(***************************************************************************)
(* Without shells and with states that configure only what they claim, the *)
(* claims of the pinctrl core do the work of the lock that the driver does *)
(* not have: the two steps of every read-modify-write act as one, and what *)
(* a settled consumer asked for stays programmed.  From there to restarts  *)
(* and losses of the registers, to what readers are told, and to the pads. *)
(***************************************************************************)
EXTENDS AximuxReadout, AximuxRouting, AximuxPinctrl_proofs


LEMMA OnlyConsumers == Threads = Consumers
BY ConsumerAssumption, ProductionAssumption

\* Every open call, of either callback, works on pins its consumer claims.
LEMMA CallClaimed ==
  ASSUME PinctrlInv, NEW c \in Consumers, call[c].at # "idle"
  PROVE  Range(call[c].pins) \subseteq Owned(c)
<1>1. CASE call[c].op = "set_mux"
  BY <1>1, SetMuxClaimed
<1>2. CASE call[c].op # "set_mux"
  <2> DEFINE n == sel[c].new
  <2>1. /\ n \in States /\ Owned(c) = MuxPins(n)
        /\ sel[c].s \in DOMAIN ConfigSettings[n]
        /\ call[c].pins = ConfigSettings[n][sel[c].s].pins
    BY <1>2 DEF PinctrlInv, ConsumerOK, CallMatches, ClaimsMatch, Selection
  <2>2. Range(call[c].pins) \subseteq ConfigPins(n)
    BY <2>1 DEF ConfigPins
  <2>3. QED
    BY <2>1, <2>2, ProductionAssumption
<1>3. QED
  BY <1>1, <1>2

\* Two calls that are at a pin are at different pins.
LEMMA PinsApart ==
  ASSUME PinctrlInv, NEW t \in Threads, NEW u \in Threads, t # u,
         call[t].at = "write", call[u].at = "write"
  PROVE  Pin(t) \in Pins /\ Pin(u) \in Pins /\ Pin(t) # Pin(u)
<1>1. ASSUME NEW c \in Threads, call[c].at = "write"
      PROVE  Pin(c) \in Owned(c)
  <2>1. call[c].i \in DOMAIN call[c].pins
    <3>1. call[c] \in Call /\ call[c].i <= Len(call[c].pins)
      BY <1>1 DEF PinctrlInv, DriverInv, TypeOK
    <3>2. call[c].i \in Nat \ {0} /\ call[c].pins \in Seq(Pins)
      BY <3>1 DEF Call
    <3>3. QED
      BY <3>1, <3>2
  <2>2. Pin(c) \in Range(call[c].pins)
    BY <2>1 DEF Pin, Range
  <2>3. QED
    BY <1>1, <2>2, CallClaimed, OnlyConsumers
<1>2. QED
  BY <1>1 DEF Owned

\* The two write-backs.
LEMMA WriteIsDriverStep ==
  ASSUME PinctrlInv, NEW t \in Threads, DriverStep(t), regs' # regs
  PROVE  /\ call[t].at = "write" /\ Pin(t) \in Pins
         /\ \/ MuxWrite(t) /\ call[t].op = "set_mux"
            \/ ConfigWrite(t) /\ call[t].op = "pinconf_set"
<1>1. MuxWrite(t) \/ ConfigWrite(t)
  BY DEF DriverStep, MuxReject, MuxRead, ConfigReject, ConfigRead, CallDone,
         ReturnWith, ReadReg
<1>2. call[t].i \in DOMAIN call[t].pins /\ call[t].pins \in Seq(Pins)
  BY <1>1 DEF MuxWrite, ConfigWrite, AtWrite, PinctrlInv, DriverInv, TypeOK, Call
<1>3. QED
  BY <1>1, <1>2 DEF MuxWrite, ConfigWrite, AtWrite, Pin

\* Only a step inside the driver changes a register.
LEMMA OnlyDriverWrites ==
  ASSUME PinctrlInv, [PinctrlNext]_pinctrlVars, regs' # regs
  PROVE  \E t \in Threads : InDriver(t)
BY DEF PinctrlNext, pinctrlVars, driverVars, Begin, SelectStep, FreePin, Released,
       RequestPin, RequestBusy, CallSetMux, SetMux, SettingReturned, Return,
       AllMuxed, CallPinconfSet, PinconfSet, Committed, Undone, PinmuxSelect,
       ShellReturned

\* The value read is still there when thread t writes back.
Fresh(t) == call[t].at = "write" => val[t] = regs[Pin(t)]

\* A call at its write-back is disturbed by nobody: the others write elsewhere.
LEMMA DriverStepFresh ==
  ASSUME PinctrlInv, NEW u \in Threads, Fresh(u), NEW t \in Threads, DriverStep(t)
  PROVE  Fresh(u)'
<1> SUFFICES ASSUME call'[u].at = "write"
             PROVE  val'[u] = regs'[Pin(u)']
  BY DEF Fresh
<1>1. CASE u = t
  <2>1. MuxRead(t) \/ ConfigRead(t)
    BY <1>1 DEF DriverStep, MuxReject, MuxWrite, ConfigReject, ConfigWrite, CallDone,
                ReturnWith, PinctrlInv, DriverInv, TypeOK, Call
  <2>2. /\ call' = [call EXCEPT ![t].at = "write"] /\ regs' = regs
        /\ val' = [val EXCEPT ![t] = regs[Pin(t)]]
    BY <2>1 DEF MuxRead, ConfigRead, ReadReg
  <2>3. Pin(t)' = Pin(t)
    BY <2>2 DEF PinctrlInv, DriverInv, TypeOK, Call, Pin
  <2>4. QED
    BY <1>1, <2>2, <2>3 DEF PinctrlInv, DriverInv, TypeOK
<1>2. CASE u # t
  <2>1. call'[u] = call[u] /\ Pin(u)' = Pin(u) /\ call[u].at = "write"
    BY <1>2, DriverStepFrame DEF PinctrlInv, Pin
  <2>2. val'[u] = val[u]
    BY <1>2 DEF DriverStep, MuxReject, MuxRead, MuxWrite, ConfigReject, ConfigRead,
                ConfigWrite, CallDone, ReturnWith, ReadReg,
                PinctrlInv, DriverInv, TypeOK
  <2>3. regs'[Pin(u)] = regs[Pin(u)]
    <3>1. CASE regs' = regs
      BY <3>1
    <3>2. CASE regs' # regs
      <4>1. call[t].at = "write" /\ (MuxWrite(t) \/ ConfigWrite(t))
        BY <3>2, WriteIsDriverStep
      <4>2. Pin(t) # Pin(u) /\ Pin(u) \in Pins
        BY <1>2, <2>1, <4>1, PinsApart
      <4>3. QED
        BY <4>1, <4>2 DEF MuxWrite, ConfigWrite, PinctrlInv, DriverInv, TypeOK
    <3>3. QED
      BY <3>1, <3>2
  <2>4. QED
    BY <2>1, <2>2, <2>3 DEF Fresh
<1>3. QED
  BY <1>1, <1>2

\* The steps outside the driver leave no call at its write-back but those
\* that were there.
LEMMA OutsideFresh ==
  ASSUME PinctrlInv, NEW u \in Threads, Fresh(u), [PinctrlNext]_pinctrlVars,
         ~ \E t \in Threads : InDriver(t)
  PROVE  Fresh(u)'
<1>1. /\ regs' = regs /\ val' = val
      /\ call'[u] = call[u] \/ call'[u].at # "write"
  <2>1. CASE UNCHANGED pinctrlVars
    BY <2>1 DEF pinctrlVars
  <2>2. ASSUME NEW c \in Consumers, NEW n \in StatesOf[c] \cup {None}, Begin(c, n)
        PROVE  UNCHANGED driverVars
    BY <2>2 DEF Begin
  <2>3. ASSUME NEW c \in Consumers, SelectStep(c)
        PROVE  \/ UNCHANGED driverVars
               \/ /\ regs' = regs /\ val' = val
                  /\ call'[u] = call[u] \/ call'[u].at # "write"
    <3>1. CASE CallSetMux(c)
      BY <3>1 DEF CallSetMux, SetMux, NoCall, PinctrlInv, DriverInv, TypeOK
    <3>2. CASE CallPinconfSet(c)
      BY <3>2 DEF CallPinconfSet, PinconfSet, NoCall, PinctrlInv, DriverInv, TypeOK
    <3>3. CASE SettingReturned(c)
      BY <3>3 DEF SettingReturned, Return, NoCall, PinctrlInv, DriverInv, TypeOK
    <3>4. QED
      BY <2>3, <3>1, <3>2, <3>3 DEF SelectStep, FreePin, Released, RequestPin,
         RequestBusy, AllMuxed, Committed, Undone
  <2>4. QED
    BY <2>1, <2>2, <2>3, ProductionAssumption DEF PinctrlNext, driverVars
<1>2. QED
  BY <1>1 DEF Fresh, Pin

LEMMA FreshStep ==
  ASSUME PinctrlInv, NEW u \in Threads, Fresh(u), [PinctrlNext]_pinctrlVars
  PROVE  Fresh(u)'
<1>1. CASE \E t \in Threads : InDriver(t)
  BY <1>1, DriverStepFresh DEF InDriver
<1>2. CASE ~ \E t \in Threads : InDriver(t)
  BY <1>2, OutsideFresh
<1>3. QED
  BY <1>1, <1>2

LEMMA FreshForAll == ReadFresh <=> \A t \in Threads : Fresh(t)
BY DEF ReadFresh, Fresh

ProductionInv == PinctrlInv /\ ReadFresh

LEMMA ProductionInvariant == PinctrlSpec => []ProductionInv
<1>1. Init => ReadFresh
  BY DEF Init, DriverInit, NoCall, ReadFresh
<1>2. ASSUME PinctrlInv, ReadFresh, [PinctrlNext]_pinctrlVars
      PROVE  ReadFresh'
  <2>1. \A t \in Threads : Fresh(t)'
    BY <1>2, FreshForAll, FreshStep
  <2>2. QED
    BY <2>1 DEF ReadFresh, Fresh
<1>3. ProductionInv <=> PinctrlInv /\ ReadFresh
  BY DEF ProductionInv
<1>4. QED
  BY <1>1, <1>2, <1>3, PinctrlInvariant, PTL DEF PinctrlSpec

\* No update is lost: when a read-modify-write of aximux_set_src or
\* aximux_pinconf_set writes back, the register holds what it read.
THEOREM WritesFresh == PinctrlSpec => []ReadFresh
<1>1. ProductionInv => ReadFresh
  BY DEF ProductionInv
<1>2. QED
  BY <1>1, ProductionInvariant, PTL

-----------------------------------------------------------------------------
\* What the write-backs do to the registers, given a fresh value.
LEMMA MuxWriteEffect ==
  ASSUME PinctrlInv, NEW t \in Threads, Fresh(t), MuxWrite(t)
  PROVE  /\ Pin(t) \in Pins /\ MuxVal(t) \in 0..NAlts
         /\ regs' = [regs EXCEPT ![Pin(t)].src = MuxVal(t)]
<1>1. /\ regs \in [Pins -> Word] /\ call[t] \in Call
      /\ call[t].op = "set_mux" /\ call[t].at = "write"
      /\ call[t].i \in DOMAIN call[t].pins /\ call[t].i \in DOMAIN call[t].vals
  BY DEF MuxWrite, AtWrite, PinctrlInv, DriverInv, TypeOK, Call
<1>2. Pin(t) \in Pins /\ val[t] = regs[Pin(t)]
  BY <1>1 DEF Fresh, Pin, Call
<1>3. MuxVal(t) \in 0..NAlts
  <2>1. MuxVal(t) \in Nat
    BY <1>1 DEF MuxVal, Call
  <2>2. MuxVal(t) <= NAlts
    BY <1>1 DEF PinctrlInv, DriverInv, WriteChecked, MuxLegal
  <2>3. QED
    BY <2>1, <2>2, TableAssumption
<1>4. MuxVal(t) % 16 = MuxVal(t)
  BY <1>3, TableAssumption DEF AXIMUX_MAX_ALTS
<1>5. regs' = [regs EXCEPT ![Pin(t)] = SetSrc(regs[Pin(t)], MuxVal(t))]
  BY <1>2 DEF MuxWrite
<1>6. regs' = [regs EXCEPT ![Pin(t)].src = MuxVal(t)]
  BY <1>1, <1>2, <1>4, <1>5 DEF SetSrc
<1>7. QED
  BY <1>2, <1>3, <1>6

LEMMA ConfigWriteEffect ==
  ASSUME PinctrlInv, NEW t \in Threads, Fresh(t), ConfigWrite(t)
  PROVE  /\ Pin(t) \in Pins
         /\ Cfg(t).param \in ControlBits /\ Cfg(t).arg \in BOOLEAN
         /\ regs' = [regs EXCEPT ![Pin(t)].ctl =
                       IF Cfg(t).arg THEN @ \cup {Cfg(t).param}
                                     ELSE @ \ {Cfg(t).param}]
<1>1. /\ regs \in [Pins -> Word] /\ call[t] \in Call
      /\ call[t].op = "pinconf_set" /\ call[t].at = "write"
      /\ call[t].i \in DOMAIN call[t].pins /\ call[t].j \in DOMAIN call[t].cfgs
  BY DEF ConfigWrite, AtWrite, PinctrlInv, DriverInv, TypeOK, Call
<1>2. Pin(t) \in Pins /\ val[t] = regs[Pin(t)]
  BY <1>1 DEF Fresh, Pin, Call
<1>3. Cfg(t) \in Config /\ Cfg(t).param \in ControlBits
  BY <1>1 DEF Cfg, Call, PinctrlInv, DriverInv, WriteChecked
<1>4. regs' = [regs EXCEPT ![Pin(t)] = SetControl(regs[Pin(t)], Cfg(t))]
  BY <1>2 DEF ConfigWrite
<1>5. QED
  BY <1>1, <1>2, <1>3, <1>4 DEF SetControl, Config

LEMMA WriteEffect ==
  ASSUME PinctrlInv, NEW t \in Threads, Fresh(t), DriverStep(t), regs' # regs
  PROVE  \/ /\ call[t].op = "set_mux" /\ MuxVal(t) \in 0..NAlts
            /\ regs' = [regs EXCEPT ![Pin(t)].src = MuxVal(t)]
         \/ /\ call[t].op = "pinconf_set"
            /\ Cfg(t).param \in ControlBits /\ Cfg(t).arg \in BOOLEAN
            /\ regs' = [regs EXCEPT ![Pin(t)].ctl =
                          IF Cfg(t).arg THEN @ \cup {Cfg(t).param}
                                        ELSE @ \ {Cfg(t).param}]
BY WriteIsDriverStep, MuxWriteEffect, ConfigWriteEffect

\* The header comment of the driver: pinmux leaves every control bit alone,
\* and pinconf every source.
THEOREM FieldsKept == PinctrlSpec => OwnFieldOnly
<1> DEFINE Kept(t) ==
      \A p \in Pins :
        IF call[t].op = "set_mux" THEN regs'[p].ctl = regs[p].ctl
                                  ELSE regs'[p].src = regs[p].src
<1>1. ASSUME ProductionInv, [PinctrlNext]_pinctrlVars, NEW t \in Threads,
             call[t].at = "write", call'[t].at = "loop"
      PROVE  Kept(t)
  <2>1. CASE regs' = regs
    BY <2>1
  <2>2. CASE regs' # regs
    <3>1. PICK u \in Threads : InDriver(u)
      BY <1>1, <2>2, OnlyDriverWrites DEF ProductionInv
    <3>2. u = t
      BY <1>1, <3>1, DriverStepFrame DEF InDriver, ProductionInv, PinctrlInv
    <3>3. DriverStep(t)
      BY <3>1, <3>2 DEF InDriver
    <3>4. regs \in [Pins -> Word]
      BY <1>1 DEF ProductionInv, PinctrlInv, DriverInv, TypeOK
    <3>5. Fresh(t) /\ PinctrlInv
      BY <1>1, FreshForAll DEF ProductionInv
    <3>6. QED
      BY <1>1, <2>2, <3>3, <3>4, <3>5, WriteEffect DEF Word
  <2>3. QED
    BY <2>1, <2>2
<1>2. ProductionInv /\ [PinctrlNext]_pinctrlVars =>
        [\A t \in Threads, p \in Pins :
           call[t].at = "write" /\ call'[t].at = "loop" =>
             IF call[t].op = "set_mux" THEN regs'[p].ctl = regs[p].ctl
                                       ELSE regs'[p].src = regs[p].src]_pinctrlVars
  BY <1>1
<1>3. QED
  BY <1>2, ProductionInvariant, PTL DEF PinctrlSpec, OwnFieldOnly

\* The same as a refinement: the unlocked driver under the pinctrl core
\* implements a register block whose fields change atomically.
THEOREM ImplementsAtomic == PinctrlSpec => RegsAtomic
<1>1. Init => Atomic!Init
  BY DEF Init, DriverInit, Atomic!Init, ResetWord, Atomic!ResetWord
<1>2. ASSUME ProductionInv, [PinctrlNext]_pinctrlVars
      PROVE  [Atomic!Next]_regs
  <2>1. CASE regs' = regs
    BY <2>1
  <2>2. CASE regs' # regs
    <3>1. PICK t \in Threads : DriverStep(t)
      BY <1>2, <2>2, OnlyDriverWrites DEF ProductionInv, InDriver
    <3>2. Pin(t) \in Pins
      BY <1>2, <2>2, <3>1, WriteIsDriverStep DEF ProductionInv
    <3>3. CASE /\ MuxVal(t) \in 0..NAlts
               /\ regs' = [regs EXCEPT ![Pin(t)].src = MuxVal(t)]
      BY <3>2, <3>3 DEF Atomic!Next, Atomic!ProgramSrc
    <3>4. CASE /\ Cfg(t).param \in ControlBits /\ Cfg(t).arg \in BOOLEAN
               /\ regs' = [regs EXCEPT ![Pin(t)].ctl =
                             IF Cfg(t).arg THEN @ \cup {Cfg(t).param}
                                           ELSE @ \ {Cfg(t).param}]
      <4>1. Atomic!ProgramControl(Pin(t), Cfg(t).param, Cfg(t).arg)
        BY <3>4 DEF Atomic!ProgramControl
      <4>2. QED
        BY <3>2, <3>4, <4>1 DEF Atomic!Next, Atomic!ControlBits, ControlBits
    <3>5. QED
      BY <1>2, <2>2, <3>1, <3>3, <3>4, WriteEffect, FreshForAll DEF ProductionInv
  <2>3. QED
    BY <2>1, <2>2
<1>3. QED
  BY <1>1, <1>2, ProductionInvariant, PTL DEF PinctrlSpec, RegsAtomic, Atomic!Spec

-----------------------------------------------------------------------------
(***************************************************************************)
(* What a consumer has programmed so far.  For its call k, its selection l *)
(* and its state st: the sources, and the control bits, that are written   *)
(* and must still be there.  In the request phase these are the settings   *)
(* before l.s and, in an open call, the pins before k.i; in the config     *)
(* phase all sources, and the settings, pins and configs passed.           *)
(***************************************************************************)
SrcDone(k, l, st, p, v) ==
  \/ l.pc = "idle" /\ st # None /\ Routes(st, p, v)
  \/ /\ l.pc = "request"
     /\ \E s \in DOMAIN MuxSettings[l.new] : s < l.s /\ RoutesIn(l.new, s, p, v)
  \/ /\ l.pc = "request" /\ k.at # "idle"
     /\ \E x \in DOMAIN k.pins : x < k.i /\ k.pins[x] = p /\ k.vals[x] = v
  \/ l.pc = "config" /\ Routes(l.new, p, v)

CtlDone(k, l, st, p, b, v) ==
  \/ l.pc = "idle" /\ st # None /\ Asks(st, p, b, v)
  \/ /\ l.pc = "config"
     /\ \E s \in DOMAIN ConfigSettings[l.new] : s < l.s /\ AsksIn(l.new, s, p, b, v)
  \/ /\ l.pc = "config" /\ k.at # "idle"
     /\ \E x \in DOMAIN k.pins, y \in DOMAIN k.cfgs :
          /\ x < k.i \/ (x = k.i /\ y < k.j)
          /\ k.pins[x] = p /\ k.cfgs[y] = [param |-> b, arg |-> v]

Programmed(c) ==
  /\ \A p, v : SrcDone(call[c], sel[c], state[c], p, v) => regs[p].src = v
  /\ \A p, b, v :
       CtlDone(call[c], sel[c], state[c], p, b, v) => (b \in regs[p].ctl) = v

\* The state that a selection l, or an idle consumer, is about.
StateAt(l, st) == IF l.pc = "idle" THEN st ELSE l.new

\* A state names one source for a pin and one argument for a parameter of it.
LEMMA OneRoute ==
  ASSUME NEW n \in States, NEW p, NEW v, NEW w, Routes(n, p, v), Routes(n, p, w)
  PROVE  v = w
<1>1. PICK s \in DOMAIN MuxSettings[n] : RoutesIn(n, s, p, v)
  BY DEF Routes
<1>2. PICK r \in DOMAIN MuxSettings[n] : RoutesIn(n, r, p, w)
  BY DEF Routes
<1>3. PICK x \in DOMAIN SettingPins(n, s) :
        /\ SettingPins(n, s)[x] = p
        /\ MuxVals[MuxSettings[n][s].fn][MuxSettings[n][s].group][x] = v
  BY <1>1 DEF RoutesIn
<1>4. PICK y \in DOMAIN SettingPins(n, r) :
        /\ SettingPins(n, r)[y] = p
        /\ MuxVals[MuxSettings[n][r].fn][MuxSettings[n][r].group][y] = w
  BY <1>2 DEF RoutesIn
<1>5. s = r /\ x = y
  BY <1>3, <1>4, SettingAssumption
<1>6. QED
  BY <1>3, <1>4, <1>5

LEMMA OneAsk ==
  ASSUME NEW n \in States, NEW p, NEW b, NEW v, NEW w,
         Asks(n, p, b, v), Asks(n, p, b, w)
  PROVE  v = w
<1>1. PICK s \in DOMAIN ConfigSettings[n] : AsksIn(n, s, p, b, v)
  BY DEF Asks
<1>2. PICK r \in DOMAIN ConfigSettings[n] : AsksIn(n, r, p, b, w)
  BY DEF Asks
<1> DEFINE k == ConfigSettings[n][s]
           l == ConfigSettings[n][r]
           c == [param |-> b, arg |-> v]
           d == [param |-> b, arg |-> w]
<1>3. /\ k \in Range(ConfigSettings[n]) /\ l \in Range(ConfigSettings[n])
      /\ c \in Range(k.cfgs) /\ d \in Range(l.cfgs)
      /\ p \in Range(k.pins) \cap Range(l.pins)
  BY <1>1, <1>2 DEF AsksIn, Range
<1>4. c.param = d.param => c.arg = d.arg
  <2> HIDE DEF c, d, k, l
  <2>1. QED
    BY <1>3, ConsistentConfigs
<1>5. QED
  BY <1>4

\* What is done is asked for by the state at hand, on pins that are claimed.
LEMMA SrcDoneAsked ==
  ASSUME PinctrlInv, NEW c \in Consumers, CallFollows(call[c], sel[c]),
         NEW p, NEW v, SrcDone(call[c], sel[c], state[c], p, v)
  PROVE  /\ StateAt(sel[c], state[c]) \in States
         /\ Routes(StateAt(sel[c], state[c]), p, v)
         /\ p \in Owned(c)
<1> DEFINE k == call[c]
           l == sel[c]
           n == l.new
<1>1. /\ l \in Selection /\ state[c] \in States \cup {None}
      /\ l.pc \in {"request", "config"} => n \in States
      /\ ClaimsMatch(l, state[c], Owned(c)) /\ CallMatches(k, l)
  BY DEF PinctrlInv, ConsumerOK, Selection
<1>2. \A m, q, w : Routes(m, q, w) => q \in MuxPins(m)
  BY DEF Routes, RoutesIn, MuxPins, Range
<1>3. CASE l.pc = "idle" /\ state[c] # None /\ Routes(state[c], p, v)
  BY <1>1, <1>2, <1>3 DEF StateAt, ClaimsMatch
<1>4. CASE l.pc = "config" /\ Routes(n, p, v)
  BY <1>1, <1>2, <1>4 DEF StateAt, ClaimsMatch
<1>5. CASE /\ l.pc = "request"
           /\ \E s \in DOMAIN MuxSettings[n] : s < l.s /\ RoutesIn(n, s, p, v)
  <2>1. PICK s \in DOMAIN MuxSettings[n] : s < l.s /\ RoutesIn(n, s, p, v)
    BY <1>5
  <2>2. PICK x \in DOMAIN SettingPins(n, s) : SettingPins(n, s)[x] = p
    BY <2>1 DEF RoutesIn
  <2>3. p \in Pins
    BY <1>1, <1>5, <2>2, SettingTypes
  <2>4. p \in ClaimedSoFar(l)
    BY <2>1, <2>2, <2>3 DEF ClaimedSoFar
  <2>5. QED
    BY <1>1, <1>5, <2>1, <2>4 DEF StateAt, ClaimsMatch, Routes
<1>6. CASE /\ l.pc = "request" /\ k.at # "idle"
           /\ \E x \in DOMAIN k.pins : x < k.i /\ k.pins[x] = p /\ k.vals[x] = v
  <2>1. PICK x \in DOMAIN k.pins : x < k.i /\ k.pins[x] = p /\ k.vals[x] = v
    BY <1>6
  <2>2. l.s \in DOMAIN MuxSettings[n] /\ l.i > Len(SettingPins(n, l.s))
        /\ k.pins \in {SettingPins(n, l.s), <<>>}
    BY <1>1, <1>6 DEF CallMatches
  <2>3. k.pins = SettingPins(n, l.s)
    BY <2>1, <2>2
  <2>4. k.vals = SettingVals(n, l.s)
    <3>1. CASE MuxListed(n, l.s)
      BY <1>6, <3>1 DEF CallFollows, MuxFollows
    <3>2. CASE ~MuxListed(n, l.s)
      BY <1>6, <2>1, <3>2 DEF CallFollows, MuxFollows
    <3>3. QED
      BY <3>1, <3>2
  <2>5. RoutesIn(n, l.s, p, v)
    BY <2>1, <2>3, <2>4 DEF RoutesIn, SettingVals
  <2>6. p \in ClaimedSoFar(l)
    <3>1. SettingPins(n, l.s) \in Seq(Pins)
      BY <1>1, <1>6, <2>2, SettingTypes
    <3>2. x < l.i /\ p \in Pins
      BY <1>1, <2>1, <2>2, <2>3, <3>1 DEF Selection
    <3>3. QED
      BY <2>1, <2>2, <2>3, <3>2 DEF ClaimedSoFar
  <2>7. QED
    BY <1>1, <1>6, <2>2, <2>5, <2>6 DEF StateAt, ClaimsMatch, Routes
<1>7. QED
  BY <1>3, <1>4, <1>5, <1>6 DEF SrcDone

LEMMA CtlDoneAsked ==
  ASSUME PinctrlInv, NEW c \in Consumers, CallFollows(call[c], sel[c]),
         NEW p, NEW b, NEW v, CtlDone(call[c], sel[c], state[c], p, b, v)
  PROVE  /\ StateAt(sel[c], state[c]) \in States
         /\ Asks(StateAt(sel[c], state[c]), p, b, v)
         /\ p \in Owned(c)
<1> DEFINE k == call[c]
           l == sel[c]
           n == l.new
<1>1. /\ l \in Selection /\ state[c] \in States \cup {None}
      /\ l.pc = "config" => n \in States
      /\ ClaimsMatch(l, state[c], Owned(c)) /\ CallMatches(k, l)
  BY DEF PinctrlInv, ConsumerOK, Selection
<1>2. ASSUME NEW m \in States, NEW q, NEW d, NEW w, Asks(m, q, d, w)
      PROVE  q \in MuxPins(m)
  <2>1. q \in ConfigPins(m)
    BY <1>2 DEF Asks, AsksIn, ConfigPins
  <2>2. QED
    BY <2>1, ProductionAssumption
<1>3. CASE l.pc = "idle" /\ state[c] # None /\ Asks(state[c], p, b, v)
  BY <1>1, <1>2, <1>3 DEF StateAt, ClaimsMatch
<1>4. CASE l.pc = "config" /\ Asks(n, p, b, v)
  BY <1>1, <1>2, <1>4 DEF StateAt, ClaimsMatch
<1>5. CASE /\ l.pc = "config" /\ k.at # "idle"
           /\ \E x \in DOMAIN k.pins, y \in DOMAIN k.cfgs :
                /\ x < k.i \/ (x = k.i /\ y < k.j)
                /\ k.pins[x] = p /\ k.cfgs[y] = [param |-> b, arg |-> v]
  <2>1. /\ l.s \in DOMAIN ConfigSettings[n]
        /\ k.pins = ConfigSettings[n][l.s].pins
        /\ k.cfgs = ConfigSettings[n][l.s].cfgs
    BY <1>1, <1>5 DEF CallMatches, CallFollows, ConfigFollows
  <2>2. AsksIn(n, l.s, p, b, v)
    BY <1>5, <2>1 DEF AsksIn, Range
  <2>3. QED
    BY <1>4, <1>5, <2>1, <2>2 DEF Asks
<1>6. QED
  BY <1>3, <1>4, <1>5 DEF CtlDone, Asks

\* What an open call writes is asked for by the state it works for.
LEMMA WriteAsked ==
  ASSUME PinctrlInv, NEW c \in Consumers, CallFollows(call[c], sel[c]),
         call[c].at = "write"
  PROVE  /\ sel[c].pc # "idle" /\ sel[c].new \in States
         /\ call[c].op = "set_mux" =>
              sel[c].pc = "request" /\ Routes(sel[c].new, Pin(c), MuxVal(c))
         /\ call[c].op = "pinconf_set" =>
              sel[c].pc = "config" /\ Asks(sel[c].new, Pin(c), Cfg(c).param, Cfg(c).arg)
<1> DEFINE k == call[c]
           l == sel[c]
           n == l.new
<1>1. /\ k \in Call /\ k.i \in DOMAIN k.pins
      /\ k.op = "pinconf_set" => k.j \in DOMAIN k.cfgs
      /\ CallMatches(k, l) /\ (l.pc \in {"request", "config"} => n \in States)
  BY ConsumersAreThreads
     DEF PinctrlInv, ConsumerOK, DriverInv, TypeOK, Call, Selection
<1>2. CASE k.op = "set_mux"
  <2>1. l.pc = "request" /\ l.s \in DOMAIN MuxSettings[n]
        /\ k.pins = SettingPins(n, l.s) /\ k.vals = SettingVals(n, l.s)
    BY <1>1, <1>2 DEF CallMatches, CallFollows, MuxFollows
  <2>2. RoutesIn(n, l.s, Pin(c), MuxVal(c))
    BY <1>1, <2>1 DEF RoutesIn, Pin, MuxVal, SettingVals
  <2>3. QED
    BY <1>1, <1>2, <2>1, <2>2 DEF Routes
<1>3. CASE k.op = "pinconf_set"
  <2>1. /\ l.pc = "config" /\ l.s \in DOMAIN ConfigSettings[n]
        /\ k.pins = ConfigSettings[n][l.s].pins
        /\ k.cfgs = ConfigSettings[n][l.s].cfgs
    BY <1>1, <1>3 DEF CallMatches, CallFollows, ConfigFollows
  <2>2. Cfg(c) \in Config
    BY <1>1, <1>3 DEF Cfg, Call
  <2>3. Cfg(c) = [param |-> Cfg(c).param, arg |-> Cfg(c).arg]
    BY <2>2 DEF Config
  <2>4. Cfg(c) \in Range(ConfigSettings[n][l.s].cfgs)
        /\ Pin(c) \in Range(ConfigSettings[n][l.s].pins)
    BY <1>1, <1>3, <2>1 DEF Cfg, Pin, Range
  <2>5. AsksIn(n, l.s, Pin(c), Cfg(c).param, Cfg(c).arg)
    BY <2>3, <2>4 DEF AsksIn
  <2>6. QED
    BY <1>1, <1>3, <2>1, <2>5 DEF Asks
<1>4. QED
  BY <1>1, <1>2, <1>3 DEF Call

-----------------------------------------------------------------------------
\* What a step of consumer c does to its selection, where it matters here.
LEMMA SelectStepEffect ==
  ASSUME PinctrlInv, NEW c \in Consumers, SelectStep(c)
  PROVE  \/ sel'[c].pc \in {"release", "undo"}
         \/ sel'[c].pc = "idle" /\ state'[c] = None
         \/ sel'[c].pc = "request" /\ sel'[c].s = 1 /\ call'[c].at = "idle"
         \/ /\ sel[c].pc = "request" /\ sel'[c].pc = "request"
            /\ sel'[c].new = sel[c].new /\ sel'[c].s = sel[c].s
            /\ call'[c].at = "idle"
         \/ CallSetMux(c) \/ CallPinconfSet(c)
         \/ /\ SettingReturned(c) /\ call[c].ret = "ok"
            /\ sel'[c].pc = sel[c].pc /\ sel'[c].new = sel[c].new
            /\ sel'[c].s = sel[c].s + 1
            /\ call'[c].at = "idle"
         \/ AllMuxed(c) \/ Committed(c)
<1>1. /\ sel \in [Consumers -> Selection] /\ sel[c] \in Selection
      /\ state \in [Consumers -> States \cup {None}]
      /\ sel[c].pc = "undo" => state[c] = None
  BY DEF PinctrlInv, ConsumerOK, ClaimsMatch
<1>2. CASE FreePin(c)
  BY <1>2 DEF FreePin
<1>3. CASE Released(c)
  <2>1. CASE sel[c].new = None
    BY <1>1, <1>3, <2>1 DEF Released, NoSelection
  <2>2. CASE sel[c].new # None
    <3>1. sel'[c] = [sel[c] EXCEPT !.pc = "request"] /\ sel[c].s = 1
      BY <1>1, <1>3, <2>2 DEF Released, PinctrlInv, ConsumerOK, ClaimsMatch
    <3>2. call'[c].at = "idle"
      BY <1>3, CoreStepIdle DEF SelectStep, Released, CallSetMux, InSetting,
         CallPinconfSet
    <3>3. QED
      BY <1>1, <3>1, <3>2 DEF Selection
  <2>3. QED
    BY <2>1, <2>2
<1>4. CASE RequestPin(c)
  BY <1>1, <1>4 DEF RequestPin, InSetting, driverVars, Selection
<1>5. CASE RequestBusy(c)
  BY <1>1, <1>5 DEF RequestBusy, Selection
<1>6. CASE SettingReturned(c)
  <2>1. call'[c].at = "idle"
    BY <1>6, ConsumersAreThreads DEF SettingReturned, Return, NoCall, PinctrlInv,
       DriverInv, TypeOK
  <2>2. CASE call[c].ret = "ok"
    <3>1. sel' = [sel EXCEPT ![c].s = @ + 1, ![c].i = 1]
      BY <1>6, <2>2 DEF SettingReturned
    <3>2. QED
      BY <1>1, <1>6, <2>1, <2>2, <3>1 DEF Selection
  <2>3. CASE call[c].ret # "ok"
    <3>1. sel' = [sel EXCEPT ![c].pc = "undo"]
      BY <1>6, <2>3 DEF SettingReturned
    <3>2. QED
      BY <1>1, <3>1 DEF Selection
  <2>4. QED
    BY <2>2, <2>3
<1>7. CASE Undone(c)
  <2>1. CASE sel[c].from = None \/ sel[c].back
    BY <1>1, <1>7, <2>1 DEF Undone, NoSelection
  <2>2. CASE ~(sel[c].from = None \/ sel[c].back)
    <3>1. sel'[c] = [sel[c] EXCEPT !.pc = "request", !.new = sel[c].from,
                                   !.s = 1, !.i = 1, !.back = TRUE]
      BY <1>1, <1>7, <2>2 DEF Undone, Retry
    <3>2. call'[c].at = "idle"
      BY <1>7, CoreStepIdle DEF SelectStep, Undone, CallSetMux, InSetting,
         CallPinconfSet
    <3>3. QED
      BY <1>1, <3>1, <3>2 DEF Selection
  <2>3. QED
    BY <2>1, <2>2
<1>8. QED
  BY <1>2, <1>3, <1>4, <1>5, <1>6, <1>7 DEF SelectStep

\* A step adds to what is done at most what it writes.
LEMMA SrcDoneGrows ==
  ASSUME PinctrlInv, [PinctrlNext]_pinctrlVars, NEW c \in Consumers,
         CallFollows(call[c], sel[c]), NEW p, NEW v,
         SrcDone(call'[c], sel'[c], state'[c], p, v)
  PROVE  \/ SrcDone(call[c], sel[c], state[c], p, v)
         \/ InDriver(c) /\ MuxWrite(c) /\ p = Pin(c) /\ v = MuxVal(c)
<1> DEFINE k == call[c]
           l == sel[c]
<1>1. /\ c \in Threads /\ k \in Call /\ l \in Selection
      /\ l.pc \in {"request", "config"} => l.new \in States
      /\ CallMatches(k, l)
  BY ConsumersAreThreads DEF PinctrlInv, ConsumerOK, DriverInv, TypeOK, Selection
<1>2. \A n \in States : /\ MuxSettings[n] \in Seq(MuxSetting)
                        /\ \A s \in DOMAIN MuxSettings[n] : s \in Nat \ {0}
  BY SettingTypes
<1>3. CASE \E n \in StatesOf[c] \cup {None} : Begin(c, n)
  <2>1. sel'[c].pc = "release"
    BY <1>3 DEF Begin, NoSelection, PinctrlInv
  <2>2. QED
    BY <2>1 DEF SrcDone
<1>4. CASE SelectStep(c)
  <2>1. CASE \/ sel'[c].pc \in {"release", "undo"}
             \/ sel'[c].pc = "idle" /\ state'[c] = None
    BY <2>1 DEF SrcDone
  <2>2. CASE sel'[c].pc = "request" /\ sel'[c].s = 1 /\ call'[c].at = "idle"
    <3>1. sel'[c].new \in States
      BY <2>2, <1>4, PinctrlNextInv DEF PinctrlInv, ConsumerOK, Selection
    <3>2. QED
      BY <1>2, <2>2, <3>1 DEF SrcDone
  <2>3. CASE /\ l.pc = "request" /\ sel'[c].pc = "request"
             /\ sel'[c].new = l.new /\ sel'[c].s = l.s
             /\ call'[c].at = "idle"
    BY <2>3 DEF SrcDone
  <2>4. CASE CallSetMux(c)
    <3>1. sel'[c] = l /\ state'[c] = state[c] /\ l.pc = "request"
          /\ call'[c].i = 1
      BY <1>1, <2>4 DEF CallSetMux, InSetting, SetMux, NoCall, PinctrlInv,
         DriverInv, TypeOK
    <3>2. call'[c].pins \in Seq(Pins)
      BY <1>1, <1>4, PinctrlNextInv DEF PinctrlInv, DriverInv, TypeOK, Call
    <3>3. QED
      BY <3>1, <3>2 DEF SrcDone
  <2>5. CASE CallPinconfSet(c)
    BY <2>5 DEF CallPinconfSet, SrcDone
  <2>6. CASE /\ SettingReturned(c) /\ k.ret = "ok"
             /\ sel'[c].pc = l.pc /\ sel'[c].new = l.new
             /\ sel'[c].s = l.s + 1
             /\ call'[c].at = "idle"
    <3>1. l.pc \in {"request", "config"} /\ k.at = "ret"
      BY <2>6 DEF SettingReturned, Return
    <3>2. CASE l.pc = "config"
      BY <2>6, <3>2 DEF SrcDone
    <3>3. CASE l.pc = "request"
      <4>1. PICK s \in DOMAIN MuxSettings[l.new] : s < l.s + 1 /\ RoutesIn(l.new, s, p, v)
        BY <2>6, <3>3 DEF SrcDone
      <4>2. CASE s < l.s
        BY <3>3, <4>1, <4>2 DEF SrcDone
      <4>3. CASE s = l.s
        <5>1. k.pins = SettingPins(l.new, s) /\ k.vals = SettingVals(l.new, s)
              /\ k.i > Len(k.pins) /\ k.pins \in Seq(Pins)
          BY <1>1, <2>6, <3>1, <3>3, <4>3 DEF CallFollows, MuxFollows, Call
        <5>2. PICK x \in DOMAIN k.pins : k.pins[x] = p /\ k.vals[x] = v
          BY <4>1, <5>1 DEF RoutesIn, SettingVals
        <5>3. x < k.i
          BY <1>1, <5>1, <5>2 DEF Call
        <5>4. QED
          BY <3>1, <3>3, <5>2, <5>3 DEF SrcDone
      <4>4. QED
        BY <1>1, <1>2, <3>3, <4>1, <4>2, <4>3 DEF Selection
    <3>4. QED
      BY <3>1, <3>2, <3>3
  <2>7. CASE AllMuxed(c)
    <3>1. /\ sel'[c].pc = "config" /\ sel'[c].new = l.new /\ l.pc = "request"
          /\ l.s > Len(MuxSettings[l.new])
      BY <1>1, <2>7 DEF AllMuxed, MuxOf, PinctrlInv, Selection
    <3>2. PICK s \in DOMAIN MuxSettings[l.new] : RoutesIn(l.new, s, p, v)
      BY <3>1 DEF SrcDone, Routes
    <3>3. s < l.s
      BY <1>1, <1>2, <3>1, <3>2 DEF Selection
    <3>4. QED
      BY <3>1, <3>2, <3>3 DEF SrcDone
  <2>8. CASE Committed(c)
    <3>1. sel'[c].pc = "idle" /\ state'[c] = l.new /\ l.pc = "config"
      BY <1>1, <2>8 DEF Committed, NoSelection, PinctrlInv
    <3>2. QED
      BY <3>1 DEF SrcDone
  <2>9. QED
    BY <1>4, <2>1, <2>2, <2>3, <2>4, <2>5, <2>6, <2>7, <2>8, SelectStepEffect
<1>5. CASE InDriver(c)
  <2>1. /\ sel'[c] = l /\ state'[c] = state[c] /\ k.at # "idle"
        /\ call'[c].pins = k.pins /\ call'[c].vals = k.vals
    BY <1>1, <1>5, DriverStepFrame DEF InDriver, PinctrlInv
  <2>2. CASE MuxWrite(c)
    <3>1. call'[c].i = k.i + 1
      BY <1>1, <2>2 DEF MuxWrite, PinctrlInv, DriverInv, TypeOK, Call
    <3>2. \A x \in DOMAIN k.pins : x < k.i + 1 => x < k.i \/ x = k.i
      BY <1>1 DEF Call
    <3>3. QED
      BY <1>5, <2>1, <2>2, <3>1, <3>2 DEF SrcDone, Pin, MuxVal
  <2>3. CASE ConfigWrite(c)
    <3>1. l.pc = "config"
      BY <1>1, <2>1, <2>3 DEF ConfigWrite, AtWrite, CallMatches
    <3>2. QED
      BY <2>1, <3>1 DEF SrcDone
  <2>4. CASE ~MuxWrite(c) /\ ~ConfigWrite(c)
    <3>1. call'[c].i = k.i
      BY <1>1, <1>5, <2>4 DEF InDriver, DriverStep, MuxReject, MuxRead, ConfigReject,
         ConfigRead, CallDone, ReturnWith, ReadReg, PinctrlInv, DriverInv, TypeOK, Call
    <3>2. QED
      BY <2>1, <3>1 DEF SrcDone
  <2>5. QED
    BY <2>2, <2>3, <2>4
<1>6. QED
  BY <1>3, <1>4, <1>5, OthersLeave

LEMMA CtlDoneGrows ==
  ASSUME PinctrlInv, [PinctrlNext]_pinctrlVars, NEW c \in Consumers,
         CallFollows(call[c], sel[c]), NEW p, NEW b, NEW v,
         CtlDone(call'[c], sel'[c], state'[c], p, b, v)
  PROVE  \/ CtlDone(call[c], sel[c], state[c], p, b, v)
         \/ /\ InDriver(c) /\ ConfigWrite(c)
            /\ p = Pin(c) /\ b = Cfg(c).param /\ v = Cfg(c).arg
<1> DEFINE k == call[c]
           l == sel[c]
<1>1. /\ c \in Threads /\ k \in Call /\ l \in Selection
      /\ l.pc \in {"request", "config"} => l.new \in States
      /\ CallMatches(k, l)
      /\ k.op = "pinconf_set" => k.j <= Len(k.cfgs)
  BY ConsumersAreThreads DEF PinctrlInv, ConsumerOK, DriverInv, TypeOK, Selection
<1>2. \A n \in States : /\ ConfigSettings[n] \in Seq(ConfigSetting)
                        /\ \A s \in DOMAIN ConfigSettings[n] : s \in Nat \ {0}
  BY SettingTypes
<1>3. CASE \E n \in StatesOf[c] \cup {None} : Begin(c, n)
  <2>1. sel'[c].pc = "release"
    BY <1>3 DEF Begin, NoSelection, PinctrlInv
  <2>2. QED
    BY <2>1 DEF CtlDone
<1>4. CASE SelectStep(c)
  <2>1. CASE \/ sel'[c].pc \in {"release", "undo", "request"}
             \/ sel'[c].pc = "idle" /\ state'[c] = None
    BY <2>1 DEF CtlDone
  <2>2. CASE CallSetMux(c)
    BY <2>2 DEF CallSetMux, InSetting, CtlDone
  <2>3. CASE CallPinconfSet(c)
    <3>1. sel'[c] = l /\ state'[c] = state[c] /\ l.pc = "config"
          /\ call'[c].i = 1 /\ call'[c].j = 1
      BY <1>1, <2>3 DEF CallPinconfSet, PinconfSet, NoCall, PinctrlInv,
         DriverInv, TypeOK
    <3>2. call'[c].pins \in Seq(Pins) /\ call'[c].cfgs \in Seq(Config)
      BY <1>1, <1>4, PinctrlNextInv DEF PinctrlInv, DriverInv, TypeOK, Call
    <3>3. QED
      BY <3>1, <3>2 DEF CtlDone
  <2>4. CASE /\ SettingReturned(c) /\ k.ret = "ok"
             /\ sel'[c].pc = l.pc /\ sel'[c].new = l.new
             /\ sel'[c].s = l.s + 1
             /\ call'[c].at = "idle"
    <3>1. l.pc \in {"request", "config"} /\ k.at = "ret"
      BY <2>4 DEF SettingReturned, Return
    <3>2. CASE l.pc = "request"
      BY <2>4, <3>2 DEF CtlDone
    <3>3. CASE l.pc = "config"
      <4>1. PICK s \in DOMAIN ConfigSettings[l.new] :
              s < l.s + 1 /\ AsksIn(l.new, s, p, b, v)
        BY <2>4, <3>3 DEF CtlDone
      <4>2. CASE s < l.s
        BY <3>3, <4>1, <4>2 DEF CtlDone
      <4>3. CASE s = l.s
        <5>1. /\ k.pins = ConfigSettings[l.new][s].pins
              /\ k.cfgs = ConfigSettings[l.new][s].cfgs
              /\ k.i > Len(k.pins) /\ k.pins \in Seq(Pins)
          BY <1>1, <2>4, <3>1, <3>3, <4>3
             DEF CallMatches, CallFollows, ConfigFollows, Call
        <5>2. PICK x \in DOMAIN k.pins, y \in DOMAIN k.cfgs :
                k.pins[x] = p /\ k.cfgs[y] = [param |-> b, arg |-> v]
          BY <4>1, <5>1 DEF AsksIn, Range
        <5>3. x < k.i
          BY <1>1, <5>1, <5>2 DEF Call
        <5>4. QED
          BY <3>1, <3>3, <5>2, <5>3 DEF CtlDone
      <4>4. QED
        BY <1>1, <1>2, <3>3, <4>1, <4>2, <4>3 DEF Selection
    <3>4. QED
      BY <3>1, <3>2, <3>3
  <2>5. CASE AllMuxed(c)
    <3>1. /\ sel'[c].pc = "config" /\ sel'[c].s = 1 /\ sel'[c].new = l.new
          /\ call'[c].at = "idle" /\ l.new \in States
      BY <1>1, <1>4, <2>5, CoreStepIdle
         DEF AllMuxed, CallSetMux, InSetting, CallPinconfSet, PinctrlInv, Selection
    <3>2. QED
      BY <1>2, <3>1 DEF CtlDone
  <2>6. CASE Committed(c)
    <3>1. /\ sel'[c].pc = "idle" /\ state'[c] = l.new /\ l.pc = "config"
          /\ l.s > Len(ConfigSettings[l.new])
      BY <1>1, <2>6 DEF Committed, ConfigsOf, NoSelection, PinctrlInv
    <3>2. PICK s \in DOMAIN ConfigSettings[l.new] : AsksIn(l.new, s, p, b, v)
      BY <3>1 DEF CtlDone, Asks
    <3>3. s < l.s
      BY <1>1, <1>2, <3>1, <3>2 DEF Selection
    <3>4. QED
      BY <3>1, <3>2, <3>3 DEF CtlDone
  <2>7. QED
    BY <1>4, <2>1, <2>2, <2>3, <2>4, <2>5, <2>6, SelectStepEffect
<1>5. CASE InDriver(c)
  <2>1. /\ sel'[c] = l /\ state'[c] = state[c] /\ k.at # "idle"
        /\ call'[c].pins = k.pins /\ call'[c].cfgs = k.cfgs
    BY <1>1, <1>5, DriverStepFrame DEF InDriver, PinctrlInv
  <2>2. CASE ConfigWrite(c)
    <3>1. /\ \/ call'[c].i = k.i /\ call'[c].j = k.j + 1
             \/ call'[c].i = k.i + 1 /\ call'[c].j = 1 /\ k.j = Len(k.cfgs)
      BY <1>1, <2>2 DEF ConfigWrite, AtWrite, PinctrlInv, DriverInv, TypeOK, Call
    <3>2. \A x \in DOMAIN k.pins, y \in DOMAIN k.cfgs :
            x < call'[c].i \/ (x = call'[c].i /\ y < call'[c].j)
              => \/ x < k.i \/ (x = k.i /\ y < k.j)
                 \/ x = k.i /\ y = k.j
      BY <1>1, <3>1 DEF Call
    <3>3. \/ CtlDone(k, l, state[c], p, b, v)
          \/ p = Pin(c) /\ Cfg(c) = [param |-> b, arg |-> v]
      BY <2>1, <3>2 DEF CtlDone, Pin, Cfg
    <3>4. QED
      BY <1>5, <2>2, <3>3
  <2>3. CASE MuxWrite(c)
    <3>1. l.pc = "request"
      BY <1>1, <2>1, <2>3 DEF MuxWrite, AtWrite, CallMatches
    <3>2. QED
      BY <2>1, <3>1 DEF CtlDone
  <2>4. CASE ~MuxWrite(c) /\ ~ConfigWrite(c)
    <3>1. call'[c].i = k.i /\ call'[c].j = k.j
      BY <1>1, <1>5, <2>4 DEF InDriver, DriverStep, MuxReject, MuxRead, ConfigReject,
         ConfigRead, CallDone, ReturnWith, ReadReg, PinctrlInv, DriverInv, TypeOK, Call
    <3>2. QED
      BY <2>1, <3>1 DEF CtlDone
  <2>5. QED
    BY <2>2, <2>3, <2>4
<1>6. QED
  BY <1>3, <1>4, <1>5, OthersLeave

\* A word that consumer c has written something in changes only by a
\* write-back of c itself: the others work on the pins they claim.
LEMMA OnlyOwnWrites ==
  ASSUME PinctrlInv, [PinctrlNext]_pinctrlVars, NEW c \in Consumers,
         NEW p \in Owned(c)
  PROVE  \/ regs'[p] = regs[p]
         \/ InDriver(c) /\ (MuxWrite(c) \/ ConfigWrite(c)) /\ call[c].at = "write"
<1>1. CASE regs' = regs
  BY <1>1
<1>2. CASE regs' # regs
  <2>1. PICK t \in Threads : InDriver(t)
    BY <1>2, OnlyDriverWrites
  <2>2. /\ call[t].at = "write" /\ Pin(t) \in Pins /\ t \in Consumers
        /\ MuxWrite(t) \/ ConfigWrite(t)
    BY <1>2, <2>1, WriteIsDriverStep, OnlyConsumers DEF InDriver
  <2>3. Pin(t) \in Owned(t)
    <3>1. call[t].i \in DOMAIN call[t].pins
      BY <2>2 DEF PinctrlInv, DriverInv, TypeOK, Call
    <3>2. QED
      BY <2>2, <3>1, CallClaimed DEF Pin, Range
  <2>4. CASE t = c
    BY <2>1, <2>2, <2>4
  <2>5. CASE t # c
    <3>1. p # Pin(t) /\ p \in Pins
      BY <2>3, <2>5 DEF Owned
    <3>2. QED
      BY <2>2, <3>1 DEF MuxWrite, ConfigWrite, PinctrlInv, DriverInv, TypeOK
  <2>6. QED
    BY <2>4, <2>5
<1>3. QED
  BY <1>1, <1>2

\* The rule of this section.  A consumer that has programmed what it claims to
\* have, and whose open write-back is fresh, still has after any step: its own
\* step adds what it writes, and the others write on other pins.
LEMMA ProgrammedStep ==
  ASSUME PinctrlInv, [PinctrlNext]_pinctrlVars, NEW c \in Consumers,
         CallFollows(call[c], sel[c]), Fresh(c), Programmed(c)
  PROVE  Programmed(c)'
<1> DEFINE n == sel[c].new
<1>1. regs \in [Pins -> Word] /\ c \in Threads
  BY ConsumersAreThreads DEF PinctrlInv, DriverInv, TypeOK
<1>2. ASSUME NEW p, NEW v, SrcDone(call'[c], sel'[c], state'[c], p, v)
      PROVE  regs'[p].src = v
  <2>1. CASE MuxWrite(c) /\ p = Pin(c) /\ v = MuxVal(c)
    <3>1. regs' = [regs EXCEPT ![Pin(c)].src = MuxVal(c)] /\ Pin(c) \in Pins
      BY <1>1, <2>1, MuxWriteEffect
    <3>2. QED
      BY <1>1, <2>1, <3>1 DEF Word
  <2>2. CASE SrcDone(call[c], sel[c], state[c], p, v)
    <3>1. p \in Owned(c) /\ p \in Pins /\ regs[p].src = v
      BY <2>2, SrcDoneAsked DEF Programmed, Owned
    <3>2. CASE regs'[p] = regs[p]
      BY <3>1, <3>2
    <3>3. CASE MuxWrite(c) /\ call[c].at = "write"
      <4>1. regs' = [regs EXCEPT ![Pin(c)].src = MuxVal(c)] /\ Pin(c) \in Pins
        BY <1>1, <3>3, MuxWriteEffect
      <4>2. CASE p = Pin(c)
        <5>1. sel[c].pc # "idle" /\ n \in States /\ Routes(n, Pin(c), MuxVal(c))
          BY <3>3, WriteAsked DEF MuxWrite, AtWrite
        <5>2. Routes(n, p, v)
          BY <2>2, <5>1, SrcDoneAsked DEF StateAt
        <5>3. v = MuxVal(c)
          BY <4>2, <5>1, <5>2, OneRoute
        <5>4. QED
          BY <1>1, <4>1, <4>2, <5>3
      <4>3. CASE p # Pin(c)
        BY <1>1, <3>1, <4>1, <4>3
      <4>4. QED
        BY <4>2, <4>3
    <3>4. CASE ConfigWrite(c)
      <4> DEFINE ctl == IF Cfg(c).arg THEN regs[Pin(c)].ctl \cup {Cfg(c).param}
                                      ELSE regs[Pin(c)].ctl \ {Cfg(c).param}
      <4>1. regs' = [regs EXCEPT ![Pin(c)].ctl = ctl] /\ Pin(c) \in Pins
        BY <1>1, <3>4, ConfigWriteEffect
      <4> HIDE DEF ctl
      <4>2. QED
        BY <1>1, <3>1, <4>1 DEF Word
    <3>5. QED
      BY <3>1, <3>2, <3>3, <3>4, OnlyOwnWrites
  <2>3. QED
    BY <1>2, <2>1, <2>2, SrcDoneGrows
<1>3. ASSUME NEW p, NEW b, NEW v, CtlDone(call'[c], sel'[c], state'[c], p, b, v)
      PROVE  (b \in regs'[p].ctl) = v
  <2>1. ASSUME ConfigWrite(c), p = Pin(c), b = Cfg(c).param, v = Cfg(c).arg
        PROVE  (b \in regs'[p].ctl) = v
    <3> DEFINE ctl == IF Cfg(c).arg THEN regs[Pin(c)].ctl \cup {Cfg(c).param}
                                    ELSE regs[Pin(c)].ctl \ {Cfg(c).param}
    <3>1. /\ regs' = [regs EXCEPT ![Pin(c)].ctl = ctl] /\ Pin(c) \in Pins
          /\ Cfg(c).arg \in BOOLEAN
      BY <1>1, <2>1, ConfigWriteEffect
    <3>2. (b \in ctl) = v
      BY <2>1, <3>1
    <3>3. regs'[p].ctl = ctl
      <4> HIDE DEF ctl
      <4>1. QED
        BY <1>1, <2>1, <3>1 DEF Word
    <3>4. QED
      BY <3>2, <3>3
  <2>2. CASE CtlDone(call[c], sel[c], state[c], p, b, v)
    <3>1. p \in Owned(c) /\ p \in Pins /\ (b \in regs[p].ctl) = v
      BY <2>2, CtlDoneAsked DEF Programmed, Owned
    <3>2. CASE regs'[p] = regs[p]
      BY <3>1, <3>2
    <3>3. CASE MuxWrite(c)
      <4>1. regs' = [regs EXCEPT ![Pin(c)].src = MuxVal(c)] /\ Pin(c) \in Pins
        BY <1>1, <3>3, MuxWriteEffect
      <4>2. QED
        BY <1>1, <3>1, <4>1 DEF Word
    <3>4. CASE ConfigWrite(c) /\ call[c].at = "write"
      <4> DEFINE ctl == IF Cfg(c).arg THEN regs[Pin(c)].ctl \cup {Cfg(c).param}
                                      ELSE regs[Pin(c)].ctl \ {Cfg(c).param}
      <4>1. regs' = [regs EXCEPT ![Pin(c)].ctl = ctl] /\ Pin(c) \in Pins
        BY <1>1, <3>4, ConfigWriteEffect
      <4>2. CASE p = Pin(c) /\ b = Cfg(c).param
        <5>1. /\ sel[c].pc # "idle" /\ n \in States
              /\ Asks(n, Pin(c), Cfg(c).param, Cfg(c).arg)
          BY <3>4, WriteAsked DEF ConfigWrite, AtWrite
        <5>2. Asks(n, p, b, v)
          BY <2>2, <5>1, CtlDoneAsked DEF StateAt
        <5>3. v = Cfg(c).arg
          BY <4>2, <5>1, <5>2, OneAsk
        <5>4. QED
          BY <2>1, <3>4, <4>2, <5>3
      <4>3. CASE p = Pin(c) /\ b # Cfg(c).param
        <5>1. regs'[p].ctl = ctl
          BY <1>1, <4>1, <4>3 DEF Word
        <5>2. (b \in ctl) <=> (b \in regs[p].ctl)
          BY <4>3
        <5>3. QED
          BY <3>1, <5>1, <5>2
      <4>4. CASE p # Pin(c)
        BY <1>1, <3>1, <4>1, <4>4
      <4>5. QED
        BY <4>2, <4>3, <4>4
    <3>5. QED
      BY <3>1, <3>2, <3>3, <3>4, OnlyOwnWrites
  <2>3. QED
    BY <1>3, <2>1, <2>2, CtlDoneGrows
<1>4. QED
  BY <1>2, <1>3 DEF Programmed

\* Between selections, what is done is all that the state asks for.
LEMMA SettledIsApplied ==
  ASSUME NEW c \in Consumers, Programmed(c), sel[c].pc = "idle", state[c] \in States
  PROVE  MuxApplied(state[c]) /\ ConfigsApplied(state[c])
<1> DEFINE n == state[c]
<1> state[c] # None
  BY ConsumerAssumption
<1>1. ASSUME NEW s \in DOMAIN MuxSettings[n], NEW x \in DOMAIN SettingPins(n, s)
      PROVE  regs[SettingPins(n, s)[x]].src = SettingVals(n, s)[x]
  <2>1. Routes(n, SettingPins(n, s)[x], SettingVals(n, s)[x])
    BY DEF Routes, RoutesIn, SettingVals
  <2>2. QED
    BY <2>1 DEF Programmed, SrcDone
<1>2. ASSUME NEW s \in DOMAIN ConfigSettings[n],
             NEW p \in Range(ConfigSettings[n][s].pins),
             NEW d \in Range(ConfigSettings[n][s].cfgs)
      PROVE  (d.param \in regs[p].ctl) = d.arg
  <2>1. d \in Config
    BY SettingTypes, TableAssumption DEF Range
  <2>2. d = [param |-> d.param, arg |-> d.arg]
    BY <2>1 DEF Config
  <2>3. Asks(n, p, d.param, d.arg)
    BY <2>2 DEF Asks, AsksIn
  <2>4. QED
    BY <2>3 DEF Programmed, CtlDone
<1>3. QED
  BY <1>1, <1>2 DEF MuxApplied, ConfigsApplied, SettingPins, SettingVals

\* Applied settings read back pin by pin.
LEMMA AppliedRoutes ==
  ASSUME NEW n, MuxApplied(n), NEW p, NEW v, Routes(n, p, v)
  PROVE  regs[p].src = v
BY DEF MuxApplied, Routes, RoutesIn, SettingPins

LEMMA AppliedAsks ==
  ASSUME NEW n, ConfigsApplied(n), NEW p, NEW b, NEW v, Asks(n, p, b, v)
  PROVE  (b \in regs[p].ctl) = v
<1>1. PICK s \in DOMAIN ConfigSettings[n] : AsksIn(n, s, p, b, v)
  BY DEF Asks
<1> DEFINE d == [param |-> b, arg |-> v]
<1>2. p \in Range(ConfigSettings[n][s].pins) /\ d \in Range(ConfigSettings[n][s].cfgs)
  BY <1>1 DEF AsksIn
<1>3. (d.param \in regs[p].ctl) = d.arg
  BY <1>2 DEF ConfigsApplied
<1>4. QED
  BY <1>3

LEMMA ProgrammedInvariant ==
  PinctrlSpec => [](\A c \in Consumers : Programmed(c))
<1>1. Init => \A c \in Consumers : Programmed(c)
  BY DEF Init, NoSelection, Programmed, SrcDone, CtlDone
<1>2. ASSUME ProductionInv, Follows, \A c \in Consumers : Programmed(c),
             [PinctrlNext]_pinctrlVars
      PROVE  (\A c \in Consumers : Programmed(c))'
  <2>1. ASSUME NEW c \in Consumers PROVE Programmed(c)'
    BY <1>2, FreshForAll, ConsumersAreThreads, ProgrammedStep DEF ProductionInv, Follows
  <2>2. QED
    BY <2>1
<1>3. QED
  BY <1>1, <1>2, ProductionInvariant, FollowsInv, PTL DEF PinctrlSpec

\* The promise of the whole driver: between selections the hardware is as the
\* remembered state says, every source and every control bit of it, whatever
\* the other consumers did meanwhile (aximux_set_mux, aximux_pinconf_set).
THEOREM SettledProgrammed == PinctrlSpec => []SettledApplied
<1>1. ASSUME PinctrlInv, \A c \in Consumers : Programmed(c)
      PROVE  SettledApplied
  BY <1>1, SettledIsApplied DEF SettledApplied, PinctrlInv
<1>2. QED
  BY <1>1, PinctrlInvariant, ProgrammedInvariant, PTL

-----------------------------------------------------------------------------
(***************************************************************************)
(* Restarts of the kernel and losses of the registers, at any moment and   *)
(* any number of times.  Neither disturbs the bookkeeping, which belongs   *)
(* to the core; what is programmed is kept and argued for each consumer on *)
(* its own, so that it can be regained one consumer at a time, with the    *)
(* next selection.                                                         *)
(***************************************************************************)

\* The bookkeeping, and what the consumers that selected since then regained.
CoreInv ==
  /\ PinctrlInv
  /\ SrcInv
  /\ Follows
  /\ renewed \subseteq Consumers
  /\ \A c \in renewed : Programmed(c) /\ Fresh(c)

\* Neither the consumers nor the driver are inside a call.
AllDown ==
  /\ regs \in [Pins -> Word]
  /\ call  = [t \in Threads |-> NoCall]
  /\ val   = [t \in Threads |-> ResetWord]
  /\ owner = [p \in Pins |-> None]
  /\ state = [c \in Consumers |-> None]
  /\ sel   = [c \in Consumers |-> NoSelection]
  /\ renewed = {}

LEMMA DownInv == AllDown /\ SrcLegal => CoreInv
<1> SUFFICES ASSUME AllDown, SrcLegal PROVE CoreInv
  OBVIOUS
<1>1. DriverInv
  BY DEF AllDown, DriverInv, TypeOK, WriteChecked, NoCall, Call, ResetWord, Word
<1>2. NoSelection \in Selection /\ NoSelection.pc = "idle" /\ NoCall.at = "idle"
  BY DEF NoSelection, Selection, NoCall
<1>3. ASSUME NEW c \in Consumers
      PROVE  /\ ConsumerOK(call[c], sel[c], state[c], Owned(c))
             /\ CallFollows(call[c], sel[c])
  <2>1. call[c].at = "idle" /\ sel[c] = NoSelection /\ state[c] = None
        /\ Owned(c) = {}
    BY <1>2, ConsumersAreThreads DEF AllDown, Owned
  <2>2. QED
    BY <1>2, <2>1 DEF ConsumerOK, ClaimsMatch, CallMatches, CallFollows
<1>4. PinctrlInv /\ Follows
  BY <1>1, <1>2, <1>3 DEF AllDown, PinctrlInv, Follows
<1>5. SrcInv
  BY <1>2 DEF AllDown, SrcInv
<1>6. QED
  BY <1>4, <1>5 DEF AllDown, CoreInv

LEMMA RestartInitInv == RestartInit => AllDown /\ SrcLegal
BY DEF RestartInit, Init, DriverInit, AllDown, SrcLegal, ResetWord, Word

\* A restart finds words in the registers that an earlier kernel left there.
LEMMA RestartIsDown == CoreInv /\ Restart => AllDown' /\ SrcLegal'
BY DEF CoreInv, PinctrlInv, DriverInv, TypeOK, SrcInv, SrcLegal, Restart,
       AfterRestart, AllDown, ResetWord, Word

LEMMA ReloadInv == CoreInv /\ Reload => CoreInv'
<1> SUFFICES ASSUME CoreInv, Reload PROVE CoreInv'
  OBVIOUS
<1>1. regs' = [p \in Pins |-> ResetWord] /\ ResetWord \in Word /\ ResetWord.src = 0
  BY DEF Reload, ResetWord, Word
<1>2. UNCHANGED <<call, val, owner, state, sel>> /\ renewed' = {}
  BY DEF Reload
<1>3. DriverInv'
  BY <1>1, <1>2 DEF CoreInv, PinctrlInv, DriverInv, TypeOK, WriteChecked, Pin,
     MuxVal, Cfg
<1>4. PinctrlInv' /\ Follows'
  BY <1>2, <1>3 DEF CoreInv, PinctrlInv, Follows, Owned
<1>5. SrcInv'
  BY <1>1, <1>2 DEF CoreInv, SrcInv, SrcLegal, Pin
<1>6. QED
  BY <1>2, <1>4, <1>5 DEF CoreInv

\* A consumer between selections stays as it is or begins one.
LEMMA IdleMoves ==
  ASSUME PinctrlInv, [PinctrlNext]_pinctrlVars, NEW c \in Consumers,
         sel[c].pc = "idle"
  PROVE  /\ call[c].at = "idle" /\ call'[c] = call[c] /\ state'[c] = state[c]
         /\ sel'[c].pc = "release" \/ sel'[c] = sel[c]
<1>1. call[c].at = "idle"
  BY DEF PinctrlInv, ConsumerOK, CallMatches
<1>2. ~SelectStep(c)
  BY DEF SelectStep, FreePin, Released, RequestPin, RequestBusy, InSetting,
     CallSetMux, SettingReturned, AllMuxed, CallPinconfSet, Committed, Undone
<1>3. ~InDriver(c)
  BY <1>1, ConsumersAreThreads, DriverStepFrame DEF InDriver, PinctrlInv
<1>4. ASSUME NEW n \in StatesOf[c] \cup {None}, Begin(c, n)
      PROVE  /\ call'[c] = call[c] /\ state'[c] = state[c]
             /\ sel'[c].pc = "release"
  BY <1>4 DEF Begin, NoSelection, driverVars, PinctrlInv
<1>5. QED
  BY <1>1, <1>2, <1>3, <1>4, OthersLeave

LEMMA UndisturbedInv == CoreInv /\ UndisturbedStep => CoreInv'
<1> SUFFICES ASSUME CoreInv, UndisturbedStep PROVE CoreInv'
  OBVIOUS
<1> [PinctrlNext]_pinctrlVars /\ PinctrlInv
  BY DEF UndisturbedStep, CoreInv
<1>1. PinctrlInv'
  BY PinctrlNextInv
<1>2. SrcInv'
  BY StepSimulation, SrcNextInv DEF CoreInv, PinctrlInv
<1>3. Follows'
  BY FollowsStep DEF CoreInv, Follows
<1>4. renewed' = renewed \cup Began /\ renewed' \subseteq Consumers
  BY DEF UndisturbedStep, CoreInv, Began
<1>5. ASSUME NEW c \in renewed PROVE Programmed(c)' /\ Fresh(c)'
  <2>1. c \in Consumers /\ c \in Threads /\ CallFollows(call[c], sel[c])
        /\ Programmed(c) /\ Fresh(c)
    BY ConsumersAreThreads DEF CoreInv, Follows
  <2>2. QED
    BY <2>1, ProgrammedStep, FreshStep
<1>6. ASSUME NEW c \in Began PROVE Programmed(c)' /\ Fresh(c)'
  <2>1. sel'[c].pc = "release" /\ call'[c].at = "idle"
    BY IdleMoves DEF Began
  <2>2. QED
    BY <2>1 DEF Programmed, SrcDone, CtlDone, Fresh
<1>7. QED
  BY <1>1, <1>2, <1>3, <1>4, <1>5, <1>6 DEF CoreInv

-----------------------------------------------------------------------------
(***************************************************************************)
(* The reader.                                                             *)
(***************************************************************************)

\* Word w is as state n asks for pin p.
Shows(n, p, w) ==
  /\ \A v \in 0..AXIMUX_MAX_ALTS : Routes(n, p, v) => w.src = v
  /\ \A b \in ControlBits, a \in BOOLEAN : Asks(n, p, b, a) => (b \in w.ctl) = a

ReaderType ==
  [op     : {"idle", "dump", "dumped", "get", "got", "unsupported"},
   pins   : Seq(Pins),
   seen   : Seq(Word),
   param  : Params,
   answer : BOOLEAN]

\* A quiet consumer sits in a state that is programmed, and stays there.
QuietInv ==
  \A c \in quiet : c \in renewed /\ sel[c].pc = "idle" /\ state[c] # None

\* Every word read so far, and the answer, are right for the quiet consumers.
ReaderInv ==
  /\ reader \in ReaderType
  /\ reader.op \in {"dump", "dumped"} => Len(reader.seen) <= Len(reader.pins)
  /\ reader.op = "dumped" => Len(reader.seen) = Len(reader.pins)
  /\ reader.op \in {"get", "got"} => reader.pins # <<>>
  /\ reader.op = "got" => reader.param \in ControlBits
  /\ \A c \in quiet :
       /\ reader.op \in {"dump", "dumped"} =>
            \A x \in DOMAIN reader.seen :
              Shows(state[c], reader.pins[x], reader.seen[x])
       /\ reader.op = "got" =>
            \A a \in BOOLEAN :
              Asks(state[c], reader.pins[1], reader.param, a) => reader.answer = a

ReadoutInv == CoreInv /\ QuietInv /\ ReaderInv

\* What the registers say of a quiet consumer's pins is what its state asks.
LEMMA QuietShows ==
  ASSUME CoreInv, QuietInv, NEW c \in quiet, NEW p
  PROVE  /\ Shows(state[c], p, regs[p])
         /\ \A b, a : Asks(state[c], p, b, a) => (b \in regs[p].ctl) = a
<1>1. /\ c \in Consumers /\ Programmed(c) /\ sel[c].pc = "idle"
      /\ state[c] \in States
  BY DEF CoreInv, QuietInv, PinctrlInv
<1>2. MuxApplied(state[c]) /\ ConfigsApplied(state[c])
  BY <1>1, SettledIsApplied
<1>3. QED
  BY <1>2, AppliedRoutes, AppliedAsks DEF Shows

LEMMA NoReadTyped ==
  NoRead \in ReaderType /\ NoRead.op = "idle" /\ NoRead.seen = <<>>
BY DEF NoRead, ReaderType, Params

LEMMA EntersInv ==
  ASSUME ReadoutInv, NEW ps \in Seq(Pins), NEW param \in Params,
         \/ Enters([NoRead EXCEPT !.op = "dump", !.pins = ps])
         \/ /\ Enters([NoRead EXCEPT !.op = "get", !.pins = ps, !.param = param])
            /\ ps # <<>>
  PROVE  QuietInv' /\ ReaderInv'
<1>1. QuietInv'
  BY DEF Enters, Settled, QuietInv, restartVars, pinctrlVars
<1>2. /\ reader' \in ReaderType /\ reader'.seen = <<>> /\ reader'.pins = ps
      /\ reader'.op = "dump" \/ (reader'.op = "get" /\ ps # <<>>)
  BY NoReadTyped DEF Enters, ReaderType
<1>3. QED
  BY <1>1, <1>2 DEF ReaderInv

LEMMA DumpReadInv ==
  ASSUME ReadoutInv, DumpRead
  PROVE  QuietInv' /\ ReaderInv'
<1> DEFINE r == reader
           x == Len(r.seen) + 1
           w == regs[r.pins[x]]
<1>1. /\ r \in ReaderType /\ r.op = "dump" /\ r.pins \in Seq(Pins)
      /\ r.seen \in Seq(Word) /\ Len(r.seen) < Len(r.pins)
  BY DEF DumpRead, ReadoutInv, ReaderInv, ReaderType
<1>2. x \in DOMAIN r.pins /\ r.pins[x] \in Pins /\ w \in Word
  <2>1. x \in DOMAIN r.pins
    BY <1>1
  <2>2. QED
    BY <1>1, <2>1 DEF ReadoutInv, CoreInv, PinctrlInv, DriverInv, TypeOK
<1>3. reader' = [r EXCEPT !.seen = Append(r.seen, w)]
      /\ UNCHANGED <<restartVars, quiet>>
  BY DEF DumpRead, NextRead
<1>4. QuietInv'
  BY <1>3 DEF ReadoutInv, QuietInv, restartVars, pinctrlVars
<1> HIDE DEF r, w
<1>5. /\ reader' \in ReaderType /\ reader'.op = "dump" /\ reader'.pins = r.pins
      /\ reader'.seen = Append(r.seen, w)
  <2>1. Append(r.seen, w) \in Seq(Word)
    BY <1>1, <1>2
  <2>2. QED
    BY <1>1, <1>3, <2>1 DEF ReaderType
<1>6. ASSUME NEW c \in quiet, NEW y \in DOMAIN reader'.seen
      PROVE  Shows(state[c], r.pins[y], reader'.seen[y])
  <2>1. CASE y = x
    <3>1. reader'.seen[y] = w
      BY <1>1, <1>5, <2>1
    <3>2. QED
      BY <2>1, <3>1, QuietShows DEF w, ReadoutInv
  <2>2. CASE y # x
    <3>1. y \in DOMAIN r.seen /\ reader'.seen[y] = r.seen[y]
      BY <1>1, <1>2, <1>5, <2>2
    <3>2. QED
      BY <1>1, <3>1 DEF r, ReadoutInv, ReaderInv
  <2>3. QED
    BY <2>1, <2>2
<1>7. Len(reader'.seen) <= Len(reader'.pins)
  BY <1>1, <1>2, <1>5
<1>8. state' = state /\ quiet' = quiet
  BY <1>3 DEF restartVars, pinctrlVars
<1>9. QED
  BY <1>4, <1>5, <1>6, <1>7, <1>8 DEF ReaderInv

LEMMA PinconfGetInv ==
  ASSUME ReadoutInv, PinconfGet
  PROVE  QuietInv' /\ ReaderInv'
<1>1. /\ reader \in ReaderType /\ reader.op = "get" /\ reader.pins # <<>>
      /\ UNCHANGED <<restartVars, quiet>>
  BY DEF PinconfGet, ReadoutInv, ReaderInv
<1>2. QuietInv' /\ state' = state /\ quiet' = quiet
  BY <1>1 DEF ReadoutInv, QuietInv, restartVars, pinctrlVars
<1>3. CASE reader.param \in ControlBits
  <2> DEFINE answer == Answer(regs[reader.pins[1]], reader.param)
  <2>1. reader' = [reader EXCEPT !.op = "got", !.answer = answer]
    BY <1>3 DEF PinconfGet
  <2>2. answer \in BOOLEAN
    BY DEF Answer
  <2>3. \A c \in quiet, a \in BOOLEAN :
          Asks(state[c], reader.pins[1], reader.param, a) => answer = a
    BY QuietShows DEF Answer, ReadoutInv
  <2> HIDE DEF answer
  <2>4. /\ reader' \in ReaderType /\ reader'.op = "got"
        /\ reader'.pins = reader.pins /\ reader'.param = reader.param
        /\ reader'.answer = answer
    BY <1>1, <2>1, <2>2 DEF ReaderType
  <2>5. QED
    BY <1>1, <1>2, <1>3, <2>3, <2>4 DEF ReaderInv
<1>4. CASE reader.param \notin ControlBits
  <2>1. reader' = [reader EXCEPT !.op = "unsupported"]
    BY <1>4 DEF PinconfGet
  <2>2. reader' \in ReaderType /\ reader'.op = "unsupported"
    BY <1>1, <2>1 DEF ReaderType
  <2>3. QED
    BY <1>2, <2>2 DEF ReaderInv
<1>5. QED
  BY <1>3, <1>4

LEMMA NoReadInv ==
  ASSUME reader' = NoRead, quiet' = {}
  PROVE  QuietInv' /\ ReaderInv'
BY NoReadTyped DEF QuietInv, ReaderInv

LEMMA ReadStepInv ==
  ASSUME ReadoutInv, ReadStep
  PROVE  QuietInv' /\ ReaderInv'
<1>1. CASE BeginDump
  <2>1. PinOrder \in Seq(Pins) /\ "GENERIC" \in Params
    BY PinOrderAssumption DEF Params
  <2>2. QED
    BY <1>1, <2>1, EntersInv DEF BeginDump
<1>2. ASSUME NEW p \in Pins, NEW param \in Params, BeginGet(<<p>>, param)
      PROVE  QuietInv' /\ ReaderInv'
  <2>1. <<p>> \in Seq(Pins) /\ <<p>> # <<>>
    OBVIOUS
  <2>2. QED
    BY <1>2, <2>1, EntersInv DEF BeginGet
<1>3. ASSUME NEW g \in Groups, NEW param \in Params, BeginGet(GroupPins[g], param)
      PROVE  QuietInv' /\ ReaderInv'
  <2>1. GroupPins[g] \in Seq(Pins) /\ GroupPins[g] # <<>>
    BY TableAssumption, GroupsHavePins
  <2>2. QED
    BY <1>3, <2>1, EntersInv DEF BeginGet
<1>4. CASE DumpDone
  <2>1. /\ reader \in ReaderType /\ reader.op = "dump"
        /\ Len(reader.seen) = Len(reader.pins)
        /\ reader' = [reader EXCEPT !.op = "dumped"]
        /\ UNCHANGED <<restartVars, quiet>>
    BY <1>4 DEF DumpDone, ReadoutInv, ReaderInv
  <2>2. /\ reader' \in ReaderType /\ reader'.op = "dumped"
        /\ reader'.pins = reader.pins /\ reader'.seen = reader.seen
    BY <2>1 DEF ReaderType
  <2>3. QuietInv' /\ state' = state /\ quiet' = quiet
    BY <2>1 DEF ReadoutInv, QuietInv, restartVars, pinctrlVars
  <2>4. Len(reader.seen) <= Len(reader.pins)
    BY <2>1 DEF ReadoutInv, ReaderInv
  <2>5. QED
    BY <2>1, <2>2, <2>3, <2>4 DEF ReadoutInv, ReaderInv
<1>5. CASE Returned
  BY <1>5, NoReadInv DEF Returned
<1>6. QED
  BY <1>1, <1>2, <1>3, <1>4, <1>5, DumpReadInv, PinconfGetInv DEF ReadStep

\* Beside a consumer that moves, the others that are quiet stay in their state.
LEMMA ConsumerStepInv ==
  ASSUME ReadoutInv, ConsumerStep
  PROVE  QuietInv' /\ ReaderInv'
<1>1. /\ [PinctrlNext]_pinctrlVars /\ PinctrlInv /\ reader' = reader
      /\ renewed \subseteq renewed' /\ quiet' \subseteq quiet
  BY DEF ConsumerStep, UndisturbedStep, ReadoutInv, CoreInv
<1>2. ASSUME NEW c \in quiet'
      PROVE  /\ c \in quiet /\ c \in renewed' /\ state'[c] = state[c]
             /\ sel'[c].pc = "idle" /\ state[c] # None
  <2>1. /\ c \in quiet /\ c \in renewed /\ c \in Consumers
        /\ sel[c].pc = "idle" /\ state[c] # None
    BY <1>1 DEF ReadoutInv, CoreInv, QuietInv
  <2>2. sel'[c].pc = "idle"
    BY DEF ConsumerStep
  <2>3. QED
    BY <1>1, <2>1, <2>2, IdleMoves
<1>3. QuietInv'
  BY <1>2 DEF QuietInv
<1>4. ReaderInv'
  BY <1>1, <1>2 DEF ReadoutInv, ReaderInv
<1>5. QED
  BY <1>3, <1>4

\* After a loss nobody is quiet: what was read stays read.
LEMMA LossInv ==
  ASSUME ReaderInv, RestartStep \/ ReloadStep
  PROVE  QuietInv' /\ ReaderInv'
<1>1. CASE RestartStep
  BY <1>1, NoReadInv DEF RestartStep
<1>2. CASE ReloadStep
  BY <1>2 DEF ReloadStep, QuietInv, ReaderInv
<1>3. QED
  BY <1>1, <1>2

LEMMA ReadoutInvariant == ReadoutSpec => []ReadoutInv
<1>1. ReadoutInit => RestartInit /\ QuietInv /\ ReaderInv
  BY NoReadTyped DEF ReadoutInit, QuietInv, ReaderInv
<1>2. UNCHANGED restartVars /\ CoreInv => CoreInv'
  <2> SUFFICES ASSUME CoreInv, UNCHANGED restartVars PROVE CoreInv'
    OBVIOUS
  <2>1. UNCHANGED pinctrlVars /\ renewed' = renewed
    BY DEF restartVars
  <2>2. PinctrlInv'
    BY <2>1, PinctrlNextInv DEF CoreInv
  <2>3. SrcInv' /\ Follows'
    BY <2>1 DEF pinctrlVars, CoreInv, SrcInv, SrcLegal, Pin, Follows
  <2>4. \A c \in renewed : Programmed(c)' /\ Fresh(c)'
    BY <2>1 DEF pinctrlVars, CoreInv, Programmed, Fresh, Pin
  <2>5. QED
    BY <2>1, <2>2, <2>3, <2>4 DEF CoreInv
<1>3. /\ ReadStep => UNCHANGED restartVars
      /\ ConsumerStep => UndisturbedStep
      /\ RestartStep => Restart
      /\ ReloadStep => Reload
  BY DEF ReadStep, BeginDump, DumpRead, DumpDone, BeginGet, Enters, PinconfGet,
     Returned, ConsumerStep, RestartStep, ReloadStep
<1>4. ReadoutInv /\ [ReadoutNext]_readoutVars => QuietInv' /\ ReaderInv'
  <2>1. ReadoutInv /\ UNCHANGED readoutVars => QuietInv' /\ ReaderInv'
    BY DEF readoutVars, restartVars, pinctrlVars, ReadoutInv, QuietInv, ReaderInv
  <2>2. QED
    BY <2>1, ReadStepInv, ConsumerStepInv, LossInv DEF ReadoutNext, ReadoutInv
<1>5. [ReadoutNext]_readoutVars =>
        UNCHANGED restartVars \/ UndisturbedStep \/ Restart \/ Reload
  BY <1>3 DEF ReadoutNext, readoutVars
<1>6. QED
  BY <1>1, <1>2, <1>4, <1>5, DownInv, RestartInitInv, RestartIsDown, ReloadInv,
     UndisturbedInv, PTL DEF ReadoutSpec, ReadoutInv

-----------------------------------------------------------------------------
\* What is lost comes back: from a consumer's first selection after a restart
\* or a loss of the registers on, its settled state is in the registers in
\* full, whatever was in them before and whatever stale words other consumers
\* still write back (aximux_set_src, aximux_pinconf_set).
THEOREM SelectionRenews == ReadoutSpec => []RenewedApplied
<1>1. CoreInv => RenewedApplied
  BY SettledIsApplied DEF CoreInv, PinctrlInv, RenewedApplied
<1>2. QED
  BY <1>1, ReadoutInvariant, PTL DEF ReadoutInv

\* Every line of a dump that a consumer's state is about shows what the state
\* asks for, if the consumer stayed in it while the dump ran, in however many
\* pieces the dump was read (srcsel_show, aximux_pin_dbg_show).
THEOREM DumpTellsSettled == ReadoutSpec => []DumpShowsSettled
<1>1. ReadoutInv => DumpShowsSettled
  <2> SUFFICES ASSUME ReadoutInv, reader.op = "dumped",
                      NEW c \in quiet, NEW x \in DOMAIN reader.pins
               PROVE  Shows(state[c], reader.pins[x], reader.seen[x])
    BY DEF DumpShowsSettled, Shows
  <2>1. reader.pins \in Seq(Pins) /\ reader.seen \in Seq(Word)
        /\ Len(reader.seen) = Len(reader.pins)
    BY DEF ReadoutInv, ReaderInv, ReaderType
  <2>2. x \in DOMAIN reader.seen
    BY <2>1
  <2>3. QED
    BY <2>2 DEF ReadoutInv, ReaderInv
<1>2. QED
  BY <1>1, ReadoutInvariant, PTL

\* The answer that pinconf_get gives for a group, read from its first pin, is
\* right for all its pins where a state configures them alike, and the
\* registers still say so when it is given (aximux_pinconf_group_get).
THEOREM GetIsRight == ReadoutSpec => []GetTellsSettled
<1>1. ReadoutInv => GetTellsSettled
  <2> SUFFICES ASSUME ReadoutInv, reader.op = "got",
                      NEW c \in quiet, NEW a \in BOOLEAN,
                      \A p \in Range(reader.pins) :
                        Asks(state[c], p, reader.param, a)
               PROVE  /\ reader.answer = a
                      /\ \A p \in Range(reader.pins) :
                           (reader.param \in regs[p].ctl) = a
    BY DEF GetTellsSettled
  <2>1. reader.pins \in Seq(Pins) /\ reader.pins # <<>>
    BY DEF ReadoutInv, ReaderInv, ReaderType
  <2>2. reader.pins[1] \in Range(reader.pins)
    BY <2>1 DEF Range
  <2>3. reader.answer = a
    BY <2>2 DEF ReadoutInv, ReaderInv
  <2>4. QED
    BY <2>3, QuietShows DEF ReadoutInv
<1>2. QED
  BY <1>1, ReadoutInvariant, PTL

\* The claims and the bound on sources know nothing of restarts: no claim is
\* leaked or lost and no undeclared source is routed across any of them.
THEOREM SafeAcrossRestarts == ReadoutSpec => [](SettledOwns /\ SrcLegal)
<1>1. CoreInv => SettledOwns /\ SrcLegal
  BY DEF CoreInv, SrcInv, PinctrlInv, SettledOwns, ConsumerOK, ClaimsMatch
<1>2. QED
  BY <1>1, ReadoutInvariant, PTL DEF ReadoutInv

-----------------------------------------------------------------------------
(***************************************************************************)
(* The pads.  The driver's bound on sources carries over to the datapath:  *)
(* the routing of each signal is that of one alternate at every moment,    *)
(* and of the one that the consumer's state names while the consumer is in *)
(* a state.                                                                *)
(***************************************************************************)
LEMMA SmallMod ==
  ASSUME NEW x \in Nat, NEW m \in Nat \ {0}, x < m
  PROVE  x % m = x
  BY SMT

\* The level assignment in which alternate a alone is high.
Only(a) == [b \in Alternates |-> b = a]

LEMMA OnlyIsLevels ==
  ASSUME NEW a \in Alternates
  PROVE  Only(a) \in Levels
  BY DEF Only, Levels

\* A legal source is the value the field shows to the multiplexers.
LEMMA FieldShowsSource ==
  ASSUME TypeOK, SrcLegal, NEW p \in Pins
  PROVE  srcsel(p) \in Alternates
<1>1. regs[p] \in Word
  BY DEF TypeOK
<1>2. regs[p].src \in 0..15
  BY <1>1 DEF Word
<1>3. NAlts \in Nat /\ SrcValues \in Nat \ {0} /\ NAlts < SrcValues
  BY TableAssumption, DatapathAssumption DEF AXIMUX_MAX_ALTS
<1>4. regs[p].src \in 0..NAlts
  BY <1>2, <1>3 DEF SrcLegal
<1>5. srcsel(p) = regs[p].src
  <2>1. regs[p].src \in Nat /\ regs[p].src < SrcValues
    BY <1>3, <1>4
  <2> QED
    BY <2>1, <1>3, SmallMod DEF srcsel
<1> QED
  BY <1>4, <1>5 DEF Alternates

\* Exactly one alternate drives the pad of a signal whose field names one.
LEMMA OneDriver ==
  ASSUME NEW p \in Pins, srcsel(p) \in Alternates, NEW b \in Alternates
  PROVE  Drives(p, b) <=> srcsel(p) = b
<1>1. ASSUME srcsel(p) = b PROVE Drives(p, b)
  BY <1>1 DEF Drives, sig_out, Multiplexer, Levels
<1>2. ASSUME Drives(p, b) PROVE srcsel(p) = b
  <2>1. Only(b) \in Levels
    BY OnlyIsLevels
  <2>2. sig_out(p, Only(b)) = Only(b)[b]
    BY <1>2, <2>1 DEF Drives
  <2>3. Only(b)[b] = TRUE /\ DOMAIN Only(b) = Alternates
    BY DEF Only
  <2>4. sig_out(p, Only(b))
    BY <2>2, <2>3
  <2>5. Only(b)[srcsel(p)]
    BY <2>4 DEF sig_out, Multiplexer
  <2> QED
    BY <2>5 DEF Only
<1> QED
  BY <1>1, <1>2

LEMMA OneHearer ==
  ASSUME NEW p \in Pins, ~shortsel(p), NEW b \in Alternates
  PROVE  Hears(p, b) <=> srcsel(p) = b
<1>1. ASSUME Hears(p, b) PROVE srcsel(p) = b
  <2>1. incoming(p, b, TRUE) = TRUE
    BY <1>1 DEF Hears
  <2> QED
    BY <2>1 DEF incoming
<1>2. ASSUME srcsel(p) = b PROVE Hears(p, b)
  BY <1>2 DEF Hears, incoming
<1> QED
  BY <1>1, <1>2

LEMMA LegalIsOneAlternate == TypeOK /\ SrcLegal => OneAlternate
<1> SUFFICES ASSUME TypeOK, SrcLegal, NEW p \in Pins
             PROVE  \E a \in Alternates :
                      /\ \A b \in Alternates : Drives(p, b) <=> a = b
                      /\ ~shortsel(p) => \A b \in Alternates : Hears(p, b) <=> a = b
                      /\ ~diren(p) => DirFollows(p, a)
  BY DEF OneAlternate
<1>1. srcsel(p) \in Alternates
  BY FieldShowsSource
<1>2. \A b \in Alternates : Drives(p, b) <=> srcsel(p) = b
  BY <1>1, OneDriver
<1>3. ~shortsel(p) => \A b \in Alternates : Hears(p, b) <=> srcsel(p) = b
  BY OneHearer
<1>4. ~diren(p) => DirFollows(p, srcsel(p))
  BY <1>1 DEF DirFollows, sig_dir, hw_dir_sig, Multiplexer, Levels
<1> QED
  BY <1>1, <1>2, <1>3, <1>4

\* Whatever consumers select and interrupt, at every moment exactly one
\* alternate drives each pad, and it is the one that hears and turns it.
THEOREM RoutingAgrees == PinctrlSpec => []OneAlternate
<1>1. PinctrlSpec => []PinctrlTypeOK
  BY PinctrlTypeCorrect
<1>2. PinctrlTypeOK => TypeOK
  BY DEF PinctrlTypeOK
<1>3. PinctrlSpec => []SrcLegal
  BY SourcesLegalUnderCore
<1>4. TypeOK /\ SrcLegal => OneAlternate
  BY LegalIsOneAlternate
<1> QED
  BY <1>1, <1>2, <1>3, <1>4, PTL

-----------------------------------------------------------------------------
\* What the ports of pin p see of a word with source a.
LEMMA SourceAtPads ==
  ASSUME TypeOK, SrcLegal, NEW p \in Pins, NEW a \in Alternates, regs[p].src = a
  PROVE  /\ srcsel(p) = a
         /\ Drives(p, a)
         /\ ~diren(p) => DirFollows(p, a)
         /\ diren(p) => DirHeld(p, dirctl(p))
         /\ shortsel(p) => \A b \in Alternates : Hears(p, b)
         /\ ~shortsel(p) => \A b \in Alternates : Hears(p, b) <=> a = b
<1>1. srcsel(p) = a
  <2>1. a \in Nat /\ SrcValues \in Nat \ {0} /\ a < SrcValues
    BY TableAssumption, DatapathAssumption DEF Alternates, AXIMUX_MAX_ALTS
  <2>2. QED
    BY <2>1, SmallMod DEF srcsel
<1>2. Drives(p, a) /\ (~shortsel(p) => \A b \in Alternates : Hears(p, b) <=> a = b)
  BY <1>1, OneDriver, OneHearer
<1>3. ~diren(p) => DirFollows(p, a)
  BY <1>1 DEF DirFollows, sig_dir, hw_dir_sig, Multiplexer, Levels
<1>4. diren(p) => DirHeld(p, dirctl(p))
  BY DEF DirHeld, sig_dir
<1>5. shortsel(p) => \A b \in Alternates : Hears(p, b)
  BY DEF Hears, incoming
<1>6. QED
  BY <1>1, <1>2, <1>3, <1>4, <1>5

LEMMA AppliedAtPads ==
  ASSUME TypeOK, SrcLegal, NEW n \in States, MuxApplied(n), ConfigsApplied(n),
         NEW p \in Pins, NEW a \in Alternates, Routes(n, p, a)
  PROVE  /\ Drives(p, a)
         /\ Asks(n, p, "DIREN", FALSE) => DirFollows(p, a)
         /\ \A v \in BOOLEAN :
              Asks(n, p, "DIREN", TRUE) /\ Asks(n, p, "DIRCTL", v) => DirHeld(p, v)
         /\ Asks(n, p, "SHORT", TRUE) => \A b \in Alternates : Hears(p, b)
         /\ Asks(n, p, "SHORT", FALSE) =>
              \A b \in Alternates : Hears(p, b) <=> a = b
<1>1. regs[p].src = a
  BY AppliedRoutes
<1>2. /\ Asks(n, p, "DIREN", FALSE) => ~diren(p)
      /\ Asks(n, p, "DIREN", TRUE) => diren(p)
      /\ Asks(n, p, "SHORT", TRUE) => shortsel(p)
      /\ Asks(n, p, "SHORT", FALSE) => ~shortsel(p)
  BY AppliedAsks DEF diren, shortsel
<1>3. \A v \in BOOLEAN : Asks(n, p, "DIRCTL", v) => dirctl(p) = v
  BY AppliedAsks DEF dirctl
<1>4. QED
  BY <1>1, <1>2, <1>3, SourceAtPads

\* From the consumer to the pad: while a consumer sits in a state, its pads are
\* driven, turned and heard as the state says, whatever the others select
\* (aximux_set_mux, aximux_pinconf_set and the multiplexers of mux_gen).
THEOREM PadsAsSelected == PinctrlSpec => []PadsSettled
<1>1. ASSUME PinctrlTypeOK, SrcLegal, SettledApplied
      PROVE  PadsSettled
  <2>1. TypeOK
    BY <1>1 DEF PinctrlTypeOK
  <2>2. \A c \in Consumers : state[c] # None => state[c] \in States
    BY <1>1 DEF PinctrlTypeOK
  <2>3. QED
    BY <1>1, <2>1, <2>2, AppliedAtPads DEF PadsSettled, SettledApplied
<1>2. QED
  BY <1>1, PinctrlTypeCorrect, SourcesLegalUnderCore, SettledProgrammed, PTL
=============================================================================
