--------------------------- MODULE AximuxQemu_proofs ---------------------------
(***************************************************************************)
(* The driver on the QEMU device, for any number of signals and alternates *)
(* that the device can be made with, any tables and any threads: what the  *)
(* words show of their fields is a behaviour of AximuxDriver, whose        *)
(* theorems therefore hold of the device's words.                          *)
(***************************************************************************)
EXTENDS AximuxQemu, TLAPS

\* The driver on the fields of the device's words, with its theorems.
Fields == INSTANCE AximuxDriver_proofs WITH
  Pins <- DriverPins, NAlts <- nalts,
  regs <- [p \in DriverPins |-> Decode(srcsel[p])],
  val  <- [t \in Threads |-> Decode(word[t])]

LEMMA FieldsTables ==
  /\ DriverPins \subseteq 0..(Fields!AXIMUX_MAX_PINS - 1)
  /\ nalts \in 1..Fields!AXIMUX_MAX_ALTS
  /\ GroupPins \in [Groups -> Seq(DriverPins)]
  /\ DOMAIN MuxVals = Functions
  /\ \A f \in Functions :
       /\ DOMAIN MuxVals[f] \subseteq Groups
       /\ \A g \in DOMAIN MuxVals[f] : MuxVals[f][g] \in Seq(Nat)
  /\ ConfigLists \subseteq Seq(Fields!Config)
  /\ \A cl \in ConfigLists : cl # <<>>
BY RealizeAssumption, TablesAssumption
   DEF DriverPins, AXIMUX_MAX_PINS, Fields!AXIMUX_MAX_PINS, Fields!AXIMUX_MAX_ALTS,
       Config, Fields!Config, Params, Fields!Params, ControlBits, Fields!ControlBits

\* Driver and Fields are the same module twice.
LEMMA SameCalls ==
  ASSUME NEW t
  PROVE  /\ Driver!Pin(t) = Fields!Pin(t)
         /\ Driver!MuxVal(t) = Fields!MuxVal(t)
         /\ Driver!Cfg(t) = Fields!Cfg(t)
         /\ \A op : Driver!InLoop(t, op) <=> Fields!InLoop(t, op)
         /\ \A op : Driver!AtWrite(t, op) <=> Fields!AtWrite(t, op)
BY DEF Driver!Pin, Fields!Pin, Driver!MuxVal, Fields!MuxVal, Driver!Cfg, Fields!Cfg,
       Driver!InLoop, Fields!InLoop, Driver!AtWrite, Fields!AtWrite

LEMMA SameEnter == \A t : Driver!Enter(t) <=> Fields!Enter(t)
BY DEF Driver!Enter, Fields!Enter, Driver!SetMux, Fields!SetMux,
       Driver!PinconfSet, Fields!PinconfSet, Driver!Listed, Fields!Listed,
       Driver!NoCall, Fields!NoCall

LEMMA SameSteps ==
  \A t : /\ Driver!ConfigReject(t) <=> Fields!ConfigReject(t)
         /\ Driver!CallDone(t) <=> Fields!CallDone(t)
         /\ Driver!Return(t) <=> Fields!Return(t)
BY DEF Driver!ConfigReject, Fields!ConfigReject, Driver!CallDone, Fields!CallDone,
       Driver!Return, Fields!Return, Driver!ReturnWith, Fields!ReturnWith,
       Driver!InLoop, Fields!InLoop, Driver!Cfg, Fields!Cfg,
       Driver!NoCall, Fields!NoCall

LEMMA SameDriver ==
  /\ Driver!DriverInit <=> Fields!DriverInit
  /\ Driver!driverVars = Fields!driverVars
  /\ Driver!Next <=> Fields!Next
BY DEF Driver!DriverInit, Fields!DriverInit, Driver!driverVars, Fields!driverVars,
       Driver!ResetWord, Fields!ResetWord,
       Driver!Next, Fields!Next, Driver!DriverStep, Fields!DriverStep,
       Driver!MuxReject, Fields!MuxReject, Driver!MuxRead, Fields!MuxRead,
       Driver!MuxWrite, Fields!MuxWrite, Driver!ConfigRead, Fields!ConfigRead,
       Driver!ConfigWrite, Fields!ConfigWrite,
       Driver!ConfigReject, Fields!ConfigReject, Driver!CallDone, Fields!CallDone,
       Driver!Return, Fields!Return, Driver!ReturnWith, Fields!ReturnWith,
       Driver!ReadReg, Fields!ReadReg, Driver!MuxLegal, Fields!MuxLegal,
       Driver!AXIMUX_MAX_PINS, Fields!AXIMUX_MAX_PINS,
       Driver!SetSrc, Fields!SetSrc, Driver!SetControl, Fields!SetControl,
       Driver!InLoop, Fields!InLoop, Driver!AtWrite, Fields!AtWrite,
       Driver!Pin, Fields!Pin, Driver!MuxVal, Fields!MuxVal, Driver!Cfg, Fields!Cfg,
       Driver!Enter, Fields!Enter, Driver!SetMux, Fields!SetMux,
       Driver!PinconfSet, Fields!PinconfSet, Driver!Listed, Fields!Listed,
       Driver!NoCall, Fields!NoCall

-----------------------------------------------------------------------------
(***************************************************************************)
(* Masks                                                                   *)
(***************************************************************************)

\* A word of the four fields, as bits: bit 4 and those above bit 7 are 0.
Plain(w) == w \in 0..255 /\ (w \div 16) % 2 = 0

\* w is the number whose fields are these.
Joined(src, short, diren, dirctl) == src + 32 * short + 64 * diren + 128 * dirctl
HasBits(w, src, short, diren, dirctl) ==
  /\ src \in 0..15 /\ short \in 0..1 /\ diren \in 0..1 /\ dirctl \in 0..1
  /\ w = Joined(src, short, diren, dirctl)

\* The control bits that are 1.
Bits(short, diren, dirctl) ==
  {x \in ControlBits : \/ x = "SHORT" /\ short = 1
                       \/ x = "DIREN" /\ diren = 1
                       \/ x = "DIRCTL" /\ dirctl = 1}

LEMMA BitsNumbers ==
  ASSUME NEW w, NEW src, NEW a, NEW b, NEW c, HasBits(w, src, a, b, c)
  PROVE  /\ w \in 0..255 /\ (w \div 16) % 2 = 0 /\ w % 16 = src
         /\ 16 * (w \div 16) = Joined(0, a, b, c)
         /\ (w \div 32) % 2 = a /\ (w \div 64) % 2 = b /\ (w \div 128) % 2 = c
<1>1. ASSUME NEW s \in 0..15, NEW d \in 0..1, NEW e \in 0..1, NEW f \in 0..1,
             NEW v \in Nat, v = s + 32 * d + 64 * e + 128 * f
      PROVE  /\ v \in 0..255 /\ (v \div 16) % 2 = 0 /\ v % 16 = s
             /\ 16 * (v \div 16) = 32 * d + 64 * e + 128 * f
             /\ (v \div 32) % 2 = d /\ (v \div 64) % 2 = e /\ (v \div 128) % 2 = f
  BY <1>1, Z3
<1>2. /\ src \in 0..15 /\ a \in 0..1 /\ b \in 0..1 /\ c \in 0..1
      /\ w = src + 32 * a + 64 * b + 128 * c
  BY DEF HasBits, Joined
<1>3. w \in Nat
  BY <1>2
<1>4. Joined(0, a, b, c) = 32 * a + 64 * b + 128 * c
  BY <1>2 DEF Joined
<1>5. QED
  BY <1>1, <1>2, <1>3, <1>4

LEMMA PlainBits ==
  ASSUME NEW w, Plain(w)
  PROVE  \E src, a, b, c : HasBits(w, src, a, b, c)
<1>1. ASSUME NEW v \in Nat, v \in 0..255, (v \div 16) % 2 = 0
      PROVE  /\ v % 16 \in 0..15 /\ (v \div 32) % 2 \in 0..1
             /\ (v \div 64) % 2 \in 0..1 /\ (v \div 128) % 2 \in 0..1
             /\ v = (v % 16) + 32 * ((v \div 32) % 2) + 64 * ((v \div 64) % 2)
                           + 128 * ((v \div 128) % 2)
  BY <1>1, Z3
<1>2. w \in Nat /\ w \in 0..255 /\ (w \div 16) % 2 = 0
  BY DEF Plain
<1>3. HasBits(w, w % 16, (w \div 32) % 2, (w \div 64) % 2, (w \div 128) % 2)
  BY <1>1, <1>2 DEF HasBits, Joined
<1>4. QED
  BY <1>3

\* The fields of a word are those of its bits, in both directions.
LEMMA BitsFields ==
  ASSUME NEW w, NEW src, NEW a, NEW b, NEW c, HasBits(w, src, a, b, c)
  PROVE  /\ Plain(w) /\ w % 16 = src
         /\ Decode(w) = [src |-> src, ctl |-> Bits(a, b, c)]
         /\ w = Encode(Decode(w))
<1>1. w \in 0..255 /\ (w \div 16) % 2 = 0 /\ w % 16 = src
  BY BitsNumbers
<1>2. (w \div 32) % 2 = a /\ (w \div 64) % 2 = b /\ (w \div 128) % 2 = c
  BY BitsNumbers
<1>3. {x \in ControlBits : IsSet(w, BitOf[x])} = Bits(a, b, c)
  BY <1>2 DEF IsSet, BitOf, ControlBits, Bits
<1>4. Decode(w) = [src |-> src, ctl |-> Bits(a, b, c)]
  BY <1>1, <1>3 DEF Decode
<1>5. /\ "SHORT" \in Bits(a, b, c) <=> a = 1
      /\ "DIREN" \in Bits(a, b, c) <=> b = 1
      /\ "DIRCTL" \in Bits(a, b, c) <=> c = 1
  BY DEF Bits, ControlBits
<1>6. Encode([src |-> src, ctl |-> Bits(a, b, c)]) = w
  BY <1>5 DEF Encode, HasBits, Joined
<1>7. Plain(w)
  BY <1>1 DEF Plain
<1>8. QED
  BY <1>1, <1>4, <1>6, <1>7

LEMMA PlainEncodes ==
  ASSUME NEW w, Plain(w)
  PROVE  w = Encode(Decode(w))
BY PlainBits, BitsFields

\* aximux_set_src on a word is SetSrc on its fields.
LEMMA SrcMask ==
  ASSUME NEW w, Plain(w), NEW s \in Nat
  PROVE  /\ Plain(WithSrc(w, s))
         /\ WithSrc(w, s) % 16 = s % 16
         /\ Decode(WithSrc(w, s)) = SetSrc(Decode(w), s)
<1>1. PICK src, a, b, c : HasBits(w, src, a, b, c)
  BY PlainBits
<1>2. HasBits(WithSrc(w, s), s % 16, a, b, c)
  <2>1. 16 * (w \div 16) = Joined(0, a, b, c)
    BY <1>1, BitsNumbers
  <2>2. a \in 0..1 /\ b \in 0..1 /\ c \in 0..1
    BY <1>1 DEF HasBits
  <2>3. s % 16 \in 0..15
    OBVIOUS
  <2>4. QED
    BY <2>1, <2>2, <2>3 DEF WithSrc, HasBits, Joined
<1>3. Decode(w) = [src |-> src, ctl |-> Bits(a, b, c)]
  BY <1>1, BitsFields
<1>4. /\ Plain(WithSrc(w, s))
      /\ WithSrc(w, s) % 16 = s % 16
      /\ Decode(WithSrc(w, s)) = [src |-> s % 16, ctl |-> Bits(a, b, c)]
  BY <1>2, BitsFields
<1>5. SetSrc(Decode(w), s) = [src |-> s % 16, ctl |-> Bits(a, b, c)]
  BY <1>3 DEF SetSrc
<1>6. QED
  BY <1>4, <1>5

\* The switch of aximux_pinconf_set on a word is SetControl on its fields.
LEMMA ControlMask ==
  ASSUME NEW w, Plain(w), NEW cfg \in Config, cfg.param \in ControlBits
  PROVE  /\ Plain(WithControl(w, cfg))
         /\ WithControl(w, cfg) % 16 = w % 16
         /\ Decode(WithControl(w, cfg)) = SetControl(Decode(w), cfg)
<1>1. PICK src, a, b, c : HasBits(w, src, a, b, c)
  BY PlainBits
<1> DEFINE bit == IF cfg.arg THEN 1 ELSE 0
<1>2. bit \in 0..1 /\ src \in 0..15 /\ a \in 0..1 /\ b \in 0..1 /\ c \in 0..1
  BY <1>1 DEF HasBits
<1>3. /\ IsSet(w, 32) <=> a = 1
      /\ IsSet(w, 64) <=> b = 1
      /\ IsSet(w, 128) <=> c = 1
  BY <1>1, BitsNumbers DEF IsSet
<1>4. Decode(w) = [src |-> src, ctl |-> Bits(a, b, c)] /\ w % 16 = src
  BY <1>1, BitsFields
<1>5. ASSUME NEW d, NEW e, NEW f, HasBits(WithControl(w, cfg), src, d, e, f),
             Bits(d, e, f) = IF cfg.arg THEN Bits(a, b, c) \cup {cfg.param}
                                        ELSE Bits(a, b, c) \ {cfg.param}
      PROVE  /\ Plain(WithControl(w, cfg))
             /\ WithControl(w, cfg) % 16 = w % 16
             /\ Decode(WithControl(w, cfg)) = SetControl(Decode(w), cfg)
  <2>1. /\ Plain(WithControl(w, cfg))
        /\ WithControl(w, cfg) % 16 = src
        /\ Decode(WithControl(w, cfg)) = [src |-> src, ctl |-> Bits(d, e, f)]
    BY <1>5, BitsFields
  <2>2. SetControl(Decode(w), cfg) = [src |-> src, ctl |-> Bits(d, e, f)]
    <3>1. \A S : SetControl([src |-> src, ctl |-> S], cfg) =
                   [src |-> src, ctl |-> IF cfg.arg THEN S \cup {cfg.param}
                                                    ELSE S \ {cfg.param}]
      BY DEF SetControl
    <3>2. QED
      BY <1>4, <1>5, <3>1
  <2>3. QED
    BY <1>4, <2>1, <2>2
<1>6. CASE cfg.param = "SHORT"
  <2>1. WithControl(w, cfg) = IF cfg.arg THEN BitSet(w, 32) ELSE BitCleared(w, 32)
    BY <1>6 DEF WithControl, BitOf
  <2>2. HasBits(WithControl(w, cfg), src, bit, b, c)
    BY <1>1, <1>2, <1>3, <2>1 DEF HasBits, BitSet, BitCleared, Joined
  <2>3. Bits(bit, b, c) = IF cfg.arg THEN Bits(a, b, c) \cup {"SHORT"}
                        ELSE Bits(a, b, c) \ {"SHORT"}
    BY DEF Bits, ControlBits
  <2> HIDE DEF bit
  <2>4. QED
    BY <1>5, <1>6, <2>2, <2>3
<1>7. CASE cfg.param = "DIREN"
  <2>1. WithControl(w, cfg) = IF cfg.arg THEN BitSet(w, 64) ELSE BitCleared(w, 64)
    BY <1>7 DEF WithControl, BitOf
  <2>2. HasBits(WithControl(w, cfg), src, a, bit, c)
    BY <1>1, <1>2, <1>3, <2>1 DEF HasBits, BitSet, BitCleared, Joined
  <2>3. Bits(a, bit, c) = IF cfg.arg THEN Bits(a, b, c) \cup {"DIREN"}
                        ELSE Bits(a, b, c) \ {"DIREN"}
    BY DEF Bits, ControlBits
  <2> HIDE DEF bit
  <2>4. QED
    BY <1>5, <1>7, <2>2, <2>3
<1>8. CASE cfg.param = "DIRCTL"
  <2>1. WithControl(w, cfg) = IF cfg.arg THEN BitSet(w, 128) ELSE BitCleared(w, 128)
    BY <1>8 DEF WithControl, BitOf
  <2>2. HasBits(WithControl(w, cfg), src, a, b, bit)
    BY <1>1, <1>2, <1>3, <2>1 DEF HasBits, BitSet, BitCleared, Joined
  <2>3. Bits(a, b, bit) = IF cfg.arg THEN Bits(a, b, c) \cup {"DIRCTL"}
                        ELSE Bits(a, b, c) \ {"DIRCTL"}
    BY DEF Bits, ControlBits
  <2> HIDE DEF bit
  <2>4. QED
    BY <1>5, <1>8, <2>2, <2>3
<1>9. QED
  BY <1>6, <1>7, <1>8 DEF ControlBits
-----------------------------------------------------------------------------
(***************************************************************************)
(* Accesses                                                                *)
(***************************************************************************)
LEMMA SameWords ==
  /\ Fields!AXIMUX_MAX_PINS = AXIMUX_MAX_PINS
  /\ Fields!ControlBits = ControlBits /\ Fields!Config = Config
  /\ Fields!ResetWord = ResetWord
  /\ \A w, s : Fields!SetSrc(w, s) = SetSrc(w, s)
  /\ \A w, c : Fields!SetControl(w, c) = SetControl(w, c)
BY DEF Fields!AXIMUX_MAX_PINS, AXIMUX_MAX_PINS, Fields!ControlBits, ControlBits,
       Fields!Config, Config, Fields!Params, Params, Fields!ResetWord, ResetWord,
       Fields!SetSrc, SetSrc, Fields!SetControl, SetControl

\* The number of alternates that probe reads back is the device's.
LEMMA AltsReadBack == muxinfo = nalts * 256 + npins => HwAlts = nalts
<1>1. ASSUME NEW m, m = nalts * 256 + npins
      PROVE  (m \div 256) % 256 = nalts
  BY <1>1, RealizeAssumption DEF AXIMUX_MAX_PINS
<1>2. MmioRead(AXIMUX_REG_MUXINFO) = muxinfo
  BY DEF MmioRead
<1>3. nalts \in 1..AXIMUX_MAX_ALTS
  BY RealizeAssumption DEF AXIMUX_MAX_ALTS
<1>4. QED
  BY <1>1, <1>2, <1>3 DEF HwAlts

\* A signal's register is mapped, and is word p of srcsel.
LEMMA RegisterOfPin ==
  ASSUME NEW p \in DriverPins
  PROVE  /\ MmioRead(AXIMUX_REG(p)) = srcsel[p]
         /\ \A w : MmioWrite(AXIMUX_REG(p), w) =>
              srcsel' = [srcsel EXCEPT ![p] = w] /\ muxinfo' = muxinfo
         /\ p \in 0..(AXIMUX_MAX_PINS - 1)
<1>1. p \in Nat /\ p < npins /\ npins \in Nat /\ npins <= 32
  BY RealizeAssumption DEF DriverPins, AXIMUX_MAX_PINS
<1>2. ASSUME NEW q \in Nat, q < 32
      PROVE  4 * q < 128 /\ (4 * q) % 4 = 0 /\ (4 * q) \div 4 = q
  BY <1>2, Z3
<1>3. Mapped(AXIMUX_REG(p)) /\ AXIMUX_REG(p) # AXIMUX_REG_MUXINFO
      /\ AXIMUX_REG(p) \div 4 = p
  <2>1. p < 32
    BY <1>1
  <2>2. 4 * p < 128 /\ (4 * p) % 4 = 0 /\ (4 * p) \div 4 = p
    BY <1>1, <1>2, <2>1
  <2>3. QED
    BY <1>1, <2>2 DEF Mapped, AXIMUX_REG, AXIMUX_REG_MUXINFO
<1>4. MmioRead(AXIMUX_REG(p)) = srcsel[p]
  BY <1>3, Zenon DEF MmioRead
<1>5. \A w : MmioWrite(AXIMUX_REG(p), w) =>
        srcsel' = [srcsel EXCEPT ![p] = w] /\ muxinfo' = muxinfo
  BY <1>3, Zenon DEF MmioWrite
<1>6. p \in 0..(AXIMUX_MAX_PINS - 1)
  BY <1>1 DEF AXIMUX_MAX_PINS
<1>7. QED
  BY <1>4, <1>5, <1>6

-----------------------------------------------------------------------------
(***************************************************************************)
(* The invariant                                                           *)
(***************************************************************************)

\* A word of the four fields whose source the hardware has.
Held(w) == Plain(w) /\ w % 16 <= nalts

WordsHeld ==
  /\ \A i \in 0..(AXIMUX_MAX_PINS - 1) :
       Held(srcsel[i]) /\ (i >= npins => srcsel[i] = 0)
  /\ \A t \in Threads : Held(word[t])

QemuInv == QemuTypeOK /\ WordsHeld /\ Fields!DriverInv

LEMMA ZeroHeld == Held(0) /\ Decode(0) = ResetWord
<1>1. HasBits(0, 0, 0, 0, 0)
  BY DEF HasBits, Joined
<1>2. Plain(0) /\ 0 % 16 = 0 /\ Decode(0) = [src |-> 0, ctl |-> Bits(0, 0, 0)]
  BY <1>1, BitsFields
<1>3. Bits(0, 0, 0) = {}
  BY DEF Bits, ControlBits
<1>4. 0 <= nalts
  BY RealizeAssumption
<1>5. QED
  BY <1>2, <1>3, <1>4 DEF Held, ResetWord

\* What a write stores is held again, and reads as the driver's fields.
LEMMA StoredSrc ==
  ASSUME NEW w, Held(w), NEW s \in Nat, s <= nalts
  PROVE  Held(WithSrc(w, s)) /\ Decode(WithSrc(w, s)) = SetSrc(Decode(w), s)
<1>1. s % 16 = s
  BY RealizeAssumption
<1>2. QED
  BY <1>1, SrcMask DEF Held

LEMMA StoredControl ==
  ASSUME NEW w, Held(w), NEW cfg \in Config, cfg.param \in ControlBits
  PROVE  /\ Held(WithControl(w, cfg))
         /\ Decode(WithControl(w, cfg)) = SetControl(Decode(w), cfg)
BY ControlMask DEF Held

\* What the invariant says of the call that a thread is in.
LEMMA CallOfThread ==
  ASSUME QemuInv, NEW t \in Threads
  PROVE  /\ call[t].i \in Nat \ {0} /\ call[t].j \in Nat \ {0}
         /\ call[t].pins \in Seq(DriverPins)
         /\ call[t].vals \in Seq(Nat) /\ call[t].cfgs \in Seq(Config)
         /\ call[t].op = "set_mux" => Len(call[t].vals) = Len(call[t].pins)
         /\ call[t].op = "pinconf_set" => call[t].j <= Len(call[t].cfgs)
         /\ call[t].at = "write" => call[t].i <= Len(call[t].pins)
<1>1. call \in [Threads -> Fields!Call]
  BY DEF QemuInv, Fields!DriverInv, Fields!TypeOK
<1>2. call[t] \in Fields!Call
  BY <1>1
<1>3. /\ call[t].op = "set_mux" => Len(call[t].vals) = Len(call[t].pins)
      /\ call[t].op = "pinconf_set" => call[t].j <= Len(call[t].cfgs)
      /\ call[t].at = "write" => call[t].i <= Len(call[t].pins)
  BY DEF QemuInv, Fields!DriverInv, Fields!TypeOK
<1>4. QED
  BY <1>2, <1>3, SameWords DEF Fields!Call
LEMMA PinAndValue ==
  ASSUME QemuInv, NEW t \in Threads, call[t].i <= Len(call[t].pins)
  PROVE  /\ Driver!Pin(t) \in DriverPins
         /\ call[t].op = "set_mux" => Driver!MuxVal(t) \in Nat
         /\ call[t].op = "pinconf_set" => Driver!Cfg(t) \in Config
<1>1. call[t].i \in 1..Len(call[t].pins)
  BY CallOfThread
<1>2. Driver!Pin(t) \in DriverPins
  BY <1>1, CallOfThread DEF Driver!Pin
<1>3. CASE call[t].op = "set_mux"
  <2>1. call[t].i \in 1..Len(call[t].vals) /\ call[t].vals \in Seq(Nat)
    BY <1>1, <1>3, CallOfThread
  <2>2. QED
    BY <1>2, <1>3, <2>1 DEF Driver!MuxVal
<1>4. CASE call[t].op = "pinconf_set"
  <2>1. call[t].j \in 1..Len(call[t].cfgs) /\ call[t].cfgs \in Seq(Config)
    BY <1>4, CallOfThread
  <2>2. QED
    BY <1>2, <1>4, <2>1 DEF Driver!Cfg
<1>5. QED
  BY <1>2, <1>3, <1>4

\* Each access is the access of AximuxDriver to the fields.
FieldWords == [p \in DriverPins |-> Decode(srcsel[p])]
FieldVals == [t \in Threads |-> Decode(word[t])]

\* A word stored, or read, is its fields stored, or read.
LEMMA FieldsAfter ==
  ASSUME QemuTypeOK
  PROVE  /\ \A p \in DriverPins : \A w :
              srcsel' = [srcsel EXCEPT ![p] = w] =>
                FieldWords' = [FieldWords EXCEPT ![p] = Decode(w)]
         /\ \A t \in Threads : \A w :
              word' = [word EXCEPT ![t] = w] =>
                FieldVals' = [FieldVals EXCEPT ![t] = Decode(w)]
         /\ srcsel' = srcsel => FieldWords' = FieldWords
         /\ word' = word => FieldVals' = FieldVals
<1>1. /\ DOMAIN srcsel = 0..(AXIMUX_MAX_PINS - 1)
      /\ DOMAIN word = Threads
  BY DEF QemuTypeOK
<1>2. DriverPins \subseteq DOMAIN srcsel
  BY <1>1, RealizeAssumption DEF DriverPins, AXIMUX_MAX_PINS
<1>3. ASSUME NEW p \in DriverPins, NEW w, srcsel' = [srcsel EXCEPT ![p] = w]
      PROVE  FieldWords' = [FieldWords EXCEPT ![p] = Decode(w)]
  <2>1. \A q \in DriverPins : srcsel'[q] = IF q = p THEN w ELSE srcsel[q]
    BY <1>2, <1>3
  <2>2. QED
    BY <2>1 DEF FieldWords
<1>4. ASSUME NEW t \in Threads, NEW w, word' = [word EXCEPT ![t] = w]
      PROVE  FieldVals' = [FieldVals EXCEPT ![t] = Decode(w)]
  <2>1. \A u \in Threads : word'[u] = IF u = t THEN w ELSE word[u]
    BY <1>1, <1>4
  <2>2. QED
    BY <2>1 DEF FieldVals
<1>5. /\ srcsel' = srcsel => FieldWords' = FieldWords
      /\ word' = word => FieldVals' = FieldVals
  BY DEF FieldWords, FieldVals
<1>6. QED
  BY <1>3, <1>4, <1>5

LEMMA ReadStep ==
  ASSUME QemuInv, NEW t \in Threads, ReadWord(t)
  PROVE  Fields!DriverStep(t) /\ WordsHeld' /\ QemuTypeOK'
<1>1. /\ call[t].i <= Len(call[t].pins)
      /\ word' = [word EXCEPT ![t] = MmioRead(AXIMUX_REG(Driver!Pin(t)))]
      /\ call' = [call EXCEPT ![t].at = "write"]
      /\ srcsel' = srcsel /\ muxinfo' = muxinfo
  BY DEF ReadWord, Driver!InLoop
<1>2. Driver!Pin(t) \in DriverPins
  BY <1>1, PinAndValue
<1>3. word' = [word EXCEPT ![t] = srcsel[Driver!Pin(t)]]
  BY <1>1, <1>2, RegisterOfPin
<1>4. /\ FieldVals' = [FieldVals EXCEPT ![t] = FieldWords[Driver!Pin(t)]]
      /\ FieldWords' = FieldWords
  <2>1. FieldWords[Driver!Pin(t)] = Decode(srcsel[Driver!Pin(t)])
    BY <1>2 DEF FieldWords
  <2>2. FieldVals' = [FieldVals EXCEPT ![t] = Decode(srcsel[Driver!Pin(t)])]
    BY <1>3, FieldsAfter, Zenon DEF QemuInv
  <2>3. FieldWords' = FieldWords
    BY <1>1 DEF FieldWords
  <2>4. QED
    BY <2>1, <2>2, <2>3
<1>5. Fields!ReadReg(t)
  BY <1>1, <1>4, SameCalls DEF Fields!ReadReg, FieldWords, FieldVals
<1>6. HwAlts = nalts
  BY AltsReadBack DEF QemuInv, QemuTypeOK
<1>7. Fields!MuxRead(t) \/ Fields!ConfigRead(t)
  <2>1. CASE Driver!InLoop(t, "set_mux") /\ MuxValLegal(t)
    <3>1. Fields!InLoop(t, "set_mux") /\ Fields!MuxLegal(Fields!Pin(t), Fields!MuxVal(t))
      BY <1>6, <2>1, SameCalls, SameWords DEF MuxValLegal, Fields!MuxLegal
    <3>2. QED
      BY <1>5, <3>1 DEF Fields!MuxRead
  <2>2. CASE Driver!InLoop(t, "pinconf_set") /\ Driver!Cfg(t).param # "GENERIC"
    BY <1>5, <2>2, SameCalls DEF Fields!ConfigRead
  <2>3. QED
    BY <2>1, <2>2 DEF ReadWord
<1>8. WordsHeld' /\ QemuTypeOK'
  <2>1. Driver!Pin(t) \in 0..(AXIMUX_MAX_PINS - 1)
    BY <1>2, RegisterOfPin
  <2>2. Held(srcsel[Driver!Pin(t)]) /\ srcsel[Driver!Pin(t)] \in 0..255
    BY <2>1 DEF QemuInv, WordsHeld, QemuTypeOK
  <2>3. \A u \in Threads : word'[u] = IF u = t THEN srcsel[Driver!Pin(t)] ELSE word[u]
    BY <1>3 DEF QemuInv, QemuTypeOK
  <2>4. word' \in [Threads -> 0..255]
    BY <1>3, <2>2 DEF QemuInv, QemuTypeOK
  <2>5. QED
    BY <1>1, <2>2, <2>3, <2>4 DEF QemuInv, WordsHeld, QemuTypeOK
<1>9. QED
  BY <1>7, <1>8 DEF Fields!DriverStep

\* A write of either callback, at a signal of its call.
LEMMA WriteStep ==
  ASSUME QemuInv, NEW t \in Threads, NEW p \in DriverPins, NEW w,
         Held(w), MmioWrite(AXIMUX_REG(p), w), word' = [word EXCEPT ![t] = 0]
  PROVE  /\ FieldWords' = [FieldWords EXCEPT ![p] = Decode(w)]
         /\ FieldVals' = [FieldVals EXCEPT ![t] = ResetWord]
         /\ WordsHeld' /\ QemuTypeOK'
<1>1. srcsel' = [srcsel EXCEPT ![p] = w] /\ muxinfo' = muxinfo
      /\ p \in 0..(AXIMUX_MAX_PINS - 1)
  BY RegisterOfPin
<1>2. /\ FieldWords' = [FieldWords EXCEPT ![p] = Decode(w)]
      /\ FieldVals' = [FieldVals EXCEPT ![t] = ResetWord]
  BY <1>1, FieldsAfter, ZeroHeld DEF QemuInv
<1>3. w \in 0..255
  BY DEF Held, Plain
<1>4. QemuTypeOK'
  <2>1. srcsel' \in [0..(AXIMUX_MAX_PINS - 1) -> 0..255]
    BY <1>1, <1>3 DEF QemuInv, QemuTypeOK
  <2>2. word' \in [Threads -> 0..255]
    BY DEF QemuInv, QemuTypeOK
  <2>3. QED
    BY <1>1, <2>1, <2>2 DEF QemuInv, QemuTypeOK
<1>5. WordsHeld'
  <2>1. \A i \in 0..(AXIMUX_MAX_PINS - 1) :
          srcsel'[i] = IF i = p THEN w ELSE srcsel[i]
    BY <1>1 DEF QemuInv, QemuTypeOK
  <2>2. \A u \in Threads : word'[u] = IF u = t THEN 0 ELSE word[u]
    BY DEF QemuInv, QemuTypeOK
  <2>3. ~(p >= npins)
    BY RealizeAssumption DEF DriverPins, AXIMUX_MAX_PINS
  <2>4. QED
    BY <2>1, <2>2, <2>3, ZeroHeld DEF QemuInv, WordsHeld
<1>6. QED
  BY <1>2, <1>4, <1>5

LEMMA WriteSrcStep ==
  ASSUME QemuInv, NEW t \in Threads, WriteSrc(t)
  PROVE  Fields!DriverStep(t) /\ WordsHeld' /\ QemuTypeOK'
<1>1. /\ call[t].op = "set_mux" /\ call[t].at = "write"
      /\ MmioWrite(AXIMUX_REG(Driver!Pin(t)), WithSrc(word[t], Driver!MuxVal(t)))
      /\ call' = [call EXCEPT ![t].at = "loop", ![t].i = @ + 1]
      /\ word' = [word EXCEPT ![t] = 0]
  BY DEF WriteSrc, Driver!AtWrite
<1>2. call[t].i <= Len(call[t].pins)
  BY <1>1, CallOfThread
<1>3. Driver!Pin(t) \in DriverPins /\ Driver!MuxVal(t) \in Nat
  BY <1>1, <1>2, PinAndValue
<1>4. Driver!MuxVal(t) <= nalts
  <2>1. Fields!MuxLegal(Fields!Pin(t), Fields!MuxVal(t))
    BY <1>1 DEF QemuInv, Fields!DriverInv, Fields!WriteChecked
  <2>2. QED
    BY <2>1, SameCalls DEF Fields!MuxLegal
<1>5. Held(word[t])
  BY DEF QemuInv, WordsHeld
<1> DEFINE w == WithSrc(word[t], Driver!MuxVal(t))
<1>6. Held(w) /\ Decode(w) = SetSrc(Decode(word[t]), Driver!MuxVal(t))
  BY <1>3, <1>4, <1>5, StoredSrc
<1> HIDE DEF w
<1>7. MmioWrite(AXIMUX_REG(Driver!Pin(t)), w)
  BY <1>1 DEF w
<1>8. /\ FieldWords' = [FieldWords EXCEPT ![Driver!Pin(t)] = Decode(w)]
      /\ FieldVals' = [FieldVals EXCEPT ![t] = ResetWord]
      /\ WordsHeld' /\ QemuTypeOK'
  BY <1>1, <1>3, <1>6, <1>7, WriteStep
<1>9. Decode(w) = Fields!SetSrc(FieldVals[t], Fields!MuxVal(t))
  <2>1. FieldVals[t] = Decode(word[t])
    BY DEF FieldVals
  <2>2. QED
    BY <1>6, <2>1, SameWords, SameCalls
<1>10. Fields!MuxWrite(t)
  BY <1>1, <1>8, <1>9, SameWords, SameCalls
     DEF Fields!MuxWrite, Fields!AtWrite, FieldWords, FieldVals
<1>11. QED
  BY <1>8, <1>10 DEF Fields!DriverStep

LEMMA WriteControlStep ==
  ASSUME QemuInv, NEW t \in Threads, WriteControl(t)
  PROVE  Fields!DriverStep(t) /\ WordsHeld' /\ QemuTypeOK'
<1>1. /\ call[t].op = "pinconf_set" /\ call[t].at = "write"
      /\ MmioWrite(AXIMUX_REG(Driver!Pin(t)), WithControl(word[t], Driver!Cfg(t)))
      /\ word' = [word EXCEPT ![t] = 0]
  BY DEF WriteControl, Driver!AtWrite
<1>2. call[t].i <= Len(call[t].pins)
  BY <1>1, CallOfThread
<1>3. Driver!Pin(t) \in DriverPins /\ Driver!Cfg(t) \in Config
  BY <1>1, <1>2, PinAndValue
<1>4. Driver!Cfg(t).param \in ControlBits
  <2>1. Fields!Cfg(t).param \in Fields!ControlBits
    BY <1>1 DEF QemuInv, Fields!DriverInv, Fields!WriteChecked
  <2>2. QED
    BY <2>1, SameCalls, SameWords
<1>5. Held(word[t])
  BY DEF QemuInv, WordsHeld
<1> DEFINE w == WithControl(word[t], Driver!Cfg(t))
<1>6. Held(w) /\ Decode(w) = SetControl(Decode(word[t]), Driver!Cfg(t))
  BY <1>3, <1>4, <1>5, StoredControl
<1> HIDE DEF w
<1>7. MmioWrite(AXIMUX_REG(Driver!Pin(t)), w)
  BY <1>1 DEF w
<1>8. /\ FieldWords' = [FieldWords EXCEPT ![Driver!Pin(t)] = Decode(w)]
      /\ FieldVals' = [FieldVals EXCEPT ![t] = ResetWord]
      /\ WordsHeld' /\ QemuTypeOK'
  BY <1>1, <1>3, <1>6, <1>7, WriteStep
<1>9. Decode(w) = Fields!SetControl(FieldVals[t], Fields!Cfg(t))
  <2>1. FieldVals[t] = Decode(word[t])
    BY DEF FieldVals
  <2>2. QED
    BY <1>6, <2>1, SameWords, SameCalls
<1>10. \/ /\ call[t].j < Len(call[t].cfgs)
          /\ call' = [call EXCEPT ![t].at = "loop", ![t].j = @ + 1]
       \/ /\ call[t].j >= Len(call[t].cfgs)
          /\ call' = [call EXCEPT ![t].at = "loop", ![t].i = @ + 1, ![t].j = 1]
  <2>1. call[t].j \in Nat /\ Len(call[t].cfgs) \in Nat
    BY CallOfThread
  <2>2. call[t].j < Len(call[t].cfgs) \/ call[t].j >= Len(call[t].cfgs)
    BY <2>1
  <2>3. ~(call[t].j < Len(call[t].cfgs)) \/ ~(call[t].j >= Len(call[t].cfgs))
    BY <2>1
  <2>4. QED
    BY <2>2, <2>3 DEF WriteControl
<1>11. Fields!ConfigWrite(t)
  BY <1>1, <1>8, <1>9, <1>10, SameWords, SameCalls
     DEF Fields!ConfigWrite, Fields!AtWrite, FieldWords, FieldVals
<1>12. QED
  BY <1>8, <1>11 DEF Fields!DriverStep
-----------------------------------------------------------------------------
(***************************************************************************)
(* Every behaviour                                                         *)
(***************************************************************************)

\* The device made by realize, at rest, is the driver's initial state.
LEMMA QemuStart == QemuInit => QemuInv /\ Fields!DriverInit
<1> SUFFICES ASSUME QemuInit PROVE QemuInv /\ Fields!DriverInit
  OBVIOUS
<1>1. /\ srcsel = [i \in 0..(AXIMUX_MAX_PINS - 1) |-> 0]
      /\ muxinfo = nalts * 256 + npins
      /\ word = [t \in Threads |-> 0]
      /\ call = [t \in Threads |-> Fields!NoCall]
  BY DEF QemuInit, Realized, Driver!NoCall, Fields!NoCall
<1>2. DriverPins \subseteq 0..(AXIMUX_MAX_PINS - 1)
  BY RealizeAssumption DEF DriverPins, AXIMUX_MAX_PINS
<1>3. \A p \in DriverPins : srcsel[p] = 0
  BY <1>1, <1>2
<1>4. \A t \in Threads : word[t] = 0
  BY <1>1
<1>5. Fields!DriverInit
  <2>1. \A p \in DriverPins : Decode(srcsel[p]) = Fields!ResetWord
    BY <1>3, ZeroHeld, SameWords
  <2>2. \A t \in Threads : Decode(word[t]) = Fields!ResetWord
    BY <1>4, ZeroHeld, SameWords
  <2>3. QED
    BY <1>1, <2>1, <2>2 DEF Fields!DriverInit
<1>6. Fields!DriverInv
  BY <1>5, FieldsTables, Fields!DriverInitInv
<1>7. QemuTypeOK /\ WordsHeld
  BY <1>1, ZeroHeld DEF QemuTypeOK, WordsHeld
<1>8. QED
  BY <1>5, <1>6, <1>7 DEF QemuInv

LEMMA NoAccessStep ==
  ASSUME QemuInv, NEW t \in Threads, NoAccess(t) \/ RejectMux(t)
  PROVE  /\ Fields!Enter(t) \/ Fields!DriverStep(t) \/ Fields!Return(t)
         /\ WordsHeld' /\ QemuTypeOK'
<1>1. srcsel' = srcsel /\ muxinfo' = muxinfo /\ word' = word
  BY DEF NoAccess, RejectMux
<1>2. WordsHeld' /\ QemuTypeOK'
  BY <1>1 DEF QemuInv, WordsHeld, QemuTypeOK
<1>3. CASE NoAccess(t)
  <2>1. Fields!Enter(t) \/ Fields!ConfigReject(t) \/ Fields!CallDone(t)
        \/ Fields!Return(t)
    BY <1>3, SameEnter, SameSteps DEF NoAccess
  <2>2. QED
    BY <1>2, <2>1 DEF Fields!DriverStep
<1>4. CASE RejectMux(t)
  <2>1. /\ Fields!InLoop(t, "set_mux")
        /\ call' = [call EXCEPT ![t].at = "ret", ![t].ret = "EINVAL"]
    BY <1>4, SameCalls DEF RejectMux
  <2>2. HwAlts = nalts
    BY AltsReadBack DEF QemuInv, QemuTypeOK
  <2>3. ~Fields!MuxLegal(Fields!Pin(t), Fields!MuxVal(t))
    BY <1>4, <2>2, SameCalls, SameWords DEF RejectMux, MuxValLegal, Fields!MuxLegal
  <2>4. FieldWords' = FieldWords /\ FieldVals' = FieldVals
    BY <1>1 DEF FieldWords, FieldVals
  <2>5. Fields!MuxReject(t)
    BY <2>1, <2>3, <2>4
       DEF Fields!MuxReject, Fields!ReturnWith, FieldWords, FieldVals
  <2>6. QED
    BY <1>2, <2>5 DEF Fields!DriverStep
<1>5. QED
  BY <1>3, <1>4

\* Every step on the words is a step of the driver on the fields.
LEMMA QemuStep ==
  QemuInv /\ [QemuNext]_qemuVars => QemuInv' /\ [Fields!Next]_(Fields!driverVars)
<1> SUFFICES ASSUME QemuInv, [QemuNext]_qemuVars
             PROVE  QemuInv' /\ [Fields!Next]_(Fields!driverVars)
  OBVIOUS
<1>1. WordsHeld' /\ QemuTypeOK' /\ [Fields!Next]_(Fields!driverVars)
  <2>1. CASE UNCHANGED qemuVars
    <3>1. srcsel' = srcsel /\ muxinfo' = muxinfo /\ word' = word /\ call' = call
      BY <2>1 DEF qemuVars
    <3>2. WordsHeld' /\ QemuTypeOK'
      BY <3>1 DEF QemuInv, WordsHeld, QemuTypeOK
    <3>3. UNCHANGED Fields!driverVars
      BY <3>1 DEF Fields!driverVars
    <3>4. QED
      BY <3>2, <3>3
  <2>2. CASE QemuNext
    <3>1. PICK t \in Threads :
            NoAccess(t) \/ RejectMux(t) \/ ReadWord(t) \/ WriteSrc(t) \/ WriteControl(t)
      BY <2>2 DEF QemuNext
    <3>2. /\ Fields!Enter(t) \/ Fields!DriverStep(t) \/ Fields!Return(t)
          /\ WordsHeld' /\ QemuTypeOK'
      BY <3>1, NoAccessStep, ReadStep, WriteSrcStep, WriteControlStep
    <3>3. Fields!Next
      BY <3>2 DEF Fields!Next
    <3>4. QED
      BY <3>2, <3>3
  <2>3. QED
    BY <2>1, <2>2
<1>2. Fields!DriverInv'
  <2>1. Fields!DriverInv
    BY DEF QemuInv
  <2>2. QED
    BY <1>1, <2>1, FieldsTables, Fields!DriverNextInv
<1>3. QED
  BY <1>1, <1>2 DEF QemuInv

\* The refinement: the driver's accesses to the words of the device are, seen
\* as fields, the driver of AximuxDriver, step by step (aximux_mmio_read,
\* aximux_mmio_write under ioread32, iowrite32).
THEOREM DriverRunsOnDevice == QemuSpec => DriverOnQemu
<1>1. QemuInit => QemuInv /\ Driver!DriverInit
  BY QemuStart, SameDriver
<1>2. QemuInv /\ [QemuNext]_qemuVars => QemuInv' /\ [Driver!Next]_(Driver!driverVars)
  <2>1. [Fields!Next]_(Fields!driverVars) => [Driver!Next]_(Driver!driverVars)
    BY SameDriver DEF Driver!driverVars, Fields!driverVars
  <2>2. QED
    BY QemuStep, <2>1
<1>3. QED
  BY <1>1, <1>2, PTL DEF QemuSpec, DriverOnQemu, Driver!Spec

LEMMA QemuInvariant == QemuSpec => []QemuInv
<1>1. QemuInit => QemuInv
  BY QemuStart
<1>2. QemuInv /\ [QemuNext]_qemuVars => QemuInv'
  BY QemuStep
<1>3. QED
  BY <1>1, <1>2, PTL DEF QemuSpec

\* The device's words are bytes, and its information word is that of its
\* realization (aximux_realize).
THEOREM QemuTypeCorrect == QemuSpec => []QemuTypeOK
<1>1. QemuInv => QemuTypeOK
  BY DEF QemuInv
<1>2. QED
  BY <1>1, QemuInvariant, PTL

\* The device holds what hardware would: no bit but those of the four fields,
\* sources that the hardware's field has, nothing beyond the signals it was
\* made with (aximux_mmio_write).
THEOREM DeviceLikeHardware == QemuSpec => []LikeHardware
<1>1. ASSUME QemuInv PROVE LikeHardware
  <2>1. DOMAIN srcsel = 0..(AXIMUX_MAX_PINS - 1)
    BY <1>1 DEF QemuInv, QemuTypeOK
  <2>2. \A x \in DOMAIN srcsel :
          /\ Plain(srcsel[x]) /\ srcsel[x] % 16 <= nalts
          /\ x >= npins => srcsel[x] = 0
    BY <1>1, <2>1 DEF QemuInv, WordsHeld, Held
  <2>3. \A t \in Threads : Plain(word[t])
    BY <1>1 DEF QemuInv, WordsHeld, Held
  <2>4. QED
    BY <2>2, <2>3, PlainEncodes DEF LikeHardware
<1>2. QED
  BY <1>1, QemuInvariant, PTL

\* The theorem about sources, on the words: whatever the threads do, the SRC
\* bits of a word of the device are 0 or a source that the tables declare for
\* its signal and the device has (aximux_set_mux on aximux.c).
THEOREM SourcesLegalOnDevice ==
  QemuSpec => [](\A p \in DriverPins :
                   \/ srcsel[p] % 16 = 0
                   \/ /\ srcsel[p] % 16 <= nalts
                      /\ Driver!Declared(p, srcsel[p] % 16))
<1>1. QemuInit => Fields!DriverInit /\ QemuInv
  BY QemuStart
<1>2. QemuInv /\ [QemuNext]_qemuVars => QemuInv' /\ [Fields!Next]_(Fields!driverVars)
  BY QemuStep
<1>3. Fields!Spec => []Fields!SrcLegal
  BY FieldsTables, Fields!SourcesLegal
<1>4. Fields!SrcLegal => \A p \in DriverPins :
                           \/ srcsel[p] % 16 = 0
                           \/ /\ srcsel[p] % 16 <= nalts
                              /\ Driver!Declared(p, srcsel[p] % 16)
  <2>1. \A p \in DriverPins : [q \in DriverPins |-> Decode(srcsel[q])][p].src = srcsel[p] % 16
    BY DEF Decode
  <2>2. \A p, s : Fields!Declared(p, s) <=> Driver!Declared(p, s)
    BY DEF Fields!Declared, Driver!Declared, Fields!Listed, Driver!Listed
  <2>3. QED
    BY <2>1, <2>2 DEF Fields!SrcLegal
<1>5. QED
  BY <1>1, <1>2, <1>3, <1>4, PTL DEF QemuSpec, Fields!Spec
=============================================================================
