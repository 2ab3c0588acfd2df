------------------------------ MODULE AximuxQemu ------------------------------
(***************************************************************************)
(* The driver on the QEMU model of the register block                      *)
(* (sim/qemu/hw/aximux.c), with registers as the device stores them: words *)
(* at bus addresses, and the driver's masks as arithmetic on them.  The    *)
(* control of the callbacks is that of AximuxDriver; what is new is every  *)
(* access and every bit.                                                   *)
(*                                                                         *)
(* The driver bounds mux values by what it reads from MUXINFO.             *)
(***************************************************************************)
EXTENDS Srcsel, Sequences

CONSTANTS
  Threads, Groups, Functions, GroupPins, MuxVals, ConfigLists,
  npins,  \* the device properties
  nalts

\* aximux_realize refuses any other properties.
ASSUME RealizeAssumption ==
  npins \in 1..AXIMUX_MAX_PINS /\ nalts \in 1..15

\* The tables are those of a probe on this device.
ASSUME TablesAssumption ==
  /\ GroupPins \in [Groups -> Seq(0..(npins - 1))]
  /\ DOMAIN MuxVals = Functions
  /\ \A f \in Functions :
       /\ DOMAIN MuxVals[f] \subseteq Groups
       /\ \A g \in DOMAIN MuxVals[f] : MuxVals[f][g] \in Seq(Nat)
  /\ ConfigLists \subseteq Seq(Config)
  /\ \A cl \in ConfigLists : cl # <<>>

VARIABLES
  srcsel,   \* s->srcsel
  muxinfo,  \* s->muxinfo
  call,     \* the driver calls, as in AximuxDriver
  word      \* word[t]: the u32 local of the read-modify-write of thread t

qemuVars == <<srcsel, muxinfo, call, word>>

-----------------------------------------------------------------------------
(***************************************************************************)
(* Words and fields                                                        *)
(***************************************************************************)
AXIMUX_REG(n) == 4 * n
AXIMUX_REG_MUXINFO == 128

BitOfShifted == [SHORT |-> 64, DIREN |-> 128, DIRCTL |-> 256]
BitOf == [SHORT |-> 32, DIREN |-> 64, DIRCTL |-> 128]

IsSet(w, bit) == (w \div bit) % 2 = 1
BitSet(w, bit)     == IF IsSet(w, bit) THEN w ELSE w + bit
BitToggled(w, bit) == IF IsSet(w, bit) THEN w - bit ELSE w + bit
BitCleared(w, bit) == IF IsSet(w, bit) THEN w - bit ELSE w

\* (val & ~AXIMUX_SRC_MASK) | (src & AXIMUX_SRC_MASK)
WithSrcAdded(w, s) == w + (s % 16)
WithSrc(w, s) == (16 * (w \div 16)) + (s % 16)

WithControl(w, c) ==
  IF c.arg THEN BitSet(w, BitOf[c.param]) ELSE BitCleared(w, BitOf[c.param])

\* The record that AximuxDriver keeps for a word, and the word of a record.
Decode(w) == [src |-> w % 16, ctl |-> {b \in ControlBits : IsSet(w, BitOf[b])}]
Encode(r) ==
  r.src + (IF "SHORT" \in r.ctl THEN 32 ELSE 0)
        + (IF "DIREN" \in r.ctl THEN 64 ELSE 0)
        + (IF "DIRCTL" \in r.ctl THEN 128 ELSE 0)

DriverPins == 0..(npins - 1)
Driver == INSTANCE AximuxDriver WITH
  Pins <- DriverPins, NAlts <- nalts,
  regs <- [p \in DriverPins |-> Decode(srcsel[p])],
  val  <- [t \in Threads |-> Decode(word[t])]

-----------------------------------------------------------------------------
(***************************************************************************)
(* The device                                                              *)
(***************************************************************************)
Realized ==
  /\ srcsel = [i \in 0..(AXIMUX_MAX_PINS - 1) |-> 0]
  /\ muxinfo = nalts * 256 + npins

Mapped(addr) ==
  addr < AXIMUX_REG_MUXINFO /\ addr % 4 = 0 /\ addr \div 4 < npins

\* Reads of an address that is not mapped give 0, writes are dropped.
MmioRead(addr) ==
  IF addr = AXIMUX_REG_MUXINFO THEN muxinfo
  ELSE IF Mapped(addr) THEN srcsel[addr \div 4] ELSE 0

MmioWrite(addr, w) ==
  /\ srcsel' = IF Mapped(addr) THEN [srcsel EXCEPT ![addr \div 4] = w] ELSE srcsel
  /\ UNCHANGED muxinfo

-----------------------------------------------------------------------------
(***************************************************************************)
(* The driver's accesses                                                   *)
(***************************************************************************)

\* amx->nalts, from the info word of aximux_parse_pins.
HwAlts ==
  LET a == (MmioRead(AXIMUX_REG_MUXINFO) \div 256) % 256
  IN IF a \in 1..AXIMUX_MAX_ALTS THEN a ELSE AXIMUX_MAX_ALTS

QemuInit ==
  /\ Realized
  /\ call = [t \in Threads |-> Driver!NoCall]
  /\ word = [t \in Threads |-> 0]

\* The steps of a callback that reach no register.
NoAccess(t) ==
  /\ UNCHANGED <<srcsel, muxinfo, word>>
  /\ Driver!Enter(t) \/ Driver!ConfigReject(t) \/ Driver!CallDone(t) \/ Driver!Return(t)

MuxValLegal(t) ==
  Driver!Pin(t) < AXIMUX_MAX_PINS /\ Driver!MuxVal(t) <= HwAlts

RejectMux(t) ==
  /\ Driver!InLoop(t, "set_mux")
  /\ ~MuxValLegal(t)
  /\ call' = [call EXCEPT ![t].at = "ret", ![t].ret = "EINVAL"]
  /\ UNCHANGED <<srcsel, muxinfo, word>>

ReadWord(t) ==
  /\ \/ Driver!InLoop(t, "set_mux") /\ MuxValLegal(t)
     \/ Driver!InLoop(t, "pinconf_set") /\ Driver!Cfg(t).param # "GENERIC"
  /\ word' = [word EXCEPT ![t] = MmioRead(AXIMUX_REG(Driver!Pin(t)))]
  /\ call' = [call EXCEPT ![t].at = "write"]
  /\ UNCHANGED <<srcsel, muxinfo>>

WriteSrc(t) ==
  /\ Driver!AtWrite(t, "set_mux")
  /\ MmioWrite(AXIMUX_REG(Driver!Pin(t)), WithSrc(word[t], Driver!MuxVal(t)))
  /\ call' = [call EXCEPT ![t].at = "loop", ![t].i = @ + 1]
  /\ word' = [word EXCEPT ![t] = 0]

WriteControl(t) ==
  /\ Driver!AtWrite(t, "pinconf_set")
  /\ MmioWrite(AXIMUX_REG(Driver!Pin(t)), WithControl(word[t], Driver!Cfg(t)))
  /\ word' = [word EXCEPT ![t] = 0]
  /\ call' = IF call[t].j < Len(call[t].cfgs)
             THEN [call EXCEPT ![t].at = "loop", ![t].j = @ + 1]
             ELSE [call EXCEPT ![t].at = "loop", ![t].i = @ + 1, ![t].j = 1]

QemuNext ==
  \E t \in Threads :
    NoAccess(t) \/ RejectMux(t) \/ ReadWord(t) \/ WriteSrc(t) \/ WriteControl(t)

QemuSpec == QemuInit /\ [][QemuNext]_qemuVars

-----------------------------------------------------------------------------
(***************************************************************************)
(* Properties                                                              *)
(***************************************************************************)

\* The device stores bytes in all its 32 words, and MUXINFO is what realize
\* made it.
QemuTypeOK ==
  /\ srcsel \in [0..(AXIMUX_MAX_PINS - 1) -> 0..255]
  /\ muxinfo = nalts * 256 + npins
  /\ word \in [Threads -> 0..255]

\* The guest cannot tell the model from the hardware, whose block stores the
\* four fields and nothing else: no bit but theirs is ever stored or held by
\* the driver, every SRC is one the hardware's field can hold, and the words
\* beyond npins, which hardware does not have, stay untouched.
LikeHardware ==
  /\ \A i \in DOMAIN srcsel :
       /\ srcsel[i] = Encode(Decode(srcsel[i]))
       /\ srcsel[i] % 16 <= nalts
       /\ i >= npins => srcsel[i] = 0
  /\ \A t \in Threads : word[t] = Encode(Decode(word[t]))

\* The harness tests the same driver: on the device's words, every behaviour
\* of the driver is one of AximuxDriver on the fields, in which source and
\* control bits are programmed as its callbacks say.
DriverOnQemu == Driver!Spec
=============================================================================
