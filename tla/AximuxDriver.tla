---------------------------- MODULE AximuxDriver ----------------------------
(***************************************************************************)
(* The run-time half of driver/aximux.c: the callbacks of pinmux_ops and   *)
(* pinconf_ops that change registers, entered by any number of kernel      *)
(* threads.  The driver takes no lock, so a read-modify-write of a SRCSEL  *)
(* register is two steps, ioread32 and iowrite32, between which any other  *)
(* thread may run.                                                         *)
(*                                                                         *)
(* The tables (groups, functions, mux values) are built once by probe and  *)
(* never change afterwards, so they are constants here.                    *)
(***************************************************************************)
EXTENDS Srcsel, Sequences

CONSTANTS
  Threads,     \* kernel threads that may call into the driver
  Pins,        \* hardware signals; amx->regs has one SRCSEL word for each
  NAlts,       \* amx->nalts: the largest legal SRC value
  Groups,      \* group selectors
  Functions,   \* function selectors
  GroupPins,   \* GroupPins[g]: grp->pins
  MuxVals,     \* MuxVals[f][g]: func->mux_vals of the groups func lists
  ConfigLists  \* the config arrays that consumers' states carry

ASSUME TableAssumption ==
  /\ Pins \subseteq 0..(AXIMUX_MAX_PINS - 1)
  /\ NAlts \in 1..AXIMUX_MAX_ALTS
  /\ GroupPins \in [Groups -> Seq(Pins)]
  /\ DOMAIN MuxVals = Functions
  /\ \A f \in Functions :
       /\ DOMAIN MuxVals[f] \subseteq Groups
       /\ \A g \in DOMAIN MuxVals[f] : MuxVals[f][g] \in Seq(Nat)
  /\ ConfigLists \subseteq Seq(Config)
  /\ \A cl \in ConfigLists : cl # <<>>

VARIABLES
  regs,  \* regs[p]: the SRCSEL word of signal p
  call,  \* call[t]: the driver call thread t is in
  val    \* val[t]: the u32 local of the read-modify-write of thread t

driverVars == <<regs, call, val>>

(***************************************************************************)
(* A call and its local variables.  pins and vals are the table rows the   *)
(* callback looked up on entry, i and j its loop indices.                  *)
(***************************************************************************)
Call == [op   : {"set_mux", "pinconf_set"},
         at   : {"idle", "loop", "write", "ret"},
         pins : Seq(Pins),
         vals : Seq(Nat),
         cfgs : Seq(Config),
         i    : Nat \ {0},
         j    : Nat \ {0},
         ret  : {"ok", "EINVAL", "ENOTSUPP"}]

NoCall == [op |-> "set_mux", at |-> "idle", pins |-> <<>>, vals |-> <<>>,
           cfgs |-> <<>>, i |-> 1, j |-> 1, ret |-> "ok"]

DriverInit ==
  /\ regs = [p \in Pins |-> ResetWord]
  /\ call = [t \in Threads |-> NoCall]
  /\ val  = [t \in Threads |-> ResetWord]

Pin(t)    == call[t].pins[call[t].i]
MuxVal(t) == call[t].vals[call[t].i]
Cfg(t)    == call[t].cfgs[call[t].j]

\* Thread t is at the head of the loop of callback op with a pin left to do.
InLoop(t, op) ==
  /\ call[t].op = op
  /\ call[t].at = "loop"
  /\ call[t].i <= Len(call[t].pins)

AtWrite(t, op) == call[t].op = op /\ call[t].at = "write"

ReadReg(t) ==
  /\ val'  = [val EXCEPT ![t] = regs[Pin(t)]]
  /\ call' = [call EXCEPT ![t].at = "write"]
  /\ UNCHANGED regs

ReturnWith(t, ret) ==
  /\ call' = [call EXCEPT ![t].at = "ret", ![t].ret = ret]
  /\ UNCHANGED <<regs, val>>

-----------------------------------------------------------------------------
(***************************************************************************)
(* aximux_set_mux                                                          *)
(***************************************************************************)

\* The function lists the group, with as many mux values as it has pins.
ListedByName(f, g) == g \in DOMAIN MuxVals[f]
Listed(f, g) ==
  /\ g \in DOMAIN MuxVals[f]
  /\ Len(MuxVals[f][g]) = Len(GroupPins[g])

SetMux(t, f, g) ==
  /\ call[t].at = "idle"
  /\ call' = [call EXCEPT ![t] =
       IF Listed(f, g)
       THEN [NoCall EXCEPT !.at = "loop", !.pins = GroupPins[g],
                           !.vals = MuxVals[f][g]]
       ELSE [NoCall EXCEPT !.at = "ret", !.ret = "EINVAL"]]
  /\ UNCHANGED <<regs, val>>

MuxLegalAnySource(p, s) == p < AXIMUX_MAX_PINS
MuxLegal(p, s) == p < AXIMUX_MAX_PINS /\ s <= NAlts

MuxReject(t) ==
  /\ InLoop(t, "set_mux")
  /\ ~MuxLegal(Pin(t), MuxVal(t))
  /\ ReturnWith(t, "EINVAL")

MuxRead(t) ==
  /\ InLoop(t, "set_mux")
  /\ MuxLegal(Pin(t), MuxVal(t))
  /\ ReadReg(t)

MuxWriteStays(t) ==
  /\ AtWrite(t, "set_mux")
  /\ regs' = [regs EXCEPT ![Pin(t)] = SetSrc(val[t], MuxVal(t))]
  /\ call' = [call EXCEPT ![t].at = "loop"]
  /\ val'  = [val EXCEPT ![t] = ResetWord]

MuxWrite(t) ==
  /\ AtWrite(t, "set_mux")
  /\ regs' = [regs EXCEPT ![Pin(t)] = SetSrc(val[t], MuxVal(t))]
  /\ call' = [call EXCEPT ![t].at = "loop", ![t].i = @ + 1]
  /\ val'  = [val EXCEPT ![t] = ResetWord]

-----------------------------------------------------------------------------
(***************************************************************************)
(* aximux_pinconf_set, and aximux_pinconf_group_set when ps has several    *)
(* pins: for each pin in turn, each config in turn.                        *)
(***************************************************************************)
PinconfSet(t, ps, cl) ==
  /\ call[t].at = "idle"
  /\ call' = [call EXCEPT ![t] =
       [NoCall EXCEPT !.op = "pinconf_set", !.at = "loop",
                      !.pins = ps, !.cfgs = cl]]
  /\ UNCHANGED <<regs, val>>

\* The read precedes the switch, so an unsupported parameter is found after
\* it; the value read is dropped.
ConfigReject(t) ==
  /\ InLoop(t, "pinconf_set")
  /\ Cfg(t).param = "GENERIC"
  /\ ReturnWith(t, "ENOTSUPP")

ConfigRead(t) ==
  /\ InLoop(t, "pinconf_set")
  /\ Cfg(t).param # "GENERIC"
  /\ ReadReg(t)

ConfigWrite(t) ==
  /\ AtWrite(t, "pinconf_set")
  /\ regs' = [regs EXCEPT ![Pin(t)] = SetControl(val[t], Cfg(t))]
  /\ val'  = [val EXCEPT ![t] = ResetWord]
  /\ \/ /\ call[t].j < Len(call[t].cfgs)
        /\ call' = [call EXCEPT ![t].at = "loop", ![t].j = @ + 1]
     \/ /\ call[t].j >= Len(call[t].cfgs)
        /\ call' = [call EXCEPT ![t].at = "loop", ![t].i = @ + 1, ![t].j = 1]

-----------------------------------------------------------------------------
\* The loop is over: the callback returns 0.
CallDone(t) ==
  /\ call[t].at = "loop"
  /\ call[t].i > Len(call[t].pins)
  /\ ReturnWith(t, "ok")

DriverStep(t) ==
  \/ MuxReject(t)    \/ MuxRead(t)    \/ MuxWrite(t)
  \/ ConfigReject(t) \/ ConfigRead(t) \/ ConfigWrite(t)
  \/ CallDone(t)

\* The caller takes the return value of its call.
Return(t) ==
  /\ call[t].at = "ret"
  /\ call' = [call EXCEPT ![t] = NoCall]
  /\ UNCHANGED <<regs, val>>

\* Any thread may enter any callback at any time.
Enter(t) ==
  \/ \E f \in Functions, g \in Groups : SetMux(t, f, g)
  \/ \E p \in Pins, cl \in ConfigLists : PinconfSet(t, <<p>>, cl)
  \/ \E g \in Groups, cl \in ConfigLists : PinconfSet(t, GroupPins[g], cl)

Next == \E t \in Threads : Enter(t) \/ DriverStep(t) \/ Return(t)

Spec == DriverInit /\ [][Next]_driverVars

\* A thread inside a callback holds the CPU or is runnable: there is nothing
\* in the driver to wait for.
FairSpec == Spec /\ \A t \in Threads : WF_driverVars(DriverStep(t))

-----------------------------------------------------------------------------
(***************************************************************************)
(* Properties                                                              *)
(***************************************************************************)

\* Registers hold words, and every call in progress is well formed: a
\* set_mux has one value for each pin, and a write is always at a pin of the
\* call (aximux_set_mux, aximux_pinconf_set).
TypeOK ==
  /\ regs \in [Pins -> Word]
  /\ call \in [Threads -> Call]
  /\ val  \in [Threads -> Word]
  /\ \A t \in Threads :
       /\ call[t].op = "set_mux" => Len(call[t].vals) = Len(call[t].pins)
       /\ call[t].op = "pinconf_set" => call[t].j <= Len(call[t].cfgs)
       /\ call[t].at = "write" => call[t].i <= Len(call[t].pins)

\* Source s of pin p is named by some function for some group with that pin.
Declared(p, s) ==
  \E f \in Functions : \E g \in DOMAIN MuxVals[f] :
    /\ Listed(f, g)
    /\ \E x \in 1..Len(GroupPins[g]) :
         GroupPins[g][x] = p /\ MuxVals[f][g][x] = s

\* Whatever the threads do to each other, a signal is only ever routed to
\* its reset source or to a source that the device tree declares for this
\* very signal and that the hardware has; a stale write-back, a rejected or
\* abandoned call never routes it anywhere else (aximux_set_mux).
SrcLegal ==
  \A p \in Pins :
    regs[p].src = 0 \/ (regs[p].src <= NAlts /\ Declared(p, regs[p].src))

\* Every callback that was entered gets to its return (the loops of
\* aximux_set_mux and aximux_pinconf_set end, with any other calls running).
CallsReturn ==
  \A t \in Threads : call[t].at # "idle" ~> call[t].at \in {"ret", "idle"}

\* The promise of the header comment, as a refinement: every register change
\* is an atomic change of one field.
Atomic == INSTANCE SrcselAtomic
RegsAtomic == Atomic!Spec
=============================================================================
