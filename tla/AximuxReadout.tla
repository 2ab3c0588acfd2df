---------------------------- MODULE AximuxReadout ----------------------------
(***************************************************************************)
(* The callbacks that only read, beside consumers that change states: the  *)
(* sysfs file srcsel (srcsel_show) and the debugfs file pins               *)
(* (aximux_pin_dbg_show for every pin), which both read the registers one  *)
(* after the other, and aximux_pinconf_get and aximux_pinconf_group_get.   *)
(* They take no lock either, so a dump may put together words of different *)
(* moments.  One reader is enough: readers change nothing.  The kernel may *)
(* restart and the registers may be lost meanwhile, as in AximuxRestart.   *)
(***************************************************************************)
EXTENDS AximuxRestart

\* The order of amx->pins: that of the pin nodes in the device tree.
CONSTANT PinOrder

ASSUME PinOrderAssumption ==
  /\ PinOrder \in Seq(Pins)
  /\ Range(PinOrder) = Pins

\* Probe skips a group without pins (the -EINVAL of aximux_pinconf_group_get
\* for such a group is left out).
ASSUME GroupsHavePins == \A g \in Groups : GroupPins[g] # <<>>

VARIABLES
  reader,  \* the call that the reader is in
  quiet    \* the consumers whose settled states were undisturbed since then

readoutVars == <<restartVars, reader, quiet>>

(***************************************************************************)
(* pins: the pins the call is about; seen: the words read so far; param    *)
(* and answer: question and answer of a pinconf_get.                       *)
(***************************************************************************)
NoRead == [op |-> "idle", pins |-> <<>>, seen |-> <<>>,
           param |-> "GENERIC", answer |-> FALSE]

ReadoutInit == RestartInit /\ reader = NoRead /\ quiet = {}

Settled == {c \in renewed : sel[c].pc = "idle" /\ state[c] # None}

Enters(r) ==
  /\ reader.op = "idle"
  /\ reader' = r
  /\ quiet' = Settled
  /\ UNCHANGED restartVars

-----------------------------------------------------------------------------
BeginDump == Enters([NoRead EXCEPT !.op = "dump", !.pins = PinOrder])

\* The register that a dump reads next.
NextReadFirst(r) == r.pins[1]
NextRead(r) == r.pins[Len(r.seen) + 1]

DumpRead ==
  /\ reader.op = "dump"
  /\ Len(reader.seen) < Len(reader.pins)
  /\ reader' = [reader EXCEPT !.seen = Append(@, regs[NextRead(reader)])]
  /\ UNCHANGED <<restartVars, quiet>>

DumpDone ==
  /\ reader.op = "dump"
  /\ Len(reader.seen) = Len(reader.pins)
  /\ reader' = [reader EXCEPT !.op = "dumped"]
  /\ UNCHANGED <<restartVars, quiet>>

\* A get of one pin, or of a group: ps is then all of the group's pins.
BeginGet(ps, param) ==
  Enters([NoRead EXCEPT !.op = "get", !.pins = ps, !.param = param])

\* aximux_pinconf_get: the argument of param in the word read.
AnswerOfShort(w, param) == "SHORT" \in w.ctl
Answer(w, param)        == param \in w.ctl

\* Only the first pin is read, for a group too.
PinconfGet ==
  /\ reader.op = "get"
  /\ \/ /\ reader.param \in ControlBits
        /\ reader' = [reader EXCEPT !.op = "got",
             !.answer = Answer(regs[reader.pins[1]], reader.param)]
     \/ /\ reader.param \notin ControlBits
        /\ reader' = [reader EXCEPT !.op = "unsupported"]
  /\ UNCHANGED <<restartVars, quiet>>

Returned ==
  /\ reader.op \in {"dumped", "got", "unsupported"}
  /\ reader' = NoRead
  /\ quiet' = {}
  /\ UNCHANGED restartVars

ReadStep ==
  \/ BeginDump \/ DumpRead \/ DumpDone
  \/ \E p \in Pins, param \in Params : BeginGet(<<p>>, param)
  \/ \E g \in Groups, param \in Params : BeginGet(GroupPins[g], param)
  \/ PinconfGet \/ Returned

\* A consumer that begins a selection is no longer quiet; nor is anybody when
\* the registers are lost.
ConsumerStep ==
  /\ UndisturbedStep
  /\ quiet' = {c \in quiet : sel'[c].pc = "idle"}
  /\ UNCHANGED reader

RestartStep == Restart /\ reader' = NoRead /\ quiet' = {}
ReloadStep == Reload /\ quiet' = {} /\ UNCHANGED reader

ReadoutNext == ReadStep \/ ConsumerStep \/ RestartStep \/ ReloadStep

ReadoutSpec == ReadoutInit /\ [][ReadoutNext]_readoutVars

-----------------------------------------------------------------------------
(***************************************************************************)
(* Properties                                                              *)
(***************************************************************************)

\* A dump put together word by word while other consumers switch may never
\* have been the contents of the registers; but every line of a consumer that
\* stayed in its state while the dump ran shows what this state asks for
\* (srcsel_show, aximux_pin_dbg_show beside aximux_set_mux).
DumpShowsSettled ==
  reader.op = "dumped" =>
    \A c \in quiet, x \in DOMAIN reader.pins :
      LET p == reader.pins[x]
          w == reader.seen[x] IN
        /\ \A v \in 0..AXIMUX_MAX_ALTS : Routes(state[c], p, v) => w.src = v
        /\ \A b \in ControlBits, a \in BOOLEAN :
             Asks(state[c], p, b, a) => (b \in w.ctl) = a

\* The answer for a group is read from its first pin, and is right for every
\* pin of the group when a consumer that stayed in its state configures them
\* all alike; the registers still say so when the answer is given
\* (aximux_pinconf_group_get, aximux_pinconf_get).
GetTellsSettled ==
  reader.op = "got" =>
    \A c \in quiet, a \in BOOLEAN :
      LET ps == Range(reader.pins) IN
        (\A p \in ps : Asks(state[c], p, reader.param, a))
          => /\ reader.answer = a
             /\ \A p \in ps : (reader.param \in regs[p].ctl) = a
=============================================================================
