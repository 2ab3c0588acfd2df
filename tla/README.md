# AXIMUX in TLA+

AXIMUX is a soft-IP pin multiplexer for FPGAs: a generated AXI-Lite peripheral
with one `SRCSEL` register per signal, a Linux pinctrl driver for it, a QEMU
model of the register block, and a tool that derives device tree from a Vivado
hardware hand-off.  The modules in this directory specify it, TLC checks them
on small instances, and TLAPS proves the central results for every instance.

## The system

| Part | State it keeps | Operations | What is hard about it |
|---|---|---|---|
| Driver run time, `driver/aximux.c` 79-378 | the SRCSEL words, in hardware; no lock | `aximux_set_mux`, `aximux_pinconf_set`, `_group_set`, the getters | every update is an unlocked read-modify-write; multi-pin calls fail half way |
| Kernel pinctrl core (external) | the claim on each pin, each consumer's current state | `pinctrl_select_state`, debugfs `pinmux-select` | pins are released before the new ones are claimed; fallback to the old state; the debugfs path claims nothing |
| Driver probe, `driver/aximux.c` 97-163 and 386-605 | pins, groups and functions tables, DT node references, allocations | `aximux_parse_pins`, `aximux_build_default_groups`, `aximux_parse_extra_groups`, `aximux_add_function` | grows three parallel arrays step by step and can fail at any of them |
| Driver read-out, `driver/aximux.c` 182-195, 275-299, 607-621 | none | `srcsel` attribute, `pin_dbg_show`, `pinconf_get` | reads run beside multi-step updates |
| QEMU device, `sim/qemu/hw/aximux.c` | the SRCSEL words, MUXINFO | MMIO read and write, realize | bounds of the address decode |
| HDL generator, `generator/mux_gen.py` | the netlist under construction | argument checks, ports, signals, per-signal logic, slave connections | every wire found by a name made in a loop; widths and addresses at the limits of the arguments |
| hwh tool, `tools/hwh_aximux_dt.py` | parsed muxes and peers, groups, consumers, three output files | parsing, naming, group collection, two emitters, wiring | who is the peripheral on a net; name collisions, silent fallbacks; files written one after the other |
| Machine patch, `sim/qemu/scripts/patch-virt.py` | five files of a QEMU source tree | read, test, edit, write back, before every build | runs again on whatever an earlier, perhaps killed, run left |
| Other scripts and the cocotb tests | none | | not part of the running system |

The consumers' threads call the core, the core calls the driver's ops, the ops
read and write the registers, and the registers select what the generated
datapath routes.  Shells reach `aximux_set_mux` through debugfs as well.  The
hwh tool writes the device tree that the probe reads; the generator makes the
datapath and the register fields that the driver's words mean; the patch script
puts the QEMU device into a machine.

What makes each part correct: the run-time callbacks must route a signal only
to a source that is declared for it and exists, keep `SRC` and the control bits
apart, and return; the core and the driver together must keep claims exact and
leave in the registers what the remembered states ask; probe must build tables
that the callbacks can index safely, or fail.  A dump may be torn but must not
lie about a consumer that stays settled.  The tool must give each consumer the
alternates that are on its nets, under labels that resolve, in a tree the probe
takes.  The generated netlist must be closed and compute the datapath the
driver assumes.  The patch script must come to the same tree however often it
is run.

## Modules

| Module | What it is |
|---|---|
| `Srcsel` | one SRCSEL word and the driver's two modifications of it |
| `SrcselAtomic` | the abstract specification: the header comment's promise that a change is one field of one signal |
| `AximuxDriver` | the run-time callbacks entered by any number of threads, `ioread32` and `iowrite32` separate steps |
| `AximuxPinctrl` | composition with consumers (pinctrl state selection) and shells (debugfs) |
| `AximuxProduction` | the assumptions of the intended use, and what holds under them |
| `AximuxProbe` | `aximux_probe`: device tree and MUXINFO to the tables, any allocation may fail |
| `AximuxRouting` | the generated datapath on the registers of `AximuxProduction` |
| `AximuxQemu` | the driver on the QEMU device, registers as words and masks as arithmetic |
| `AximuxRestart` | steps that part kernel and registers: a restart over registers kept or reset, registers lost under the running kernel |
| `AximuxReadout` | register dumps and pinconf reads beside `AximuxProduction`, with the steps of `AximuxRestart` |
| `HwhNaming` | the hwh tool's pure functions: peers, muxes, names, groups |
| `HwhTool` | a run of the tool, from its inputs to its three files |
| `HwhProbe` | the tool's output probed by `AximuxProbe`, one controller per mux |
| `PatchVirt` | the copy of the device and `patch-virt.py`, run and killed repeatedly |
| `MuxGen` | `mux_gen.py` from its arguments to the netlist |
| `*_proofs` | theorems and proofs about the module of that name; `AximuxProduction_proofs` is also about what builds on production use (`AximuxRouting`, `AximuxRestart`, `AximuxReadout`), `HwhProbe_proofs` about `HwhTool` and `HwhNaming` |
| `MC*` | constants for TLC |

`AximuxPinctrl` extends `AximuxDriver`, `AximuxProduction` extends
`AximuxPinctrl`; `AximuxRouting` and `AximuxRestart` extend `AximuxProduction`,
`AximuxReadout` extends `AximuxRestart`.  `AximuxQemu` instantiates
`AximuxDriver` under a refinement mapping.  `AximuxProbe` builds the tables that
are constants of `AximuxDriver`; `HwhProbe` extends it and
`HwhTool`, which extends `HwhNaming`.  `PatchVirt` and `MuxGen` stand alone.

### How state and actions correspond to the code

**Run time.**  `regs` is the SRCSEL block, `call[t]` the stack frame of thread
`t` inside a callback (loop indices, the table rows looked up, the return
value), `val[t]` the local `u32 val`.  `SetMux` is entry and lookup of
`aximux_set_mux`, `MuxReject` its check inside the loop, `MuxRead` / `MuxWrite`
the two accesses of `aximux_set_src`.  `PinconfSet`, `ConfigRead`,
`ConfigWrite`, `ConfigReject` are `aximux_pinconf_set` and its group form, which
run the same two loops.  The driver's lookups by name are lookups by selector
here, the first match having been resolved when the constants are given.  A
word keeps the four fields; the other bits are never named by the driver, and
`AximuxQemu` shows that nothing is lost by leaving them out.

**Pinctrl core.**  It is external.  `owner` is the claim on each pin, `state[c]`
the remembered state of consumer `c`, `sel[c]` its place inside
`pinctrl_select_state`.  Its order of events is what the driver relies on:
claims of the old state are dropped, the pins of each mux setting are claimed
one by one and then `set_mux` is called, pinconf follows when all muxes are
done, an error drops the claims and applies the old state again, once.
`PinmuxSelect` is a line written to debugfs: `set_mux` without any claim.

**Probe.**  The phases of `pc` are the functions in the order `aximux_probe`
calls them, `k` and `f` their loop indices.  Each child and each table entry is
a step, each allocation may fail there and ends the probe with whatever it had
changed.  `AddFunctionFails` keeps what a failed `krealloc` leaves: a new
function without entries, or an old one whose array has moved.  `node` is the
reference of the child iterator; `heap` says for which group nodes the array of
pins, and that of mux values, is allocated (`aximux_parse_extra_groups`): the
first becomes the group's with `AddGroup`, the second is temporary.  The tables
of groups and functions are not devm, and a failed probe leaves them, with what
is in them, to nobody; they stay in `groups` and `funcs`, and the arrays inside
a function are not counted.

**Datapath.**  It is combinational, so its ports are operators on a signal and
the levels of its inputs, and its properties quantify over all input levels.

**QEMU.**  `srcsel` and `muxinfo` are the device's fields.  The refinement
mapping decodes each word into a record; the driver's steps that reach no
register are those of `AximuxDriver`.

**Read-outs.**  `reader` is the frame of one `srcsel_show` (or of a loop of
`aximux_pin_dbg_show`), one register read a step, or of one `pinconf_get`;
`quiet` is a history variable: who was settled from its beginning to its end.

**Restart and reload.**  `Restart` resets all that is in kernel memory, in any
state, and takes the registers as they are or reset: the block has a reset that
a kernel restart need not pulse, and the QEMU device zeroes its registers in
`realize` only.  `Reload` is the opposite: the registers are reset and the
kernel is not told, as the driver has no hook for it.  `renewed` is a history
variable: who has begun a selection since the last of these.

**hwh tool.**  A design is the sequence of `MODULE`s with their ports and nets;
a port without `SIGNAME` is on net "".  Labels and names are records split at
the dot.  What regular expressions do to one word is a constant (`SlotOf`,
`BaseName`, `DevName`, `SigName`, `CleanName`), and the order of strings is
`Rank`.  `place` is the place in `main`, `turn` the mux at hand; `EmitPinctrl2` and
`EmitLegacy` are one iteration of their loops over the muxes, `nodes` and
`legacy` what they have written, `all_groups`, `wiring` and `by_mux` the tables
of the same names (`wiring` is the loop over `by_consumer`).  A file is "old",
"part" or "new": `write_text` empties, then fills.  A node is the record of a
child of `AximuxProbe`, so `HwhProbe` hands it over as it is.

**Patch script.**  A text is how often each of the seven pieces is in it, the
anchors it has, and whether any of it was lost.  `PatchText` is the body of the
five functions between read and write, their tests in `Missing` and `CanInsert`;
`OpenText` and `WriteText` are the two halves of `write_text`; between them
`WritePart` leaves any beginning of the text, in terms of the pieces and anchors
it still has (`Beginnings`).  Nothing is supposed about how long a file is or
how much is written at a time.  `Edits` says which piece a test looks for, which
pieces contain the words it looks for (the function of `virt.c` names the table
entry), and what goes in when they are not found.

**Generator.**  A wire is its kind, signal and alternate.  `drivers` is the
order of `mod.add`, one `SignalLogic` an iteration of the loop; `slave` is the
set of port connections.  `clog2` is the library's: the assumption is that its
result can hold the number, which the routing tests rely on.

## What the runs check

| Run | Properties | What it shows |
|---|---|---|
| `driver_any` | `TypeOK` `SrcLegal` `CallsReturn` | two threads in any callbacks at any interleaving of register accesses: no call leaves its tables, a signal is only routed to its reset source or one declared for it, every call returns |
| `production` | `PinctrlTypeOK` `SettledOwns` `MuxOnOwned` `SettledApplied` `ReadFresh` `SelectReturns` `RegsAtomic` `OneAlternate` `PadsSettled` | two consumers contend for a pin, with states that fail at a source, at a parameter and at a busy pin: claims never leak, no update is lost, the registers of a settled consumer are what its state asks, the block implements `SrcselAtomic`; from consumers' states to pads: one alternate drives, hears and turns a pad at every moment, a settled consumer's pads are as its state says |
| `lab` | `FallbackHolds` | with a debugfs shell beside the consumers: a consumer that shares no pin always gets its old state back |
| `lab_race` | `OwnFieldOnly` violated | the same instance: a shell's `set_mux` writes back the control bits it read before a consumer's `pinconf_set` changed them |
| `probe` | `ProbeTypeOK` `TablesMatchTree` `TablesUsable` `StaleNeverUsed` `ArraysAccounted` `ProbeEnds` | a probe of any small tree ends; one that succeeds registers exactly the tree's declarations, in tables the callbacks can index; one that fails registers nothing; of the two arrays of each group node, at any return that of values is freed, and that of pins is freed or its group's |
| `binding_example` | `ExampleProbes` violated | the binding's example is refused |
| `qemu` | `QemuTypeOK` `LikeHardware` `DriverOnQemu` | on the QEMU device the driver implements `AximuxDriver`, and no word appears that hardware could not show |
| `readout` | `RenewedApplied` `DumpShowsSettled` `GetTellsSettled` | a kernel that dies anywhere and starts over any registers, or whose registers are lost under it, programs with the next selection of a consumer all that its state asks; reads beside contending and failing switches: the lines of a settled consumer are right in a torn dump, a group's answer from its first pin is right of all its pins |
| `hwh` | `ToolTypeOK` `OutputsInOrder` `WiringResolves` `ConsumersWired` `LegacyFilesAgree` `EmittedProbes` `NamesSelectAlternates` `ConsumerGetsItsNets` | on all small designs: labels are unique and resolve, no consumer is forgotten, files are replaced in order, the legacy files are aligned and agree with each other; the driver takes every emitted tree; its tables program for each name the alternate of that name, and for the state of each consumer the highest of its alternates on each pin that has any, and no other pin |
| `hwh_split` | `WiringResolves` violated | a device on two muxes gets one label twice |
| `patch_virt` | `PatchTypeOK` `NeverTwice` `SuccessIsComplete` `Converges` | the patch is idempotent under kills and repetitions, does not report success with an edit missing or a file incomplete that was never cut, and gets done unless a write was cut |
| `mux_gen` | `NetlistClosed` `AddressesDistinct` `ComputesDatapath` | the netlists around all argument limits are closed and separate per signal, and small ones compute the datapath |

`SettledApplied` of `production` does not hold once registers can be lost under
the kernel; `RenewedApplied` is what is left of it, and with restarts alone it
says as much.

### Bounds, and why they are enough

- Two threads or consumers and one shell: the driver shares nothing but one
  word at a time, so a lost update needs two writers, and a third adds a
  stutter of the same kind.  Contention for a claim needs two consumers.
- Two signals: one group of two pins gives the half-way states, and both a
  shared and a private signal.
- One or two alternates with mux values up to one beyond the last; in
  `production` three alternates in a two-bit field, so that a value exists which
  names none.
- Configs that set, clear and are refused, lists of one and two.
- Trees of at most three children out of twelve (pins that share and repeat
  names, an empty list, a pin beyond the hardware, no pin and no group; groups
  with full, short, long and no mux list, an unknown pin, a name that is also a
  pin's), and MUXINFO with 0, 1, 2, 3 and 33 pins and 0, 4, 15 and 16
  alternates.  Two declarations of a function are what makes the arrays grow
  twice, and a third child puts something between them.
- Two signals, a group of both and one of the second in `readout`, so that a
  dump can be torn inside a group and a selection can fail half way through one;
  one reader, as readers change nothing.
- Designs of two muxes, one of two pins and three alternates, one of one pin
  and two, in hardware with room for their pins, one or two (`HwPins`); each slot
  connected in one of up to four ways, out of: not at all, to
  a constant, to a UART's input or output, to an I2C line, to glue; all
  combinations that can be built.  `hwh` keeps a peripheral to one
  mux, and `hwh_split` shows what happens when it does not; it gives each mux a
  constant of its own, as muxes that share one take each other for peripherals
  (`PeerInfo`).  A net has one device.  `AllSupposed` says so in the terms of the
  theorems, which hold for any number of muxes, pins, alternates and peers.  Three naming
  files: none, one with overrides, rules, aliases, bases and skips, and one that
  cannot be read.
- `MaxKills` = 2 killed runs of the patch script: one to leave a tree half done,
  one during the repair.  Runs that end are not counted.
- Generator arguments below, at and above every limit.  `ComputesDatapath` is
  evaluated for up to two signals and two alternates, at all input levels: the
  logic of a signal is the same code for every signal.
- No other counters are cut off: every loop index is bounded by its table.

### Fairness

`Converges` assumes weak fairness of the script's own steps: it reads, edits and
writes local files and waits for nothing.  Kills and further runs need not
happen; kills are bounded by `MaxKills`.

`CallsReturn`, `SelectReturns` and `ProbeEnds` assume weak fairness of the steps
of a thread that is inside a callback, a selection or the probe.  Nothing in
these waits: the driver has no lock, a busy pin is an error, an allocation
succeeds or fails.  No thread has to begin a call, select a state, or write to
debugfs.

## What is proved

For every value of the constants that satisfies the assumptions below:

| Theorem | States |
|---|---|
| `AximuxDriver_proofs!TypeCorrect` | `Spec => []TypeOK` |
| `AximuxDriver_proofs!SourcesLegal` | `Spec => []SrcLegal` |
| `AximuxPinctrl_proofs!PinctrlTypeCorrect` | `PinctrlSpec => []PinctrlTypeOK` |
| `AximuxPinctrl_proofs!ClaimsExact` | `PinctrlSpec => []SettledOwns` |
| `AximuxPinctrl_proofs!SetMuxOnOwned` | `PinctrlSpec => []MuxOnOwned` |
| `AximuxPinctrl_proofs!DriverUnderCore` | `PinctrlSpec => Spec` |
| `AximuxPinctrl_proofs!SourcesLegalUnderCore` | `PinctrlSpec => []SrcLegal` |
| `AximuxPinctrl_proofs!GoingBackHolds` | `PinctrlSpec => []FallbackHolds` |
| `AximuxProduction_proofs!WritesFresh` | `PinctrlSpec => []ReadFresh` |
| `AximuxProduction_proofs!FieldsKept` | `PinctrlSpec => OwnFieldOnly` |
| `AximuxProduction_proofs!ImplementsAtomic` | `PinctrlSpec => RegsAtomic` |
| `AximuxProduction_proofs!SettledProgrammed` | `PinctrlSpec => []SettledApplied` |
| `AximuxProduction_proofs!RoutingAgrees` | `PinctrlSpec => []OneAlternate` |
| `AximuxProduction_proofs!PadsAsSelected` | `PinctrlSpec => []PadsSettled` |
| `AximuxProduction_proofs!SafeAcrossRestarts` | `ReadoutSpec => [](SettledOwns /\ SrcLegal)` |
| `AximuxProduction_proofs!SelectionRenews` | `ReadoutSpec => []RenewedApplied` |
| `AximuxProduction_proofs!DumpTellsSettled` | `ReadoutSpec => []DumpShowsSettled` |
| `AximuxProduction_proofs!GetIsRight` | `ReadoutSpec => []GetTellsSettled` |
| `AximuxProbe_proofs!ProbeTypeCorrect` | `ProbeSpec => []ProbeTypeOK` |
| `AximuxProbe_proofs!StaleIsUnused` | `ProbeSpec => []StaleNeverUsed` |
| `AximuxProbe_proofs!TablesFitCallbacks` | `ProbeSpec => []TablesUsable` |
| `AximuxProbe_proofs!OnlyWellFormedProbed` | `ProbeSpec => [](pc = "ready" => WellFormed(ctl))` |
| `AximuxProbe_proofs!WellFormedNotRefused` | `ProbeSpec => [](pc = "failed" /\ WellFormed(ctl) => ret = "ENOMEM")` |
| `AximuxProbe_proofs!TablesAreTheTree` | `ProbeSpec => []TablesMatchTree` |
| `AximuxProbe_proofs!EveryArrayAccounted` | `ProbeSpec => []ArraysAccounted` |
| `AximuxQemu_proofs!QemuTypeCorrect` | `QemuSpec => []QemuTypeOK` |
| `AximuxQemu_proofs!DriverRunsOnDevice` | `QemuSpec => DriverOnQemu` |
| `AximuxQemu_proofs!DeviceLikeHardware` | `QemuSpec => []LikeHardware` |
| `AximuxQemu_proofs!SourcesLegalOnDevice` | the SRC bits of the device's words are legal sources |
| `PatchVirt_proofs!PatchTypeCorrect` | `PatchSpec => []PatchTypeOK` |
| `PatchVirt_proofs!EditsAreIdempotent` | `PatchSpec => []NeverTwice` |
| `PatchVirt_proofs!SuccessMeansWired` | `PatchSpec => []SuccessIsComplete` |
| `MuxGen_proofs!ConnectsAll` | `GenSpec => []NetlistClosed` |
| `MuxGen_proofs!AddressesApart` | `GenSpec => []AddressesDistinct` |
| `MuxGen_proofs!NetlistIsDatapath` | a finished netlist `IsDatapath`, for any legal arguments |
| `MuxGen_proofs!SmallOnesCompute` | `GenSpec => []ComputesDatapath` |
| `HwhProbe_proofs!FilesInOrder` | `ToolSpec => []OutputsInOrder` |
| `HwhProbe_proofs!ToolTypeCorrect` | `ToolSpec => []ToolTypeOK` |
| `HwhProbe_proofs!LegacyAgrees` | `ToolSpec => []LegacyFilesAgree` |
| `HwhProbe_proofs!ReferencesResolve` | every consumer's reference is a label of the tree, for every design: the second half of `WiringResolves` |
| `HwhProbe_proofs!WiringFound` | `ToolSpec => [](Apart(design, naming) => WiringResolves)` |
| `HwhProbe_proofs!NobodyForgotten` | `ToolSpec => [](Direct(design) => ConsumersWired)` |
| `HwhProbe_proofs!ProbedRunIsRun` | `HwhProbeSpec => ToolSpec` |
| `HwhProbe_proofs!EmittedTaken` | `HwhProbeSpec => [](pc = "failed" => ret = "ENOMEM")` |
| `HwhProbe_proofs!EmittedAccepted` | `HwhProbeSpec => []EmittedProbes`, where no allocation fails |
| `HwhProbe_proofs!NamesSelect` | `HwhProbeSpec => []NamesSelectAlternates` |
| `HwhProbe_proofs!NetsReachRegisters` | `HwhProbeSpec => [](Apart(design, naming) /\ Direct(design) /\ Coherent(design, naming) => ConsumerGetsItsNets)` |

**What the theorems on wiring suppose.**  Three of the tool's properties are not true
of every hand-off and naming file, so their theorems carry, as a condition on
these two inputs, what they need of them (`HwhTool`):
- `Apart`: no group is of two muxes, no two aliases have one title and none that of
  a group, no pin is labelled like a group.  `emit_pinctrl2` puts labels on the nodes
  of all muxes and checks none; the hand-off of `hwh_split` is not `Apart`, and there
  a label is on two nodes.
- `Direct`: an alternate is of one device, and no glue on the incoming net hides
  a device on the outgoing one.  `peer_info` takes one peer of a net, and
  `collect_pinctrl2_groups` the outgoing net only without an incoming label.
- `Coherent`: of the grouped alternates, of whatever mux, two have one group exactly
  if they have one consumer.  Groups are named by `overrides` and `rules`, consumers by
  another table.  A consumer that has several groups is thereby left out: the tool
  gives it the first and drops the others ("if multiple groups (unusual), use
  first").

`MCHwh` has `ASSUME AllSupposed`: every hand-off of `hwh` with every naming file meets
all three, so in this run the properties are checked under them and without them
alike.

**Assumptions.**  About what the driver is given:
`TableAssumption` is what `TablesUsable` shows of a successful
probe: groups of existing pins, pins below 32, alternates in 1..15.
`ConsumerAssumption` types the consumers' states.  `SettingAssumption`: a state
claims a pin once, so that a use count is 0 or 1.  `ProductionAssumption`: no
shell, and a state configures only pins it muxes.  `ConsistentConfigs`: no state
gives one control bit of one pin two values, without which "what the state asks"
means nothing.  `DatapathAssumption`: the SRC
field holds all alternates, as the routing tests require of the generator.
`PinOrderAssumption`: the read-out visits every signal.  `GroupsHavePins`: probe
skips groups without pins.

About the others:
`ProbeAssumption`: the driver's names for pins (`pin0`, `pin1`, ...) differ,
MUXINFO's counts fit their fields, and a property that is absent is no value of one.  `RealizeAssumption` are the bounds that
the QEMU device's `realize` checks, and `TablesAssumption` is `TableAssumption`
for its size.  `UpstreamAssumption`: a QEMU version has any of the
anchors, and `misc/Kconfig`, which is appended to, needs none.  `ArgumentAssumption`: the arguments are integers.
`Clog2Assumption`: `clog2(n)` bits can name `n`.  `SlotAssumption`: a port name that
matches gives two numbers and a kind.  `RankAssumption`: strings are ordered, and
different ones have different places.  `DesignAssumption`: the muxes of a design have
different instances, which become the labels of their controllers, and two ports of one
mux differ in pin, kind or alternate (the tool takes the last of several, the model has
one); every instance has a name, without which the tool's labels would begin with the
dot; two instances of one name in different hierarchies are left out.
`NamingAssumption`: names that are sorted are strings with a place.
`LabelAssumption`: `<mux>_pin<n>` determines the mux and the pin, `pinctrl_<group>` and
`<group>-grp` determine the group: strings are records here, and how two are put
together in one is not modelled.  `NamesAssumption`: what the tool writes where the
tree has names is names, and no group node is called like one of the driver's pins
(it ends in `-grp`).  `HwhProbeAssumption`: the hardware has 1..32 pins,
and the tool's `pin<n>` is the driver's name of pin n (`"pin%u"` in `driver/aximux.c`, `"pin{...}"` in `emit_pinctrl2`).

**The arguments.**

- *Routing.*  `SrcLegal` alone is not inductive: a write-back uses a value that
  was read and a source that was checked earlier.  The invariant adds that a
  thread at its write works on a checked pair of pin and source taken from a
  declared row, and that what it read was legal too.  So a stale write-back can
  only restore another legal source.
- *Claims.*  `SettledOwns` speaks of idle consumers.  Its strengthening says
  what is owned at every point of a selection: the claims of the old state, or
  the pins up to setting `s` and index `i` of the new one, or what is left of
  either.  `SettingAssumption` makes dropping a claim undo exactly one request.
- *Going back.*  A state that was once reached has rows that exist and are not
  refused, since every check that a callback makes is of the tables and not of
  the registers.  So the only thing that can refuse the old state again is a busy
  pin; and a consumer that shares no pin finds none, by the claims.
- *The missing lock.*  Two threads at their writes on one pin are two consumers
  that both own it (mux by `MuxOnOwned`, config by `ProductionAssumption`), so
  they are the same thread; hence what was read is still there (`ReadFresh`).
  From it each write-back changes its own field, and the block implements
  `SrcselAtomic`.  `lab_race` shows that the assumption is needed.
- *Settled states.*  The invariant follows a selection: the settings before the
  one at hand, and the pins before the one at hand, are in the registers.  A
  selection keeps what it has done because later settings are of other pins
  (`SettingAssumption`) or give the same bits (`ConsistentConfigs`), and
  everybody else keeps it because the pins are claimed.  Going back is the same
  argument, and is where a failed selection's half-programmed registers are
  overwritten.
- *Restarts and losses.*  Neither touches an invariant of the bookkeeping,
  but both destroy what is programmed.  So that part is stated for each consumer
  by itself, under the condition that it has begun a selection since (`renewed`).
- *Reads.*  A quiet consumer's registers do not change, since nobody else
  owns its pins; so every word read since the beginning of the call is what
  is there now.
- *Pads.*  A legal source is below the width of the field, so it is what the
  multiplexers see; the output, input and direction multiplexers then agree,
  and `SettledApplied` says on which alternate.
- *Probe.*  The tables are usable as far as they go: each phase adds to the
  invariant what it has built, so that a failure at any step leaves tables of
  which nothing false has been said.  "The first of several" (pin, group,
  function of a name) is the minimum of a set of indices, and distinct groups
  and functions are at most as many as their declarations.
- *Which trees probe.*  `WellFormed` says it of the tree alone.  The invariant pairs
  the pins of the table with the pin nodes passed so far, one to one; so the pins
  that are found by name are those of the tree, two pins of one number are two nodes
  of one number, and more nodes than pins are two of one number or one out of range.
  Each check of the driver is then a part of `WellFormed`, and there is no other:
  the theorems say "if" and "only if".
- *What the tables are.*  `Match` says for each phase which part of the tree the
  tables are made of: the pin nodes passed so far in their order, the declarations of
  functions that came before the one at hand, the group nodes passed.  A declaration's
  place among those of its name is the number of the sooner ones, so that the next one
  goes to the end; the order (alternates of pins first, then the group nodes) is
  what `aximux_add_function` makes by appending.
- *Arrays.*  When a group node is visited, the groups of the nodes before it are in
  the table and its own is the next (`NextTaken`, from `Match`).  So at every step the
  nodes with an array of pins are those whose group is in the table, and the one that
  is visited if its arrays are allocated (`Arrays`).
- *QEMU.*  Words are sums of their bits, and each mask of the driver or the
  device is one equation between such sums.  From there each driver step on words is a step
  of `AximuxDriver` on fields, so its theorems hold of the device.
- *Patch script.*  Each piece is in a file at most once; without what a test looks
  for, none of what it puts in is there; and a file that was never cut has the pieces
  of an edit all or none.  A file that the run has passed has what
  each of its tests looks for, as the next file is only reached from one where all
  was found or could be inserted.  Files that were cut may have lost anything
  behind that, which is why the property asks no more of them.
- *Generator.*  The order of drivers does not matter: the proof says which drivers
  there are after each signal, that a driver's wire determines it, and so that
  the two sides of every connection exist and are nobody else's.  The datapath then
  follows from what each driver computes, for any number of signals and alternates.
  Addresses are distinct since 4n is below the power of two that the width gives.

- *hwh tool.*  The sorted lists are the base: an element's place is the number of
  those before it, places differ, so each place is taken, and a list by places has
  every element once.  Hence the muxes, pins and groups that are emitted are all
  there are, a pin of a mux without gaps is at its own index, and the group that a
  consumer is wired to is one whose label was written.  Of the files, the
  invariant says for each what the place in `main` allows it to be.
- *Tool to driver.*  Each node of the tree is a pin or a group of one mux, all of whose
  pins have a node, each one; muxes differ in their instances, so a controller has the
  nodes of its mux and no others.  A group's entries are slots of the mux, and
  alternates up to a last one are at least one: so the controller is `WellFormed`.
- *Labels.*  Under `Apart` the labels of pins, groups and aliases of one mux differ, and
  those of two muxes do; this is kept as each mux's nodes are put after the nodes of
  the muxes before it.  It needs to know which mux a node is of, which is the invariant
  above.
- *Who is wired.*  The first peer of a net, in document order and glue aside, is a
  device on the net if there is one.  So under `Direct` the device that an alternate
  reaches is the one it is grouped by, and the table of groups has it, since
  the invariant keeps for every mux written its groups with their consumers.
- *From net to register.*  The tables of the probed driver are the tree's
  (`Match`), so a name that one declaration has selects this declaration.  For
  alternates it is the first of that name on the pin, and no gap moves it.  For a
  group, the label that the consumer holds is on one node; that node is of the mux
  that put the consumer into the group, titled by the group and not by an
  alias; its entries are the slots of the group; and these are under `Coherent` and
  `Direct` the alternates with a net of the consumer.  `aximux_set_mux` writes the
  entries in order and the last write to a pin stays; they are sorted, so it is that of
  the pin's highest alternate.  A mux without a node for the consumer has no alternate
  of it, since `Coherent` and `Apart` leave all of them to the one group.

**Only model-checked:**

- All liveness (`CallsReturn`, `SelectReturns`, `ProbeEnds`, `Converges`): fairness
  is about ENABLED, which the prover does not treat.
- What is false in general: `ExampleProbes` of the binding's example,
  `OwnFieldOnly` with a shell beside the consumers, and `WiringResolves`, `ConsumersWired`
  and `ConsumerGetsItsNets` without their conditions.
- That `LabelAssumption` holds of strings: evaluated for those of the runs.

Every safety invariant and action property of the passing runs is stated by a theorem,
the last three under the conditions that make them true.

## Findings

1. `lab_race`: the unlocked read-modify-writes of `aximux_set_src` and
   `aximux_pinconf_set` undo each other when a debugfs `pinmux-select` runs
   beside a consumer's pinconf.  The header of `driver/aximux.c` names that use
   and assigns `SRC` to pinmux and the control bits to pinconf.  Under the
   intended production use the claims prevent it, as the proofs show.
2. `binding_example`: `docs/bindings/brunosmmm,aximux.yaml` names a group's pins
   by child node names, and its example has `"pin@0", "pin@1"`.  The driver
   registers pins as `pin0`, `pin1`, so the example ends the probe with
   `-EINVAL`.
3. `hwh_split`: `emit_pinctrl2` labels groups by name alone, so a device with
   alternates on two muxes puts one label on two nodes, although the table of
   groups is meant to go across muxes.

## Not modelled

- The AXI4-Lite slave: generated by a library outside the repository.  Each
  access is one atomic read or write of a word.
- QEMU migration: the framework copies the device's two fields.
- The hwh tool's XML, zip and text layout, and its regular expressions beyond
  what they do to one word, and ports of one name on one module.  In the model and the
  theorems, but in no design of the runs: several devices on one net, of which the
  first in the document counts; a slot heard by
  glue and driven by a device, which the tool names after the device and puts in
  no group; a constant that two muxes
  share.
- The Verilog text and the HDL library behind the generator.
- The device tree that the patched machine builds for itself, and the guest
  test.
- Driver removal: everything but the tables of groups and functions is managed by
  the device core, and nothing here runs afterwards.  These tables are never freed,
  neither then nor after a failed probe; what is inside a function's is not counted.
- The generator's connection of the AXI bus and the renaming of the slave's ports
  to capitals.
- The other scripts, Makefiles, tests: no state of the running system.

## Plan

1. The machine: the tree that `create_aximux` builds, probed, with the guest
   test's selections on the QEMU device, so that the tables of `AximuxProbe`
   become those of `AximuxDriver`.
