------------------------------- MODULE HwhProbe -------------------------------
(***************************************************************************)
(* From the hand-off to the registers: the tool's pinctrl2 output is the   *)
(* device tree that the driver is probed with, one controller for each     *)
(* mux.  A run of HwhTool is followed by one of AximuxProbe for each mux   *)
(* that may be in the board.                                               *)
(***************************************************************************)
EXTENDS AximuxProbe, HwhTool

CONSTANT HwPins  \* how many pins a mux may have in the hardware

\* The driver and the tool agree on the names of pins and on what is absent.
ASSUME HwhProbeAssumption ==
  /\ HwPins \subseteq 1..AXIMUX_MAX_PINS
  /\ \A n \in DOMAIN PinName : PinName[n] = PinRef(n)
  /\ NoProperty = Absent

\* What the tool writes for a name is a name, and no group's is a pin's.
ASSUME NamesAssumption ==
  \A d \in Designs \ {None}, n \in Namings \ {None} :
    \A x \in DOMAIN d : d[x].mux =>
      LET mux == ParseMux(d, d[x]) IN
        /\ \A p \in PinsOf(mux) :
             /\ {PinRef(p), PinNodeName(p)} \subseteq Names
             /\ \A a \in 0..MaxAlt(mux, p) : FnFor(mux, p, a, n) \in Names
        /\ \A g \in GroupTitles(mux, n) :
             /\ {GroupNodeName(g), Plain(g)} \subseteq Names
             /\ \A p \in DOMAIN PinName : PinName[p] # GroupNodeName(g)

VARIABLE probed  \* the mux whose controller is probed

\* No controller is there before the tree is.
NoController == [hwPins |-> 0, hwAlts |-> 0, children |-> <<>>]

HwhProbeInit ==
  /\ ToolInit
  /\ ctl = NoController
  /\ pc = "none" /\ k = 1 /\ f = 1
  /\ nalts = 0 /\ probed = None
  /\ pins = <<>> /\ groups = <<>> /\ funcs = <<>>
  /\ node = FALSE /\ heap = [pins |-> {}, mux |-> {}]
  /\ ret = "none"

RunTool == ToolNext /\ UNCHANGED <<probeVars, probed>>

\* The controller of a mux with n pins: its nodes in the order of the file.
ControllerOf(mux, n) ==
  LET mine == Sorted({x \in DOMAIN nodes : nodes[x].ctl = mux.instance}, InOrder)
  IN [hwPins |-> n, hwAlts |-> AXIMUX_MAX_ALTS,
      children |-> [x \in DOMAIN mine |-> nodes[mine[x]].child]]

\* The mux of an instance is in the hardware, with all the pins that the
\* hand-off has connections of and all alternates; its ports have no others.
Load(mux) ==
  /\ place = "done" /\ option.style = "pinctrl2" /\ pc = "none"
  /\ \A s \in DOMAIN mux.slots : s[2] <= AXIMUX_MAX_ALTS
  /\ \E n \in HwPins :
       /\ PinsOf(mux) \subseteq 0..(n - 1)
       /\ ctl' = ControllerOf(mux, n)
  /\ pc' = "info" /\ probed' = mux
  /\ UNCHANGED <<k, f, nalts, tables, node, heap, ret, toolVars>>

Probe == pc # "none" /\ ProbeNext /\ UNCHANGED <<toolVars, probed>>

HwhProbeNext ==
  \/ RunTool
  \/ \E x \in DOMAIN muxes : Load(muxes[x])
  \/ Probe

HwhProbeSpec == HwhProbeInit /\ [][HwhProbeNext]_<<probeVars, toolVars, probed>>

-----------------------------------------------------------------------------
(***************************************************************************)
(* Properties                                                              *)
(***************************************************************************)

\* What selecting a function for a group programs, as pairs of a pin and a
\* source: the first function and group of those names, and the function's
\* first entry for the group; nothing if set_mux refuses them.  It writes in
\* order, and of a pin that a group has twice the last value stays.
FirstOf(S) == CHOOSE x \in S : \A y \in S : x <= y
FunctionsNamed(fn) == {x \in DOMAIN funcs : funcs[x].name = fn}
GroupsNamed(group) == {x \in DOMAIN groups : groups[x].name = group}
EntriesOf(fn, group) ==
  LET es == funcs[FirstOf(FunctionsNamed(fn))].entries
  IN {e \in DOMAIN es : es[e].group = group}
Refused(on, vals) ==
  \/ Len(on) # Len(vals)
  \/ \E x \in DOMAIN on : on[x] >= AXIMUX_MAX_PINS \/ vals[x] > nalts
LastWrites(on) == {x \in DOMAIN on : \A y \in DOMAIN on : y > x => on[y] # on[x]}
Programs(fn, group) ==
  IF FunctionsNamed(fn) = {} \/ GroupsNamed(group) = {} \/ EntriesOf(fn, group) = {}
  THEN {}
  ELSE LET on == groups[FirstOf(GroupsNamed(group))].pins
           vals == funcs[FirstOf(FunctionsNamed(fn))].entries[FirstOf(EntriesOf(fn, group))].vals
       IN IF Refused(on, vals) THEN {} ELSE {<<on[x], vals[x]>> : x \in LastWrites(on)}

\* The driver's probe accepts every tree that the tool writes for a mux that
\* the hardware has, so that no group of it is refused for its pins.
EmittedProbes == pc # "failed"

\* Each name that the tool gives to an alternate of a pin selects it, or an
\* earlier one of the same name: the gaps between alternates are filled.
NamesSelectAlternates ==
  pc = "ready" =>
    \A p \in PinsOf(probed) : \A a \in 0..MaxAlt(probed, p) :
      LET name == FnFor(probed, p, a, naming)
      IN \E b \in 0..a : /\ FnFor(probed, p, b, naming) = name
                         /\ Programs(name, PinName[p]) = {<<p, b>>}

\* The alternates of a mux that are on nets of a consumer.
AlternatesFor(mux, cons) ==
  {s \in DOMAIN mux.slots : s[2] # 0 /\
     \E d \in DevicesAt(design, mux, s, {"incoming", "outgoing"}) :
       DtLabel(d, naming) = cons}

\* Of several alternates of a pin the highest.
Highest(S) == {s \in S : \A t \in S : t[1] = s[1] => t[2] <= s[2]}

\* From net to register: the state that the tool gives to a consumer, looked
\* up in the tables of the probed driver, leaves every pin that has alternates
\* on nets of that consumer on one of them, and touches no other pin.  Of a
\* pin with several of the consumer's alternates it is the highest that stays:
\* the lower ones are written and overwritten, although the tree lists them as
\* if they could be routed together (collect_pinctrl2_groups, aximux_set_mux).
\* And a mux without the state has no alternate of the consumer.
ConsumerGetsItsNets ==
  pc = "ready" =>
    \A cons \in DOMAIN wiring :
      LET mine == AlternatesFor(probed, cons)
          here == {n \in Labelled(wiring[cons]) : nodes[n].ctl = probed.instance}
      IN /\ \A n \in here :
              Programs(nodes[n].child.fn, nodes[n].child.name) = Highest(mine)
         /\ here = {} => mine = {}
=============================================================================
