----------------------------- MODULE AximuxProbe -----------------------------
(***************************************************************************)
(* aximux_probe: from a controller's device tree node and its MUXINFO      *)
(* register to the tables of pins, groups and functions that the run-time  *)
(* callbacks index.  One step per child node and per table entry.  Every   *)
(* allocation may fail, and the probe then returns from wherever it is.    *)
(*                                                                         *)
(* The node iterator holds a reference on the current child; node says     *)
(* whether it is still held.  heap has the two arrays that are kmalloc'd   *)
(* for a group node.  The tables of groups and functions are not devm:     *)
(* what a failed probe has put into them is never freed, and stays in      *)
(* groups and funcs.  The array of a pin's own group is in the table from  *)
(* its allocation on; the arrays inside a function are not counted.        *)
(***************************************************************************)
EXTENDS Srcsel, Sequences, FiniteSets

CONSTANTS
  Names,         \* node, pin, group and function names
  PinName,       \* PinName[n]: the string "pin<n>"
  Controllers,   \* the nodes the driver may be probed for
  Absent,        \* a property that a node does not have
  AllocMayFail   \* whether allocations can fail

(***************************************************************************)
(* An available child node.  reg, funcs (function-names or else            *)
(* alternate-names), pins, mux and fn (the brunosmmm properties) may be    *)
(* absent.                                                                 *)
(***************************************************************************)
Opt(values) == {Absent} \cup values
Child == [name : Names, reg : Opt(Nat), funcs : Opt(Seq(Names)),
          pins : Opt(Seq(Names)), mux : Opt(Seq(Nat)), fn : Opt(Names)]

\* hwPins and hwAlts are the two byte fields of MUXINFO.
Controller == [hwPins : 0..255, hwAlts : 0..255, children : Seq(Child)]

ASSUME ProbeAssumption ==
  /\ PinName \in [0..(AXIMUX_MAX_PINS - 1) -> Names]
  /\ \A m, n \in DOMAIN PinName : PinName[m] = PinName[n] => m = n
  /\ Absent \notin Nat \cup Names
  /\ Absent \notin Seq(Names) /\ Absent \notin Seq(Nat)
  /\ Controllers \subseteq Controller
  /\ AllocMayFail \in BOOLEAN

VARIABLES
  ctl,      \* the controller that is probed
  pc,       \* the phase of the probe
  k,        \* the next child node, pin or function of the phase
  f,        \* the next function name of pin k
  nalts,    \* amx->nalts
  pins,     \* amx->pins: number, name and function names
  groups,   \* amx->groups: name and pins
  funcs,    \* amx->functions: name, entries (group, vals) in order, and
            \* stale: a failed krealloc left a pointer to freed memory
  node,     \* a reference on child k is held
  heap,     \* the children whose arrays of pins, and of mux values, are allocated
  ret       \* the probe's result

probeVars == <<ctl, pc, k, f, nalts, pins, groups, funcs, node, heap, ret>>
tables == <<pins, groups, funcs>>

IsGroupNode(c) == c.pins # Absent
IsPinNode(c) == ~IsGroupNode(c) /\ c.reg # Absent
Current == ctl.children[k]
PinChildren(c) == {x \in DOMAIN c.children : IsPinNode(c.children[x])}
PinNodes == PinChildren(ctl)

ProbeInit ==
  /\ ctl \in Controllers
  /\ pc = "info" /\ k = 1 /\ f = 1
  /\ nalts = 0
  /\ pins = <<>> /\ groups = <<>> /\ funcs = <<>>
  /\ node = FALSE /\ heap = [pins |-> {}, mux |-> {}]
  /\ ret = "none"

\* Return with an error, leaving everything else as it is.
Fail(error) == pc' = "failed" /\ ret' = error

OutOfMemory == AllocMayFail /\ Fail("ENOMEM")

-----------------------------------------------------------------------------
(***************************************************************************)
(* aximux_parse_pins                                                       *)
(***************************************************************************)
AnyAlts(a) == a
EffectiveAlts(a) == IF a \in 1..AXIMUX_MAX_ALTS THEN a ELSE AXIMUX_MAX_ALTS

\* devm_kzalloc or the mapping of the registers fails; the latter's other
\* errors, for a bad or busy resource, count as want of memory as well.
NoDevice ==
  /\ pc = "info"
  /\ OutOfMemory
  /\ UNCHANGED <<ctl, k, f, nalts, tables, node, heap>>

\* MUXINFO must name 1..32 pins, and the tree no more than that.
BadInfo ==
  /\ pc = "info"
  /\ \/ ctl.hwPins \notin 1..AXIMUX_MAX_PINS
     \/ Cardinality(PinNodes) > ctl.hwPins
  /\ Fail("EINVAL")
  /\ nalts' = IF ctl.hwPins \in 1..AXIMUX_MAX_PINS
              THEN EffectiveAlts(ctl.hwAlts) ELSE nalts
  /\ UNCHANGED <<ctl, k, f, tables, node, heap>>

GoodInfo ==
  /\ pc = "info"
  /\ ctl.hwPins \in 1..AXIMUX_MAX_PINS
  /\ Cardinality(PinNodes) <= ctl.hwPins
  /\ nalts' = EffectiveAlts(ctl.hwAlts)
  /\ \/ OutOfMemory /\ UNCHANGED pins
     \/ /\ PinNodes # {}
        /\ pc' = "pins"
        /\ UNCHANGED <<pins, ret>>
     \/ /\ PinNodes = {}
        /\ pins' = [n \in 1..ctl.hwPins |->
             [number |-> n - 1, name |-> PinName[n - 1], funcs |-> <<>>]]
        /\ pc' = "table"
        /\ UNCHANGED ret
  /\ UNCHANGED <<ctl, k, f, groups, funcs, node, heap>>

AtChild(phase) == pc = phase /\ k <= Len(ctl.children)

SkipNothing ==
  /\ AtChild("pins") /\ ~IsPinNode(Current)
  /\ UNCHANGED probeVars
SkipChild ==
  /\ \/ AtChild("pins") /\ ~IsPinNode(Current)
     \/ AtChild("extra") /\ (~IsGroupNode(Current) \/ Current.pins = <<>>)
  /\ k' = k + 1
  /\ UNCHANGED <<ctl, pc, f, nalts, tables, node, heap, ret>>

RegAnywhere(c) == TRUE
RegInRange(c) == c.reg < ctl.hwPins

\* An empty list of names is a property of_property_count_strings refuses.
\* The returns inside the loop keep the reference on the child.
BadPinNode ==
  /\ AtChild("pins")
  /\ IsPinNode(Current)
  /\ \/ ~RegInRange(Current) /\ Fail("EINVAL")
     \/ RegInRange(Current) /\ OutOfMemory
     \/ RegInRange(Current) /\ Current.funcs = <<>> /\ Fail("ENODATA")
  /\ node' = TRUE
  /\ UNCHANGED <<ctl, k, f, nalts, tables, heap>>

ParsePin ==
  /\ AtChild("pins")
  /\ IsPinNode(Current)
  /\ RegInRange(Current) /\ Current.funcs # <<>>
  /\ pins' = Append(pins,
       [number |-> Current.reg, name |-> PinName[Current.reg],
        funcs  |-> IF Current.funcs = Absent THEN <<>> ELSE Current.funcs])
  /\ k' = k + 1
  /\ UNCHANGED <<ctl, pc, f, nalts, groups, funcs, node, heap, ret>>

PinsParsed ==
  /\ pc = "pins"
  /\ k > Len(ctl.children)
  /\ pc' = "table" /\ k' = 1
  /\ UNCHANGED <<ctl, f, nalts, tables, node, heap, ret>>

-----------------------------------------------------------------------------
(***************************************************************************)
(* aximux_add_function                                                     *)
(***************************************************************************)
Named(name) == {x \in DOMAIN funcs : funcs[x].name = name}

\* The function is there, with or without the new entry at its end.
WithFunction(name) ==
  IF Named(name) # {} THEN funcs
  ELSE Append(funcs, [name |-> name, entries |-> <<>>, stale |-> FALSE])

FunctionIndex(name) ==
  CHOOSE x \in DOMAIN WithFunction(name) :
    /\ WithFunction(name)[x].name = name
    /\ \A y \in 1..(x - 1) : WithFunction(name)[y].name # name

Entry(group, vals) == [group |-> group, vals |-> vals]

AddedAtFront(name, group, vals) ==
  [WithFunction(name) EXCEPT ![FunctionIndex(name)].entries =
     <<Entry(group, vals)>> \o @]
Added(name, group, vals) ==
  [WithFunction(name) EXCEPT ![FunctionIndex(name)].entries =
     Append(@, Entry(group, vals))]

\* Out of memory: before anything changed, or when the three parallel arrays
\* grow.  A function that is new then stays without entries; one that has
\* entries may have had an array moved and not another, and its pointer to
\* the array that moved is stale.
Spoiled(name) ==
  {[WithFunction(name) EXCEPT ![FunctionIndex(name)].stale = moved] :
     moved \in {FALSE, Named(name) # {}}}

FailureIgnored(name) == AllocMayFail /\ funcs' \in Spoiled(name) /\ UNCHANGED <<pc, ret>>
AddFunctionFails(name) == OutOfMemory /\ funcs' \in {funcs} \cup Spoiled(name)

-----------------------------------------------------------------------------
(***************************************************************************)
(* aximux_build_default_groups: a group of one for each pin, and the       *)
(* position of a function name as its mux value.                           *)
(***************************************************************************)
AllocGroups ==
  /\ pc = "table"
  /\ \/ OutOfMemory
     \/ pc' = "default" /\ UNCHANGED ret
  /\ UNCHANGED <<ctl, k, f, nalts, tables, node, heap>>

AtPin == pc = "default" /\ k <= Len(pins)

\* Pin k gets its group when its first function is due.
NewGroup ==
  /\ AtPin
  /\ Len(groups) < k
  /\ \/ OutOfMemory /\ UNCHANGED groups
     \/ /\ groups' = Append(groups, [name |-> pins[k].name,
                                     pins |-> <<pins[k].number>>])
        /\ UNCHANGED <<pc, ret>>
  /\ UNCHANGED <<ctl, k, f, nalts, pins, funcs, node, heap>>

DefaultMux(x) == x - 1

AddPinFunction ==
  /\ AtPin
  /\ Len(groups) = k
  /\ f <= Len(pins[k].funcs)
  /\ \/ /\ AddFunctionFails(pins[k].funcs[f])
        /\ UNCHANGED f
     \/ /\ funcs' = Added(pins[k].funcs[f], pins[k].name, <<DefaultMux(f)>>)
        /\ f' = f + 1
        /\ UNCHANGED <<pc, ret>>
  /\ UNCHANGED <<ctl, k, nalts, pins, groups, node, heap>>

PinDone ==
  /\ AtPin
  /\ Len(groups) = k
  /\ f > Len(pins[k].funcs)
  /\ k' = k + 1 /\ f' = 1
  /\ UNCHANGED <<ctl, pc, nalts, tables, node, heap, ret>>

DefaultsDone ==
  /\ pc = "default"
  /\ k > Len(pins)
  /\ pc' = "extra" /\ k' = 1
  /\ UNCHANGED <<ctl, f, nalts, tables, node, heap, ret>>

-----------------------------------------------------------------------------
(***************************************************************************)
(* aximux_parse_extra_groups: a group node and its function.               *)
(***************************************************************************)
AtGroupNode ==
  AtChild("extra") /\ IsGroupNode(Current) /\ Current.pins # <<>>

\* aximux_find_pin_by_name: the number of the first pin of that name.
PinsNamed(name) == {x \in DOMAIN pins : pins[x].name = name}
FindPin(name) ==
  pins[CHOOSE x \in PinsNamed(name) :
         \A y \in PinsNamed(name) : x <= y].number

KnownPins(c) == \A x \in DOMAIN c.pins : PinsNamed(c.pins[x]) # {}

\* A mux list that is absent or too short counts as all zeros, and one that
\* is too long is cut.
MuxOfLonger(c) ==
  IF c.mux # Absent /\ Len(c.mux) > Len(c.pins)
  THEN SubSeq(c.mux, 1, Len(c.pins))
  ELSE [x \in 1..Len(c.pins) |-> 0]
MuxOf(c) ==
  IF c.mux # Absent /\ Len(c.mux) >= Len(c.pins)
  THEN SubSeq(c.mux, 1, Len(c.pins))
  ELSE [x \in 1..Len(c.pins) |-> 0]

FunctionOf(c) == IF c.fn = Absent THEN c.name ELSE c.fn

\* Both arrays are freed again, the reference is not given back.
NoGroupBuffers ==
  /\ AtGroupNode
  /\ k \notin heap.mux
  /\ OutOfMemory
  /\ node' = TRUE
  /\ UNCHANGED <<ctl, k, f, nalts, tables, heap>>

AllocGroupBuffers ==
  /\ AtGroupNode
  /\ k \notin heap.mux
  /\ heap' = [pins |-> heap.pins \cup {k}, mux |-> heap.mux \cup {k}]
  /\ node' = TRUE
  /\ UNCHANGED <<ctl, pc, k, f, nalts, tables, ret>>

RejectedKeepsPins ==
  /\ AtGroupNode
  /\ k \in heap.mux
  /\ \/ ~KnownPins(Current) /\ Fail("EINVAL")
     \/ KnownPins(Current) /\ OutOfMemory
  /\ heap' = [heap EXCEPT !.mux = @ \ {k}] /\ node' = FALSE
  /\ UNCHANGED <<ctl, k, f, nalts, tables>>

\* The err label, for an unknown pin or no room for the group: both arrays are
\* freed and the reference is given back.
GroupRejected ==
  /\ AtGroupNode
  /\ k \in heap.mux
  /\ \/ ~KnownPins(Current) /\ Fail("EINVAL")
     \/ KnownPins(Current) /\ OutOfMemory
  /\ heap' = [pins |-> heap.pins \ {k}, mux |-> heap.mux \ {k}]
  /\ node' = FALSE
  /\ UNCHANGED <<ctl, k, f, nalts, tables>>

\* The array of pins is the group's from here on.  The mux array, of which the
\* function has a copy, is freed before the result of aximux_add_function is
\* looked at; on failure the reference is kept.
AddGroup ==
  /\ AtGroupNode
  /\ k \in heap.mux
  /\ KnownPins(Current)
  /\ groups' = Append(groups,
       [name |-> Current.name,
        pins |-> [x \in DOMAIN Current.pins |-> FindPin(Current.pins[x])]])
  /\ heap' = [heap EXCEPT !.mux = @ \ {k}]
  /\ \/ AddFunctionFails(FunctionOf(Current)) /\ UNCHANGED <<k, node>>
     \/ /\ funcs' = Added(FunctionOf(Current), Current.name, MuxOf(Current))
        /\ k' = k + 1 /\ node' = FALSE
        /\ UNCHANGED <<pc, ret>>
  /\ UNCHANGED <<ctl, f, nalts, pins>>

ExtraDone ==
  /\ pc = "extra"
  /\ k > Len(ctl.children)
  /\ pc' = "register"
  /\ UNCHANGED <<ctl, k, f, nalts, tables, node, heap, ret>>

-----------------------------------------------------------------------------
\* devm_pinctrl_register_and_init and pinctrl_enable: the core refuses two
\* pins of one number.
Register ==
  /\ pc = "register"
  /\ \/ OutOfMemory
     \/ /\ \E x, y \in DOMAIN pins : x # y /\ pins[x].number = pins[y].number
        /\ Fail("EINVAL")
     \/ /\ \A x, y \in DOMAIN pins : pins[x].number = pins[y].number => x = y
        /\ pc' = "ready" /\ ret' = "ok"
  /\ UNCHANGED <<ctl, k, f, nalts, tables, node, heap>>

Finished == pc \in {"ready", "failed"} /\ UNCHANGED probeVars

ProbeStep ==
  \/ NoDevice    \/ BadInfo   \/ GoodInfo   \/ BadPinNode     \/ ParsePin   \/ PinsParsed
  \/ AllocGroups \/ NewGroup   \/ AddPinFunction \/ PinDone    \/ DefaultsDone
  \/ NoGroupBuffers \/ AllocGroupBuffers \/ GroupRejected \/ AddGroup
  \/ SkipChild   \/ ExtraDone  \/ Register

ProbeNext == ProbeStep \/ Finished

\* The driver core runs the probe to its return.
ProbeSpec == ProbeInit /\ [][ProbeNext]_probeVars /\ WF_probeVars(ProbeStep)

-----------------------------------------------------------------------------
(***************************************************************************)
(* Properties                                                              *)
(***************************************************************************)

\* The probe's state is well typed, arrays are only those of children of the
\* tree, and the one of mux values is only there while its node is visited.
ProbeTypeOK ==
  /\ ctl \in Controllers
  /\ pc \in {"info", "pins", "table", "default", "extra", "register",
             "ready", "failed"}
  /\ k \in Nat \ {0} /\ f \in Nat \ {0}
  /\ nalts \in 0..AXIMUX_MAX_ALTS
  /\ pins \in Seq([number : 0..(AXIMUX_MAX_PINS - 1), name : Names,
                   funcs : Seq(Names)])
  /\ groups \in Seq([name : Names, pins : Seq(Nat)])
  /\ \A x \in DOMAIN funcs :
       /\ funcs[x].name \in Names /\ funcs[x].stale \in BOOLEAN
       /\ funcs[x].entries \in Seq([group : Names, vals : Seq(Nat)])
  /\ node \in BOOLEAN
  /\ heap \in [pins : SUBSET DOMAIN ctl.children, mux : SUBSET DOMAIN ctl.children]
  /\ ret \in {"none", "ok", "EINVAL", "ENODATA", "ENOMEM"}
  /\ heap.mux # {} => pc = "extra" /\ node /\ heap.mux = {k}

\* The group nodes, and how many of the nodes S there are up to child x, which
\* is where in its table each comes to be.
NonEmptyGroup(c) == IsGroupNode(c) /\ c.pins # <<>>
GroupChildren(c) == {x \in DOMAIN c.children : NonEmptyGroup(c.children[x])}
PlaceIn(S, x) == Cardinality({y \in S : y <= x})

\* The declarations of a tree: one for each alternate of a pin node, and one
\* for each group node; those of pins come first, and otherwise they are in
\* the order of the tree.
Alternates(c) == IF c.funcs = Absent THEN {} ELSE DOMAIN c.funcs
Declarations(c) ==
  {<<2, x, 1>> : x \in GroupChildren(c)}
    \cup UNION {{<<1, x, a>> : a \in Alternates(c.children[x])} : x \in PinChildren(c)}
Sooner(d, e) ==
  \/ d[1] < e[1]
  \/ d[1] = e[1] /\ (d[2] < e[2] \/ (d[2] = e[2] /\ d[3] < e[3]))

DeclaredFn(c, d) ==
  LET child == c.children[d[2]]
  IN IF d[1] = 1 THEN child.funcs[d[3]] ELSE FunctionOf(child)
DeclaredEntry(c, d) ==
  LET child == c.children[d[2]]
  IN IF d[1] = 1 THEN Entry(PinName[child.reg], <<d[3] - 1>>)
     ELSE Entry(child.name, MuxOf(child))

\* The declarations of D for function name, and the place of one among them.
DeclaredFor(c, D, name) == {d \in D : DeclaredFn(c, d) = name}
EntryPlace(c, D, d) ==
  Cardinality({e \in DeclaredFor(c, D, DeclaredFn(c, d)) : Sooner(e, d)}) + 1

PinsMatch ==
  IF PinNodes = {}
  THEN Len(pins) = ctl.hwPins /\ \A x \in DOMAIN pins : pins[x].number = x - 1
  ELSE /\ Len(pins) = Cardinality(PinNodes)
       /\ \A x \in PinNodes : pins[PlaceIn(PinNodes, x)].number = ctl.children[x].reg
GroupsMatch ==
  LET G == GroupChildren(ctl) IN
    /\ Len(groups) = Len(pins) + Cardinality(G)
    /\ \A x \in DOMAIN pins :
         groups[x] = [name |-> PinName[pins[x].number], pins |-> <<pins[x].number>>]
    /\ \A x \in G :
         LET group == groups[Len(pins) + PlaceIn(G, x)]
             child == ctl.children[x]
         IN /\ group.name = child.name /\ Len(group.pins) = Len(child.pins)
            /\ \A i \in DOMAIN child.pins : PinName[group.pins[i]] = child.pins[i]
FunctionsMatch ==
  LET D == Declarations(ctl) IN
    /\ \A x, y \in DOMAIN funcs : funcs[x].name = funcs[y].name => x = y
    /\ {funcs[x].name : x \in DOMAIN funcs} = {DeclaredFn(ctl, d) : d \in D}
    /\ \A x \in DOMAIN funcs :
         LET mine == DeclaredFor(ctl, D, funcs[x].name)
         IN /\ Len(funcs[x].entries) = Cardinality(mine)
            /\ \A d \in mine :
                 funcs[x].entries[EntryPlace(ctl, D, d)] = DeclaredEntry(ctl, d)

\* What a probe registers is the tree and nothing but the tree: the pins of
\* the pin nodes or of the hardware, one group for each pin and each group node
\* in order, one function for each name, and under it that name's declarations
\* in order, whatever the interleaving of pins and groups among the children
\* (aximux_add_function).
TablesMatchTree == pc = "ready" => PinsMatch /\ GroupsMatch /\ FunctionsMatch

\* The callbacks can index what a probe registers: pins are signals of the
\* hardware, groups are made of registered pins, every function names groups
\* that exist, and if group names differ then with one value for each pin, so
\* that no set_mux of a declared pair is refused for its shape.
TablesUsable ==
  pc = "ready" =>
    LET numbers == {pins[x].number : x \in DOMAIN pins} IN
      /\ numbers \subseteq 0..(ctl.hwPins - 1) /\ ctl.hwPins <= AXIMUX_MAX_PINS
      /\ nalts \in 1..AXIMUX_MAX_ALTS
      /\ \A g \in DOMAIN groups :
           /\ groups[g].pins # <<>>
           /\ \A x \in DOMAIN groups[g].pins : groups[g].pins[x] \in numbers
      /\ \A x \in DOMAIN funcs : \A e \in DOMAIN funcs[x].entries :
           LET same == {g \in DOMAIN groups :
                          groups[g].name = funcs[x].entries[e].group}
           IN /\ same # {}
              /\ \A g \in same :
                   same = {g} =>
                     Len(groups[g].pins) = Len(funcs[x].entries[e].vals)

\* A pointer that a failed krealloc left behind is never followed: the probe
\* has failed by then, and the tables are not registered.
StaleNeverUsed ==
  (\E x \in DOMAIN funcs : funcs[x].stale \/ funcs[x].entries = <<>>)
    => pc = "failed"

\* The group nodes whose group is in the table.
Taken == {x \in GroupChildren(ctl) : Len(pins) + PlaceIn(GroupChildren(ctl), x) <= Len(groups)}

\* The two arrays that are allocated for a group node: at any return that of
\* mux values is freed, and that of pins is freed or is the group's; no group
\* loses its own.  So a failed probe leaks those of the groups in its table,
\* which is not freed either, and of no other node.  A probe that succeeds has
\* given back every reference.  One that fails may keep one, of the child that
\* it stopped at, as the returns from inside the loops do not give it back; but
\* not of a group node that is refused (aximux_parse_extra_groups).
ArraysAccounted ==
  /\ Taken \subseteq heap.pins
  /\ pc \in {"ready", "failed"} => heap = [pins |-> Taken, mux |-> {}]
  /\ pc = "ready" => ~node
  /\ pc = "failed" /\ node =>
       k \in DOMAIN ctl.children /\ (ret = "ENOMEM" \/ groups = <<>>)

\* The probe of any tree comes to an end, and success is the only end of a
\* probe without an error.
ProbeEnds == <>(\/ pc = "ready" /\ ret = "ok"
                \/ pc = "failed" /\ ret \notin {"none", "ok"})

\* The tree of the binding's own example, with hardware that has its pins and
\* no allocation failing, is one the probe accepts (the yaml's examples:
\* group pins are named by their child nodes).
ExampleProbes == pc # "failed"
=============================================================================
