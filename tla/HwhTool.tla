------------------------------- MODULE HwhTool -------------------------------
(***************************************************************************)
(* A run of tools/hwh_aximux_dt.py: parse a hand-off, emit the muxes one   *)
(* by one in one of two styles, wire the consumers, and write up to three  *)
(* files.  Text is not modelled: a file is the nodes that are in it.       *)
(*                                                                         *)
(* A device tree node is the record that AximuxProbe takes for a child,    *)
(* with the controller it is under and the label that is put on it.        *)
(***************************************************************************)
EXTENDS HwhNaming

CONSTANTS
  Designs,   \* the hand-offs
  Namings,   \* the contents of the naming file
  Options,   \* the command lines
  NoProperty,    \* a property that a node does not have
  None       \* no hand-off in the archive, or a naming file that is not read

(***************************************************************************)
(* A command line: the style, and which of the three files are asked for.  *)
(***************************************************************************)
Files == {"json", "output", "consumers"}
Option == [style : {"legacy", "pinctrl2", "json"}, files : SUBSET Files]
ASSUME OptionAssumption == Options \subseteq Option

\* Every instance is called something.  Two muxes differ in their instances,
\* which are the labels of their controllers, and two ports of a mux in what
\* they are; the names that are sorted have a rank.
HwhModule == [inst : STRING, mux : BOOLEAN, ports : Seq([name : STRING, net : STRING])]
ASSUME DesignAssumption ==
  \A d \in Designs \ {None} :
    /\ d \in Seq(HwhModule) /\ \A x \in DOMAIN d : d[x].inst # ""
    /\ \A x, y \in DOMAIN d :
         d[x].mux /\ d[y].mux /\ d[x].inst = d[y].inst => x = y
    /\ \A x \in DOMAIN d : d[x].mux =>
         /\ d[x].inst \in DOMAIN Rank
         /\ \A p, q \in MuxPorts(d[x]) : SlotOf[p.name] = SlotOf[q.name] => p = q
ASSUME NamingAssumption ==
  \A n \in Namings \ {None} :
    /\ n.aliases \in Seq(STRING \X STRING)
    /\ \A d \in Designs \ {None} : \A x \in DOMAIN d :
         d[x].mux => GroupNames(ParseMux(d, d[x]), n) \subseteq DOMAIN Rank

VARIABLES
  design, naming, option,
  place,      \* the place in main
  muxes,      \* parse_muxes' result
  turn,       \* the next mux to emit
  nodes,      \* what emit_pinctrl2 has written of the controllers
  all_groups, \* group name to the consumers of it
  wiring,     \* consumer to the label of its pinctrl-0
  legacy,     \* what emit_legacy has written: names of each mux
  by_mux,     \* what emit_consumers has written: group name to pins, by mux
  file        \* of each file: what was there, part of the text, or all

toolVars == <<design, naming, option, place, muxes, turn, nodes, all_groups,
              wiring, legacy, by_mux, file>>
inputs == <<design, naming, option>>
emitted == <<nodes, all_groups, wiring, legacy, by_mux>>

PinRef(p) == Plain("pin" \o ToString(p))
PinNodeName(p) == Plain("pin@" \o ToString(p))
GroupNodeName(g) == Plain(g \o "-grp")
PinLabel(mux, p) == mux.instance \o "_pin" \o ToString(p)
GroupLabel(g) == "pinctrl_" \o g

\* What the group nodes of a mux are called: groups, and aliases of them.
GroupTitles(mux, names) ==
  GroupNames(mux, names)
    \cup {Or(CleanName, names.aliases[x][2]) :
            x \in {y \in DOMAIN names.aliases :
                    names.aliases[y][1] \in GroupNames(mux, names)}}

\* Labels and names of nodes are put together so that they can be told apart.
ASSUME LabelAssumption ==
  \A d \in Designs \ {None}, n \in Namings \ {None} :
    LET ms == ParsedMuxes(d) IN
    \A m1, m2 \in ms :
      /\ \A p \in PinsOf(m1), q \in PinsOf(m2) :
           PinLabel(m1, p) = PinLabel(m2, q) => m1.instance = m2.instance /\ p = q
      /\ \A g \in GroupTitles(m1, n), h \in GroupTitles(m2, n) :
           GroupLabel(g) = GroupLabel(h) \/ GroupNodeName(g) = GroupNodeName(h) => g = h

MuxNamed(inst) == muxes[CHOOSE x \in DOMAIN muxes : muxes[x].instance = inst]

ToolInit ==
  /\ design \in Designs /\ naming \in Namings /\ option \in Options
  /\ place = "naming" /\ turn = 1
  /\ muxes = <<>> /\ nodes = <<>> /\ legacy = <<>>
  /\ all_groups = <<>> /\ wiring = <<>> /\ by_mux = <<>>
  /\ file = [f \in Files |-> "old"]

-----------------------------------------------------------------------------
(***************************************************************************)
(* main, up to the muxes                                                   *)
(***************************************************************************)
LoadNaming ==
  /\ place = "naming"
  /\ place' = IF naming = None THEN "failed" ELSE "load"
  /\ UNCHANGED <<inputs, muxes, turn, emitted, file>>

LoadHwh ==
  /\ place = "load"
  /\ place' = IF design = None THEN "failed" ELSE "parse"
  /\ UNCHANGED <<inputs, muxes, turn, emitted, file>>

Parse ==
  /\ place = "parse"
  /\ muxes' = ParseMuxes(design)
  /\ place' = IF "json" \in option.files THEN "json" ELSE "emit"
  /\ UNCHANGED <<inputs, turn, emitted, file>>

-----------------------------------------------------------------------------
(***************************************************************************)
(* emit_pinctrl2: pin nodes, groups and aliases of one mux                 *)
(***************************************************************************)
TreeNode(mux, label, name, reg, functions, pins, vals, fn) ==
  [ctl |-> mux.instance, label |-> label,
   child |-> [name |-> name, reg |-> reg, funcs |-> functions, pins |-> pins,
              mux |-> vals, fn |-> fn]]

\* One name for every alternate up to the last, whether it is connected or not.
FunctionNamesPacked(mux, p) ==
  LET alts == Sorted(AltsOf(mux, p), InOrder)
  IN [x \in DOMAIN alts |-> FnFor(mux, p, alts[x], naming)]
FunctionNames(mux, p) ==
  [x \in 1..(MaxAlt(mux, p) + 1) |-> FnFor(mux, p, x - 1, naming)]

PinNode(mux, p) ==
  TreeNode(mux, PinLabel(mux, p), PinNodeName(p), p, FunctionNames(mux, p),
       NoProperty, NoProperty, NoProperty)

\* The group of device src under the name g: an alias differs in name only.
GroupPinNode(mux, g, src) ==
  LET e == Entries(mux, src, naming)
  IN TreeNode(mux, GroupLabel(g), GroupNodeName(g), NoProperty, NoProperty,
          [x \in DOMAIN e |-> PinNodeName(e[x][1])],
          [x \in DOMAIN e |-> e[x][2]], Plain(g))
GroupNode(mux, g, src) ==
  LET e == Entries(mux, src, naming)
  IN TreeNode(mux, GroupLabel(g), GroupNodeName(g), NoProperty, NoProperty,
          [x \in DOMAIN e |-> PinRef(e[x][1])], [x \in DOMAIN e |-> e[x][2]],
          Plain(g))

PinNodesOf(mux) == LET ps == PinList(mux) IN [x \in DOMAIN ps |-> PinNode(mux, ps[x])]
GroupNodesOf(mux) ==
  LET gs == Sorted(GroupNames(mux, naming), ByRank)
  IN [x \in DOMAIN gs |-> GroupNode(mux, gs[x], gs[x])]
AliasesOf(mux) ==
  LET as == naming.aliases
      on == Sorted({x \in DOMAIN as : as[x][1] \in GroupNames(mux, naming)}, InOrder)
  IN [x \in DOMAIN on |-> as[on[x]]]
AliasNodesOldLabel(mux) ==
  LET as == AliasesOf(mux) IN [x \in DOMAIN as |-> GroupNode(mux, as[x][1], as[x][1])]
AliasNodes(mux) ==
  LET as == AliasesOf(mux)
  IN [x \in DOMAIN as |-> GroupNode(mux, Or(CleanName, as[x][2]), as[x][1])]

MuxNodes(mux) == PinNodesOf(mux) \o GroupNodesOf(mux) \o AliasNodes(mux)

\* Groups of one name on several muxes become one entry with all consumers.
Merged(groups, mux) ==
  LET names == GroupNames(mux, naming)
      before(g) == IF g \in DOMAIN groups THEN groups[g] ELSE {}
      here(g) == IF g \in names THEN ConsumersOf(mux, g, naming) ELSE {}
  IN [g \in DOMAIN groups \cup names |-> before(g) \cup here(g)]

EmitPinctrl2 ==
  /\ place = "emit" /\ option.style = "pinctrl2" /\ turn <= Len(muxes)
  /\ nodes' = nodes \o MuxNodes(muxes[turn])
  /\ all_groups' = Merged(all_groups, muxes[turn])
  /\ turn' = turn + 1
  /\ UNCHANGED <<inputs, place, muxes, wiring, legacy, by_mux, file>>

\* by_consumer: the first group of a consumer, in the order of names.
GroupsOfConsumer(cons) == {g \in DOMAIN all_groups : cons \in all_groups[g]}
WiredConsumers == (UNION {all_groups[g] : g \in DOMAIN all_groups}) \ naming.skip

WireConsumers ==
  /\ place = "emit" /\ option.style = "pinctrl2" /\ turn > Len(muxes)
  /\ wiring' = [cons \in WiredConsumers |->
                  GroupLabel(Head(Sorted(GroupsOfConsumer(cons), ByRank)))]
  /\ place' = "write" /\ turn' = 1
  /\ UNCHANGED <<inputs, muxes, nodes, all_groups, legacy, by_mux, file>>

-----------------------------------------------------------------------------
(***************************************************************************)
(* emit_legacy: the names of alternates 0 and 1, listed by pin             *)
(***************************************************************************)
AlternateName(mux, p) ==
  IF 1 \in AltsOf(mux, p) THEN FnFor(mux, p, 1, naming) ELSE UnusedName(p, 1)
AlternateNamesPacked(mux) ==
  LET Has(p) == 1 \in AltsOf(mux, p)
      ps == SelectSeq(PinList(mux), Has)
  IN [x \in DOMAIN ps |-> AlternateName(mux, ps[x])]
AlternateNames(mux) ==
  LET ps == PinList(mux) IN [x \in DOMAIN ps |-> AlternateName(mux, ps[x])]

EmitLegacy ==
  /\ place = "emit" /\ option.style = "legacy" /\ turn <= Len(muxes)
  /\ legacy' = Append(legacy,
       [ctl |-> muxes[turn].instance,
        signals |-> LET ps == PinList(muxes[turn])
                    IN [x \in DOMAIN ps |-> FnFor(muxes[turn], ps[x], 0, naming)],
        alternates |-> AlternateNames(muxes[turn])])
  /\ turn' = turn + 1
  /\ UNCHANGED <<inputs, place, muxes, nodes, all_groups, wiring, by_mux, file>>

LegacyEmitted ==
  /\ place = "emit"
  /\ \/ option.style = "json"
     \/ option.style = "legacy" /\ turn > Len(muxes)
  /\ place' = "write" /\ turn' = 1
  /\ UNCHANGED <<inputs, muxes, emitted, file>>

-----------------------------------------------------------------------------
(***************************************************************************)
(* The files.  Opening one empties it; the disk may be full; the run may   *)
(* be interrupted at any point.                                            *)
(***************************************************************************)
\* A file's place in main, and the next one.
PlaceOf(f) == CASE f = "json" -> "json" [] f = "output" -> "write"
                [] f = "consumers" -> "fragment"
NextPlace(f) == CASE f = "json" -> "emit" [] f = "output" -> "consumers"
              [] f = "consumers" -> "done"

OpenFileAlways(f) ==
  /\ place = PlaceOf(f) /\ file[f] = "old"
  /\ file' = [file EXCEPT ![f] = "part"]
  /\ UNCHANGED <<inputs, place, muxes, turn, emitted>>
OpenFile(f) ==
  /\ place = PlaceOf(f) /\ f \in option.files /\ file[f] = "old"
  /\ file' = [file EXCEPT ![f] = "part"]
  /\ UNCHANGED <<inputs, place, muxes, turn, emitted>>

CloseFileOrGoOn(f) ==
  /\ place = PlaceOf(f) /\ file[f] = "part"
  /\ file' \in {file, [file EXCEPT ![f] = "new"]}
  /\ place' = NextPlace(f)
  /\ UNCHANGED <<inputs, muxes, turn, emitted>>
CloseFile(f) ==
  /\ place = PlaceOf(f) /\ file[f] = "part"
  /\ \/ file' = [file EXCEPT ![f] = "new"] /\ place' = NextPlace(f)
     \/ place' = "failed" /\ UNCHANGED file
  /\ UNCHANGED <<inputs, muxes, turn, emitted>>

\* emit_consumers, over the muxes that have such a group.
EmitConsumers ==
  /\ place = "consumers" /\ "consumers" \in option.files
  /\ by_mux' =
       [inst \in {muxes[x].instance :
                    x \in {y \in DOMAIN muxes : LegacyGrouped(muxes[y]) # {}}} |->
          LegacyGroups(MuxNamed(inst), naming)]
  /\ place' = "fragment"
  /\ UNCHANGED <<inputs, muxes, turn, nodes, all_groups, wiring, legacy, file>>

\* Without --output the text goes to stdout.
NoFile ==
  \/ /\ place = "write" /\ "output" \notin option.files
     /\ place' = "consumers"
     /\ UNCHANGED <<inputs, muxes, turn, emitted, file>>
  \/ /\ place = "consumers" /\ "consumers" \notin option.files
     /\ place' = "done"
     /\ UNCHANGED <<inputs, muxes, turn, emitted, file>>

Interrupted ==
  /\ place \notin {"done", "failed"}
  /\ place' = "failed"
  /\ UNCHANGED <<inputs, muxes, turn, emitted, file>>

ToolFinished == place \in {"done", "failed"} /\ UNCHANGED toolVars

ToolNext ==
  \/ LoadNaming \/ LoadHwh \/ Parse
  \/ EmitPinctrl2 \/ WireConsumers \/ EmitLegacy \/ LegacyEmitted
  \/ EmitConsumers \/ NoFile
  \/ \E f \in Files : OpenFile(f) \/ CloseFile(f)
  \/ Interrupted \/ ToolFinished

ToolSpec == ToolInit /\ [][ToolNext]_toolVars
-----------------------------------------------------------------------------
(***************************************************************************)
(* Properties                                                              *)
(***************************************************************************)

\* A run's emitted are made of what the design has, and files are only at hand
\* after what they depend on was computed.
ToolTypeOK ==
  /\ place \in {"naming", "load", "parse", "json", "emit", "write", "consumers",
             "fragment", "done", "failed"}
  /\ turn \in 1..(Len(muxes) + 1)
  /\ \A x \in DOMAIN muxes : \E y \in DOMAIN design :
       design[y].mux /\ design[y].inst = muxes[x].instance
  /\ \A x \in DOMAIN nodes : \E y \in DOMAIN muxes : nodes[x].ctl = muxes[y].instance
  /\ file \in [Files -> {"old", "part", "new"}]
  /\ \A f \in Files : file[f] # "old" => f \in option.files

\* The consumers' fragment is touched only when the main fragment of this run
\* is complete, so a new one never refers to an old one's groups, and a file
\* that is cut short ends the run.  The other way round, a new main fragment
\* beside an old or an empty consumers' fragment is what an interrupt leaves.
OutputsInOrder ==
  /\ file["consumers"] # "old" /\ "output" \in option.files => file["output"] = "new"
  /\ place = "done" => \A f \in option.files : file[f] = "new"
  /\ \A f \in Files : file[f] = "part" => place \in {PlaceOf(f), "failed"}

\* The tables are complete; they stay as they are for the rest of the run.
Emitted == place = "write"

\* The instances on a mux port's net, glue and the mux itself left aside.
OnNet(d, net, mux) ==
  {m.inst : m \in {n \in SeqOps!ToSet(d) : \E p \in SeqOps!ToSet(n.ports) :
                     p.net = net /\ net # ""}} \ (Noise \cup {mux})
NetsOf(d, mux, s, kinds) ==
  UNION {UNION {{p.net : p \in PortsAt(m, s, kind)} : kind \in kinds} :
           m \in {n \in MuxModules(d) : n.inst = mux.instance}}
DevicesAt(d, mux, s, kinds) ==
  UNION {OnNet(d, net, mux.instance) : net \in NetsOf(d, mux, s, kinds)}
MuxInsts == {m.inst : m \in MuxModules(design)}

\* The nodes that group label l stands on, with their muxes.
Labelled(l) == {x \in DOMAIN nodes : nodes[x].label = l}

\* Every label that is emitted is emitted once, and pinctrl-0 of every
\* consumer names a label that is there (emit_pinctrl2: all_groups goes over
\* all muxes, by_consumer takes one group for a consumer).
WiringResolves ==
  Emitted =>
    /\ \A x, y \in DOMAIN nodes : nodes[x].label = nodes[y].label => x = y
    /\ \A cons \in DOMAIN wiring : Labelled(wiring[cons]) # {}

\* Nobody who can be reached through an alternate is left without a state.
ConsumersWired ==
  Emitted /\ option.style = "pinctrl2" =>
    \A x \in DOMAIN muxes : \A s \in DOMAIN muxes[x].slots :
      \A d \in DevicesAt(design, muxes[x], s, {"incoming", "outgoing"}) \ MuxInsts :
        s[2] # 0 => DtLabel(d, naming) \in DOMAIN wiring \cup naming.skip \cup {""}

\* What keeps the labels of a tree apart: no group is of two muxes, no alias is
\* called like a group or like another alias, and no mux's pins are labelled
\* like a group (emit_pinctrl2, which puts labels on nodes of all muxes and
\* checks none).
AliasTitle(n, x) == Or(CleanName, n.aliases[x][2])
Apart(d, n) ==
  /\ \A m1, m2 \in ParsedMuxes(d) : m1 # m2 =>
       GroupNames(m1, n) \cap GroupNames(m2, n) = {}
  /\ \A x, y \in DOMAIN n.aliases : AliasTitle(n, x) = AliasTitle(n, y) => x = y
  /\ \A m \in ParsedMuxes(d), x \in DOMAIN n.aliases :
       AliasTitle(n, x) \notin GroupNames(m, n)
  /\ \A m1, m2 \in ParsedMuxes(d) : \A p \in PinsOf(m1) :
       PinLabel(m1, p) \notin {GroupLabel(g) : g \in GroupTitles(m2, n)}

\* An alternate is of one device, and it is not behind glue: the device is on
\* the incoming net or nothing is (peer_info and collect_pinctrl2_groups, which
\* take one peer of a net, and the outgoing net only without an incoming one).
Direct(d) ==
  \A m \in ParsedMuxes(d) : \A s \in DOMAIN m.slots :
    s[2] # 0 =>
      /\ \A x, y \in DevicesAt(d, m, s, {"incoming", "outgoing"}) : x = y
      /\ DevicesAt(d, m, s, {"outgoing"}) # {} =>
           \/ DevicesAt(d, m, s, {"incoming"}) # {}
           \/ m.slots[s]["incoming"] = NoLabel

\* The naming file names groups as it names consumers: the alternates that are
\* in one group, of whatever mux, are those of one consumer.
Coherent(d, n) ==
  \A m1, m2 \in ParsedMuxes(d) : \A s \in Grouped(m1), t \in Grouped(m2) :
    GroupOf(m1, s, n) = GroupOf(m2, t, n)
      <=> DtLabel(RawLabel(m1.slots[s]).dev, n) = DtLabel(RawLabel(m2.slots[t]).dev, n)

\* The two legacy files are right about the pins.  The lists go together, and
\* the name at index n is that of pin n, as the reader indexes them; pins
\* without any connected port below it would move it.  A pin that the
\* consumers' fragment lists for a device has that device as its alternate 1
\* (emit_legacy beside emit_consumers, which looks at incoming peers alone and
\* so leaves out pins that are only driven).
LegacyFilesAgree ==
  place = "fragment" =>
    \A x \in DOMAIN legacy :
      LET mux == MuxNamed(legacy[x].ctl)
          groups == IF mux.instance \in DOMAIN by_mux
                    THEN by_mux[mux.instance] ELSE <<>> IN
        PinsOf(mux) = 0..(Cardinality(PinsOf(mux)) - 1) =>
          /\ Len(legacy[x].alternates) = Len(legacy[x].signals)
          /\ \A p \in PinsOf(mux) :
               /\ legacy[x].signals[p + 1] = FnFor(mux, p, 0, naming)
               /\ legacy[x].alternates[p + 1] = FnFor(mux, p, 1, naming)
          /\ \A dev \in DOMAIN groups : \A p \in groups[dev] :
               legacy[x].alternates[p + 1].dev = dev
=============================================================================
