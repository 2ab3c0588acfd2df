------------------------------ MODULE HwhNaming ------------------------------
(***************************************************************************)
(* tools/hwh_aximux_dt.py, the functions without state: from a hardware    *)
(* hand-off to the muxes in it, the peer of every alternate, the names of  *)
(* the functions, and the groups.                                          *)
(*                                                                         *)
(* A design is the sequence of its MODULEs in document order, and a module *)
(* has the PORTs whose nearest MODULE it is.  A label "inst.port" and a    *)
(* name "dev.sig" are records split at the dot; a name without a dot is    *)
(* all dev.  What regular expressions do to single words is given by       *)
(* partial functions: a word outside the domain does not match.            *)
(***************************************************************************)
EXTENDS Integers, Sequences, FiniteSets, TLC

SeqOps == INSTANCE SequencesExt

CONSTANTS
  Noise,     \* instances with one of the NOISE_PREFIXES
  SlotOf,    \* PORT_RE: port name to [pin, kind, alt]
  BaseName,  \* port names that end in _i, _o, _t or _n, without the ending
  DevName,   \* instances the built-in substitutions rename
  SigName,   \* port names the built-in substitutions rename
  CleanName, \* names with characters that cannot be in a DT name
  Rank       \* the position of a string in the order of strings

ASSUME SlotAssumption ==
  \A n \in DOMAIN SlotOf :
    SlotOf[n] \in [pin : Nat, alt : Nat, kind : {"incoming", "outgoing", "ctl"}]
ASSUME RankAssumption ==
  /\ \A n \in DOMAIN Rank : Rank[n] \in Nat
  /\ \A m, n \in DOMAIN Rank : Rank[m] = Rank[n] => m = n

Or(f, x) == IF x \in DOMAIN f THEN f[x] ELSE x

NoLabel == [dev |-> "", sig |-> ""]
Plain(n) == [dev |-> n, sig |-> ""]
Real(label) == label # NoLabel /\ label.dev \notin Noise

\* The elements of S in the order Before.
Sorted(S, Before(_, _)) ==
  [x \in 1..Cardinality(S) |->
     CHOOSE e \in S : Cardinality({d \in S : Before(d, e)}) = x - 1]
ByRank(a, b) == Rank[a] < Rank[b]
InOrder(a, b) == a < b
BySlot(s, t) == s[1] < t[1] \/ (s[1] = t[1] /\ s[2] < t[2])

-----------------------------------------------------------------------------
(***************************************************************************)
(* Parsing.  A net of "" is a port without SIGNAME.                        *)
(***************************************************************************)

\* signame_index: the places of everything on a net, as pairs of a module's
\* and a port's.
Peers(design, net) ==
  UNION {{<<x, y>> : y \in {z \in DOMAIN design[x].ports : design[x].ports[z].net = net}} :
           x \in DOMAIN design}

\* peer_info: a peer that is more than glue is preferred, and of those the
\* first in document order counts.
FirstPlace(S) == CHOOSE q \in S : \A r \in S : r = q \/ BySlot(q, r)
PeerInfo(design, net, mux) ==
  LET others == {q \in Peers(design, net) : design[q[1]].inst # mux}
      interesting == {q \in others : design[q[1]].inst \notin Noise}
      at == FirstPlace(IF interesting # {} THEN interesting ELSE others)
  IN IF net = "" \/ others = {} THEN NoLabel
     ELSE [dev |-> design[at[1]].inst,
           sig |-> Or(BaseName, design[at[1]].ports[at[2]].name)]

Kinds == {"incoming", "outgoing", "ctl"}

\* A mux is its slots: for every pin and alternate with a connected port, the
\* label of each kind of port.  PortsAt has at most one element, as the ports
\* of a module differ in their names.
MuxPorts(module) ==
  {p \in SeqOps!ToSet(module.ports) : p.net # "" /\ p.name \in DOMAIN SlotOf}
PortsAt(module, s, kind) ==
  {p \in MuxPorts(module) :
     SlotOf[p.name] = [pin |-> s[1], kind |-> kind, alt |-> s[2]]}

ParseMux(design, module) ==
  [instance |-> module.inst,
   slots |->
     [s \in {<<SlotOf[p.name].pin, SlotOf[p.name].alt>> : p \in MuxPorts(module)} |->
        [kind \in Kinds |->
           LET at == PortsAt(module, s, kind)
           IN IF at = {} THEN NoLabel
              ELSE PeerInfo(design, (CHOOSE p \in at : TRUE).net, module.inst)]]]

MuxModules(design) == {n \in SeqOps!ToSet(design) : n.mux}
ParsedMuxes(design) == {ParseMux(design, m) : m \in MuxModules(design)}
ParseMuxes(design) ==
  LET ByInstance(m, n) == ByRank(m.instance, n.instance)
  IN Sorted(ParsedMuxes(design), ByInstance)

PinsOf(mux) == {s[1] : s \in DOMAIN mux.slots}
PinList(mux) == Sorted(PinsOf(mux), InOrder)
AltsOf(mux, pin) == {s[2] : s \in {t \in DOMAIN mux.slots : t[1] = pin}}
MaxAlt(mux, pin) == CHOOSE a \in AltsOf(mux, pin) : \A b \in AltsOf(mux, pin) : b <= a

-----------------------------------------------------------------------------
(***************************************************************************)
(* Naming.  A naming is the file of --naming: overrides and each rule are  *)
(* partial functions from labels to names, bases and consumers from        *)
(* instances, aliases a sequence of pairs, skip a set.                     *)
(***************************************************************************)
GpioName(mux, pin, naming) ==
  LET base == IF mux \in DOMAIN naming.bases THEN naming.bases[mux] ELSE 0
  IN [dev |-> naming.gpio, sig |-> ToString(base + pin)]

UnusedName(pin, alt) ==
  [dev |-> "unused" \o ToString(pin), sig |-> ToString(alt)]

BuiltIn(label) == [dev |-> Or(DevName, label.dev), sig |-> Or(SigName, label.sig)]

ApplyNaming(label, pin, alt, naming, mux) ==
  LET Matches(rule) == label \in DOMAIN rule
      rules == SelectSeq(<<naming.overrides>> \o naming.rules, Matches)
  IN IF label = NoLabel
     THEN IF alt = 0 THEN GpioName(mux, pin, naming) ELSE UnusedName(pin, alt)
     ELSE IF rules # <<>> THEN Head(rules)[label]
     ELSE IF alt = 0 /\ label.dev \in Noise THEN GpioName(mux, pin, naming)
     ELSE BuiltIn(label)

\* The incoming peer or else the outgoing one, glue only if there is no other.
SlotLabel(slot) ==
  LET in == slot["incoming"]
      out == slot["outgoing"]
  IN IF Real(in) \/ (~Real(out) /\ in # NoLabel) THEN in ELSE out

FnFor(mux, pin, alt, naming) ==
  ApplyNaming(IF <<pin, alt>> \in DOMAIN mux.slots
              THEN SlotLabel(mux.slots[<<pin, alt>>]) ELSE NoLabel,
              pin, alt, naming, mux.instance)

-----------------------------------------------------------------------------
(***************************************************************************)
(* Groups: collect_pinctrl2_groups, and the by_mux table of                *)
(* emit_consumers, which looks at the incoming peers of alternate 1 alone. *)
(***************************************************************************)
RawLabelIncoming(slot) == slot["incoming"]
RawLabel(slot) ==
  IF slot["incoming"] # NoLabel THEN slot["incoming"] ELSE slot["outgoing"]

Grouped(mux) ==
  {s \in DOMAIN mux.slots : s[2] # 0 /\ Real(RawLabel(mux.slots[s]))}

NiceName(mux, s, naming) ==
  ApplyNaming(RawLabel(mux.slots[s]), s[1], s[2], naming, mux.instance)
GroupOf(mux, s, naming) == Or(CleanName, NiceName(mux, s, naming).dev)

GroupNames(mux, naming) == {GroupOf(mux, s, naming) : s \in Grouped(mux)}
InGroup(mux, g, naming) == {s \in Grouped(mux) : GroupOf(mux, s, naming) = g}
Entries(mux, g, naming) == Sorted(InGroup(mux, g, naming), BySlot)

DtLabel(inst, naming) == Or(naming.consumers, inst)
ConsumersOf(mux, g, naming) ==
  {DtLabel(RawLabel(mux.slots[s]).dev, naming) : s \in InGroup(mux, g, naming)}
    \ {""}

LegacyGrouped(mux) ==
  {s \in DOMAIN mux.slots : s[2] = 1 /\ Real(mux.slots[s]["incoming"])}
LegacyGroups(mux, naming) ==
  [key \in {NiceName(mux, s, naming).dev : s \in LegacyGrouped(mux)} |->
     {s[1] : s \in {t \in LegacyGrouped(mux) : NiceName(mux, t, naming).dev = key}}]
=============================================================================
