-------------------------- MODULE AximuxProbe_proofs --------------------------
(***************************************************************************)
(* The probe, for any tree of any length, any MUXINFO and any allocation   *)
(* that fails.  The invariant says of each table what the phase that is    *)
(* writing it has done so far.                                             *)
(***************************************************************************)
EXTENDS AximuxProbe, SequenceTheorems, FiniteSetTheorems, TLAPS

Pin == [number : 0..(AXIMUX_MAX_PINS - 1), name : Names, funcs : Seq(Names)]
Group == [name : Names, pins : Seq(Nat)]
GroupEntry == [group : Names, vals : Seq(Nat)]
Function == [name : Names, entries : Seq(GroupEntry), stale : BOOLEAN]

LEMMA Limits == AXIMUX_MAX_PINS = 32 /\ AXIMUX_MAX_ALTS = 15
BY DEF AXIMUX_MAX_PINS, AXIMUX_MAX_ALTS

-----------------------------------------------------------------------------
(***************************************************************************)
(* The first of several                                                    *)
(***************************************************************************)

\* Positions of a sequence that have some property have a first among them,
\* which is what the driver's loops over its tables stop at.
LEMMA FirstExists ==
  ASSUME NEW n \in Nat, NEW S \in SUBSET (1..n), S # {}
  PROVE  \E m \in S : \A x \in S : m <= x
<1> DEFINE Upto(m) == {x \in S : x <= m}
           R == StrictSubsetOrdering(1..n)
<1>1. \A m \in S : Upto(m) \in FiniteSubsetsOf(1..n)
  <2>1. IsFiniteSet(1..n)
    BY FS_Interval
  <2>2. QED
    BY <2>1, FS_Subset DEF FiniteSubsetsOf
<1>2. \E T \in {Upto(m) : m \in S} : \A U \in {Upto(m) : m \in S} : <<U, T>> \notin R
  <2>1. IsWellFoundedOn(R, FiniteSubsetsOf(1..n))
    BY FS_StrictSubsetOrderingWellFounded
  <2> HIDE DEF R, Upto
  <2>2. {Upto(m) : m \in S} \subseteq FiniteSubsetsOf(1..n)
    BY <1>1
  <2>3. {Upto(m) : m \in S} # {}
    OBVIOUS
  <2>4. QED
    BY <2>1, <2>2, <2>3, WFMin
<1>3. PICK m \in S : \A x \in S : <<Upto(x), Upto(m)>> \notin R
  BY <1>2
<1>4. ASSUME NEW x \in S, x < m PROVE FALSE
  <2>1. m \in Upto(m) /\ m \notin Upto(x)
    BY <1>4
  <2>2. \A y \in Upto(x) : y \in Upto(m)
    BY <1>4
  <2>3. Upto(x) \in SUBSET (1..n) /\ Upto(m) \in SUBSET (1..n)
    OBVIOUS
  <2>4. <<Upto(x), Upto(m)>> \in R
    BY <2>1, <2>2, <2>3 DEF StrictSubsetOrdering
  <2>5. QED
    BY <2>4, <1>3
<1>5. \A x \in S : m <= x
  BY <1>4
<1>6. QED
  BY <1>5

-----------------------------------------------------------------------------
(***************************************************************************)
(* The tables that aximux_add_function grows                               *)
(***************************************************************************)
LEMMA FunctionFound ==
  ASSUME funcs \in Seq(Function), NEW name \in Names
  PROVE  /\ WithFunction(name) \in Seq(Function)
         /\ FunctionIndex(name) \in 1..Len(WithFunction(name))
         /\ WithFunction(name)[FunctionIndex(name)].name = name
         /\ \/ Named(name) # {} /\ WithFunction(name) = funcs
            \/ /\ Named(name) = {}
               /\ WithFunction(name) =
                    Append(funcs, [name |-> name, entries |-> <<>>, stale |-> FALSE])
               /\ FunctionIndex(name) = Len(funcs) + 1
<1> DEFINE New == [name |-> name, entries |-> <<>>, stale |-> FALSE]
           W == WithFunction(name)
           i == FunctionIndex(name)
           There == {x \in 1..Len(W) : W[x].name = name}
<1>1. New \in Function /\ New.name = name
  <2>1. <<>> \in Seq(GroupEntry)
    BY EmptySeq
  <2>2. QED
    BY <2>1 DEF Function
<1>2. \/ Named(name) # {} /\ W = funcs
      \/ Named(name) = {} /\ W = Append(funcs, New)
  BY DEF WithFunction
<1> HIDE DEF New
<1>3. W \in Seq(Function) /\ There # {}
  <2>1. CASE Named(name) # {} /\ W = funcs
    BY <2>1 DEF Named
  <2>2. CASE W = Append(funcs, New)
    <3>1. W \in Seq(Function) /\ Len(W) = Len(funcs) + 1 /\ W[Len(funcs) + 1] = New
      BY <2>2, <1>1
    <3>2. QED
      BY <3>1, <1>1
  <2>3. QED
    BY <1>2, <2>1, <2>2
<1> HIDE DEF W
<1>4. i \in DOMAIN W /\ W[i].name = name
  <2>1. PICK m \in There : \A x \in There : m <= x
    <3>1. Len(W) \in Nat /\ There \in SUBSET (1..Len(W))
      BY <1>3
    <3> HIDE DEF There
    <3>2. QED
      BY <1>3, <3>1, FirstExists
  <2>2. \A y \in 1..(m - 1) : W[y].name # name
    BY <2>1, <1>3
  <2>3. m \in DOMAIN W /\ W[m].name = name
    BY <1>3
  <2>4. \E x \in DOMAIN W : W[x].name = name /\ \A y \in 1..(x - 1) : W[y].name # name
    BY <2>2, <2>3
  <2>5. i = CHOOSE x \in DOMAIN W :
              W[x].name = name /\ \A y \in 1..(x - 1) : W[y].name # name
    BY DEF FunctionIndex, W
  <2> HIDE DEF i
  <2>6. QED
    BY <2>4, <2>5
<1>5. ASSUME Named(name) = {}, W = Append(funcs, New) PROVE i = Len(funcs) + 1
  <2> HIDE DEF i
  <2>1. i \in 1..(Len(funcs) + 1)
    BY <1>1, <1>4, <1>5
  <2>2. i \in 1..Len(funcs) => W[i] = funcs[i] /\ i \in DOMAIN funcs
    BY <1>1, <1>5
  <2>3. i \notin 1..Len(funcs)
    BY <1>4, <1>5, <2>2 DEF Named
  <2>4. QED
    BY <2>1, <2>3
<1>6. i \in 1..Len(W)
  BY <1>3, <1>4
<1>7. QED
  BY <1>2, <1>3, <1>4, <1>5, <1>6 DEF W, New

\* Every entry of a function is about a group that there is, with a value
\* for each of its pins.
Fits(entry, group) ==
  group.name = entry.group /\ Len(group.pins) = Len(entry.vals)
EntriesFit(fs, gs) ==
  \A x \in DOMAIN fs : \A e \in DOMAIN fs[x].entries :
    \E g \in DOMAIN gs : Fits(fs[x].entries[e], gs[g])

\* No pointer is stale, and no function without an entry.
Sound(fs) == \A x \in DOMAIN fs : ~fs[x].stale /\ fs[x].entries # <<>>

\* What function name has before a declaration is added.
OldEntries(name) == WithFunction(name)[FunctionIndex(name)].entries

\* A declaration is put after those of its function, which is found or new;
\* all other functions stay as they are.
LEMMA AddedForm ==
  ASSUME funcs \in Seq(Function), NEW name \in Names, NEW group \in Names,
         NEW vals \in Seq(Nat)
  PROVE  /\ Added(name, group, vals) \in Seq(Function)
         /\ FunctionIndex(name) \in DOMAIN Added(name, group, vals)
         /\ OldEntries(name) \in Seq(GroupEntry)
         /\ Added(name, group, vals)[FunctionIndex(name)].name = name
         /\ Added(name, group, vals)[FunctionIndex(name)].entries
              = Append(OldEntries(name), Entry(group, vals))
         /\ \A x \in DOMAIN funcs :
              x # FunctionIndex(name) => Added(name, group, vals)[x] = funcs[x]
         /\ \/ /\ FunctionIndex(name) \in DOMAIN funcs
               /\ DOMAIN Added(name, group, vals) = DOMAIN funcs
               /\ funcs[FunctionIndex(name)].name = name
               /\ OldEntries(name) = funcs[FunctionIndex(name)].entries
               /\ Added(name, group, vals)[FunctionIndex(name)].stale
                    = funcs[FunctionIndex(name)].stale
            \/ /\ FunctionIndex(name) = Len(funcs) + 1
               /\ DOMAIN Added(name, group, vals) = 1..(Len(funcs) + 1)
               /\ OldEntries(name) = <<>>
               /\ ~Added(name, group, vals)[FunctionIndex(name)].stale
               /\ \A x \in DOMAIN funcs : funcs[x].name # name
<1> DEFINE W == WithFunction(name)
           i == FunctionIndex(name)
           a == Added(name, group, vals)
           New == [name |-> name, entries |-> <<>>, stale |-> FALSE]
           old == OldEntries(name)
           e == Entry(group, vals)
           fn == [W[i] EXCEPT !.entries = Append(W[i].entries, e)]
<1>1. W \in Seq(Function) /\ i \in 1..Len(W) /\ W[i].name = name
  BY FunctionFound
<1>2. \/ Named(name) # {} /\ W = funcs
      \/ Named(name) = {} /\ W = Append(funcs, New) /\ i = Len(funcs) + 1
  BY FunctionFound
<1>3. a = [W EXCEPT ![i] = fn]
  BY DEF Added
<1>4. e \in GroupEntry
  BY DEF Entry, GroupEntry
<1>5. New.name = name /\ New.entries = <<>> /\ ~New.stale
  OBVIOUS
<1>0. old = W[i].entries
  BY DEF OldEntries
<1> HIDE DEF W, i, a, New, e, old
<1>6. W[i] \in Function /\ old \in Seq(GroupEntry)
  <2>1. W[i] \in Function
    BY <1>1
  <2>2. W[i].entries \in Seq(GroupEntry)
    BY <2>1 DEF Function
  <2>3. QED
    BY <1>0, <2>1, <2>2
<1>7. Append(old, e) \in Seq(GroupEntry)
  BY <1>4, <1>6
<1>8. fn \in Function /\ fn.entries = Append(old, e) /\ fn.stale = W[i].stale /\ fn.name = name
  <2> DEFINE w == W[i]
             q == Append(old, e)
  <2>1. w \in Function /\ q \in Seq(GroupEntry) /\ fn = [w EXCEPT !.entries = q] /\ w.name = name
    BY <1>0, <1>1, <1>6, <1>7
  <2> HIDE DEF w, q, fn
  <2>2. fn \in Function /\ fn.entries = q /\ fn.stale = w.stale /\ fn.name = w.name
    BY <2>1 DEF Function
  <2>3. QED
    BY <2>1, <2>2 DEF w, q
<1> HIDE DEF fn
<1>9. /\ a \in Seq(Function) /\ DOMAIN a = 1..Len(W)
      /\ \A x \in 1..Len(W) : a[x] = IF x = i THEN fn ELSE W[x]
  BY <1>1, <1>3, <1>8, ExceptSeq
<1> DEFINE Found == /\ i \in DOMAIN funcs /\ DOMAIN a = DOMAIN funcs
                    /\ funcs[i].name = name /\ old = funcs[i].entries
                    /\ a[i].stale = funcs[i].stale
           IsNew == /\ i = Len(funcs) + 1 /\ DOMAIN a = 1..i /\ old = <<>>
                    /\ ~a[i].stale
                    /\ \A x \in DOMAIN funcs : funcs[x].name # name
<1>10. (\A x \in DOMAIN funcs : x # i => a[x] = funcs[x]) /\ (Found \/ IsNew)
  <2>1. CASE Named(name) # {} /\ W = funcs
    BY <1>0, <1>1, <1>8, <1>9, <2>1
  <2>2. CASE Named(name) = {} /\ W = Append(funcs, New) /\ i = Len(funcs) + 1
    <3>1. Len(W) = i /\ W[i] = New /\ \A x \in DOMAIN funcs : x \in 1..Len(W) /\ W[x] = funcs[x]
      BY <2>2
    <3>2. \A x \in DOMAIN funcs : funcs[x].name # name
      BY <2>2 DEF Named
    <3>3. QED
      BY <1>0, <1>1, <1>5, <1>8, <1>9, <2>2, <3>1, <3>2
  <2>3. QED
    BY <1>2, <2>1, <2>2
<1>11. i \in DOMAIN a /\ a[i].name = name /\ a[i].entries = Append(old, e)
  BY <1>1, <1>8, <1>9
<1>12. QED
  BY <1>6, <1>9, <1>10, <1>11 DEF a, e, i, old

LEMMA AddedEntry ==
  ASSUME funcs \in Seq(Function), NEW name \in Names, NEW group \in Names,
         NEW vals \in Seq(Nat), NEW gs \in Seq(Group)
  PROVE  /\ Added(name, group, vals) \in Seq(Function)
         /\ Sound(funcs) => Sound(Added(name, group, vals))
         /\ EntriesFit(funcs, gs) /\ (\E g \in DOMAIN gs : Fits(Entry(group, vals), gs[g]))
              => EntriesFit(Added(name, group, vals), gs)
<1> DEFINE a == Added(name, group, vals)
           e == Entry(group, vals)
           i == FunctionIndex(name)
           old == OldEntries(name)
<1>1. a \in Seq(Function)
  BY AddedForm
<1>2. /\ i \in DOMAIN a /\ old \in Seq(GroupEntry)
      /\ a[i].entries = Append(old, e)
      /\ \A x \in DOMAIN funcs : x # i => a[x] = funcs[x]
      /\ \/ /\ i \in DOMAIN funcs /\ DOMAIN a = DOMAIN funcs
            /\ old = funcs[i].entries /\ a[i].stale = funcs[i].stale
         \/ /\ i = Len(funcs) + 1 /\ DOMAIN a = 1..(Len(funcs) + 1) /\ old = <<>>
            /\ ~a[i].stale
  BY AddedForm
<1>3. e \in GroupEntry
  BY DEF Entry, GroupEntry
<1> HIDE DEF a, e, i, old
<1>4. a[i].entries # <<>> /\ \A y \in DOMAIN a[i].entries :
        (y \in DOMAIN old /\ a[i].entries[y] = old[y]) \/ a[i].entries[y] = e
  <2> DEFINE q == Append(old, e)
  <2>1. Len(q) = Len(old) + 1 /\ Len(old) \in Nat /\ Len(<<>>) = 0
    BY <1>3
  <2>2. \A y \in DOMAIN q : (y \in DOMAIN old /\ q[y] = old[y]) \/ q[y] = e
    BY <1>3
  <2> HIDE DEF q
  <2>3. q # <<>>
    BY <2>1
  <2>4. QED
    BY <1>2, <2>2, <2>3 DEF q
<1>5. \A x \in DOMAIN a : x = i \/ x \in DOMAIN funcs
  BY <1>2
<1>6. Sound(funcs) => Sound(a)
  BY <1>2, <1>4, <1>5 DEF Sound
<1>7. ASSUME EntriesFit(funcs, gs), \E g \in DOMAIN gs : Fits(e, gs[g])
      PROVE  EntriesFit(a, gs)
  <2> SUFFICES ASSUME NEW x \in DOMAIN a, NEW y \in DOMAIN a[x].entries
               PROVE  \E g \in DOMAIN gs : Fits(a[x].entries[y], gs[g])
    BY DEF EntriesFit
  <2>1. CASE x # i
    BY <1>2, <1>5, <1>7, <2>1 DEF EntriesFit
  <2>2. CASE x = i
    <3>1. CASE a[x].entries[y] = e
      BY <1>7, <3>1
    <3>2. CASE y \in DOMAIN old /\ a[x].entries[y] = old[y]
      <4>1. i \in DOMAIN funcs /\ old = funcs[i].entries
        <5>1. old # <<>>
          BY <3>2
        <5>2. QED
          BY <1>2, <5>1
      <4>2. QED
        BY <1>7, <3>2, <4>1 DEF EntriesFit
    <3>3. QED
      BY <1>4, <2>2, <3>1, <3>2
  <2>3. QED
    BY <2>1, <2>2
<1>8. QED
  BY <1>1, <1>6, <1>7 DEF a, e

LEMMA SpoiledTables ==
  ASSUME funcs \in Seq(Function), NEW name \in Names,
         NEW fs \in Spoiled(name), NEW gs \in Seq(Group)
  PROVE  fs \in Seq(Function) /\ (EntriesFit(funcs, gs) => EntriesFit(fs, gs))
<1> DEFINE W == WithFunction(name)
           i == FunctionIndex(name)
<1>1. W \in Seq(Function) /\ i \in 1..Len(W)
  BY FunctionFound
<1>2. \/ W = funcs
      \/ /\ W = Append(funcs, [name |-> name, entries |-> <<>>, stale |-> FALSE])
         /\ i = Len(funcs) + 1
  BY FunctionFound
<1>3. PICK moved \in BOOLEAN : fs = [W EXCEPT ![i] = [W[i] EXCEPT !.stale = moved]]
  BY DEF Spoiled
<1> DEFINE fn == [W[i] EXCEPT !.stale = moved]
<1> HIDE DEF W, i
<1>4. W[i] \in Function
  BY <1>1
<1>5. fn \in Function /\ fn.entries = W[i].entries
  BY <1>4 DEF Function
<1>6. fs = [W EXCEPT ![i] = fn]
  BY <1>3
<1> HIDE DEF fn
<1>7. /\ fs \in Seq(Function) /\ DOMAIN fs = 1..Len(W)
      /\ \A x \in 1..Len(W) : fs[x].entries = W[x].entries
  BY <1>1, <1>5, <1>6, ExceptSeq
<1>8. \A x \in 1..Len(W) :
        \/ x \in DOMAIN funcs /\ W[x] = funcs[x]
        \/ W[x].entries = <<>>
  <2>1. CASE W = funcs
    BY <2>1
  <2>2. CASE /\ W = Append(funcs, [name |-> name, entries |-> <<>>, stale |-> FALSE])
             /\ i = Len(funcs) + 1
    <3> DEFINE New == [name |-> name, entries |-> <<>>, stale |-> FALSE]
    <3>1. New.entries = <<>>
      OBVIOUS
    <3> HIDE DEF New
    <3>2. Len(W) = Len(funcs) + 1 /\ W[Len(funcs) + 1] = New
          /\ \A x \in 1..Len(funcs) : W[x] = funcs[x]
      BY <2>2 DEF New
    <3>3. QED
      BY <3>1, <3>2
  <2>3. QED
    BY <1>2, <2>1, <2>2
<1>9. QED
  BY <1>7, <1>8 DEF EntriesFit

LEMMA OneGroupMore ==
  ASSUME NEW fs, NEW gs \in Seq(Group), NEW g \in Group, EntriesFit(fs, gs)
  PROVE  EntriesFit(fs, Append(gs, g))
<1>1. \A x \in DOMAIN gs : x \in DOMAIN Append(gs, g) /\ Append(gs, g)[x] = gs[x]
  OBVIOUS
<1>2. QED
  BY <1>1 DEF EntriesFit

-----------------------------------------------------------------------------
(***************************************************************************)
(* The inductive invariant                                                 *)
(***************************************************************************)
Numbers == {pins[x].number : x \in DOMAIN pins}
GroupUsable(g) == g.pins # <<>> /\ \A x \in DOMAIN g.pins : g.pins[x] \in Numbers

\* The tables are usable as far as they go, in every phase and after a failure.
Tables ==
  /\ ctl \in Controller
  /\ pins \in Seq(Pin) /\ groups \in Seq(Group) /\ funcs \in Seq(Function)
  /\ \A x \in DOMAIN pins : pins[x].number < ctl.hwPins
  /\ \A g \in DOMAIN groups : GroupUsable(groups[g])
  /\ EntriesFit(funcs, groups)

\* The group that aximux_build_default_groups makes for a pin.
DefaultGroup(pin) == [name |-> pin.name, pins |-> <<pin.number>>]

\* How far the probe is.
Progress ==
  /\ pc \in {"info", "pins", "table", "default", "extra", "register",
             "ready", "failed"}
  /\ k \in Nat \ {0} /\ f \in Nat \ {0}
  /\ nalts \in 0..AXIMUX_MAX_ALTS
  /\ ret \in {"none", "ok", "EINVAL", "ENODATA", "ENOMEM"}
  /\ pc \notin {"info", "failed"} =>
       ctl.hwPins <= AXIMUX_MAX_PINS /\ nalts \in 1..AXIMUX_MAX_ALTS
  /\ pc \in {"info", "pins", "table"} => groups = <<>> /\ funcs = <<>>
  /\ pc \in {"info", "table"} => k = 1
  /\ pc = "default" =>
       /\ Len(groups) \in {k - 1, k} /\ Len(groups) <= Len(pins)
       /\ \A x \in DOMAIN groups : groups[x] = DefaultGroup(pins[x])
  /\ pc # "failed" => Sound(funcs)

\* What the probe holds, and where.
Holds ==
  /\ node \in BOOLEAN
  /\ heap \in [pins : SUBSET DOMAIN ctl.children, mux : SUBSET DOMAIN ctl.children]
  /\ pc \notin {"extra", "failed"} => ~node
  /\ pc = "extra" => (node <=> k \in heap.mux)
  /\ heap.mux \subseteq {k}
  /\ k \in heap.mux => AtGroupNode

ProbeInv == Tables /\ Progress /\ Holds

LEMMA ProbeInitInv == ProbeInit => ProbeInv
<1> SUFFICES ASSUME ProbeInit PROVE ProbeInv
  OBVIOUS
<1>1. <<>> \in Seq(Pin) /\ <<>> \in Seq(Group) /\ <<>> \in Seq(Function)
  BY EmptySeq
<1>2. Tables
  BY <1>1, ProbeAssumption DEF ProbeInit, Tables, EntriesFit
<1>3. Progress
  <2>1. Sound(<<>>)
    BY DEF Sound
  <2>2. QED
    BY <2>1 DEF ProbeInit, Progress, AXIMUX_MAX_ALTS
<1>4. Holds
  <2>1. node \in BOOLEAN /\ ~node
    BY Zenon DEF ProbeInit
  <2>2. QED
    BY <2>1 DEF ProbeInit, Holds
<1>5. QED
  BY <1>2, <1>3, <1>4 DEF ProbeInv

LEMMA InvShows ==
  ProbeInv => /\ ctl \in Controllers => ProbeTypeOK
              /\ StaleNeverUsed /\ TablesUsable
<1> SUFFICES ASSUME ProbeInv
             PROVE  /\ ctl \in Controllers => ProbeTypeOK
                    /\ StaleNeverUsed /\ TablesUsable
  OBVIOUS
<1>1. ctl \in Controllers => ProbeTypeOK
  <2>1. \A x \in DOMAIN funcs : funcs[x] \in Function
    BY DEF ProbeInv, Tables
  <2>2. /\ pins \in Seq([number : 0..(AXIMUX_MAX_PINS - 1), name : Names, funcs : Seq(Names)])
        /\ groups \in Seq([name : Names, pins : Seq(Nat)])
        /\ \A x \in DOMAIN funcs :
             /\ funcs[x].name \in Names /\ funcs[x].stale \in BOOLEAN
             /\ funcs[x].entries \in Seq([group : Names, vals : Seq(Nat)])
    BY <2>1 DEF ProbeInv, Tables, Pin, Group, Function, GroupEntry
  <2>3. heap.mux # {} => pc = "extra" /\ node /\ heap.mux = {k}
    BY DEF ProbeInv, Holds, AtGroupNode, AtChild
  <2>4. QED
    BY <2>2, <2>3 DEF ProbeInv, Tables, Progress, Holds, ProbeTypeOK
<1>3. StaleNeverUsed
  BY DEF ProbeInv, Progress, StaleNeverUsed, Sound
<1>4. ASSUME pc = "ready" PROVE TablesUsable
  <2>1. Numbers \subseteq 0..(ctl.hwPins - 1)
    <3>1. ctl.hwPins \in 0..255
      BY ProbeAssumption DEF ProbeInv, Tables, Controller
    <3>2. ASSUME NEW x \in DOMAIN pins PROVE pins[x].number \in 0..(ctl.hwPins - 1)
      <4>1. pins[x] \in Pin /\ pins[x].number < ctl.hwPins
        BY DEF ProbeInv, Tables
      <4>2. QED
        <5>1. pins[x].number \in 0..31
          BY <4>1 DEF Pin, AXIMUX_MAX_PINS
        <5>2. \A n \in 0..31, h \in 0..255 : n < h => n \in 0..(h - 1)
          OBVIOUS
        <5>3. pins[x].number < ctl.hwPins
          BY <4>1
        <5>4. QED
          BY <3>1, <5>1, <5>2, <5>3
    <3>3. QED
      BY <3>2 DEF Numbers
  <2>2. ctl.hwPins <= AXIMUX_MAX_PINS /\ nalts \in 1..AXIMUX_MAX_ALTS
    BY <1>4 DEF ProbeInv, Progress
  <2>3. \A g \in DOMAIN groups : GroupUsable(groups[g])
    BY DEF ProbeInv, Tables
  <2>4. ASSUME NEW x \in DOMAIN funcs, NEW e \in DOMAIN funcs[x].entries
        PROVE  \E g \in DOMAIN groups : Fits(funcs[x].entries[e], groups[g])
    BY DEF ProbeInv, Tables, EntriesFit
  <2>5. QED
    BY <2>1, <2>2, <2>3, <2>4 DEF TablesUsable, Numbers, GroupUsable, Fits
<1>5. QED
  BY <1>1, <1>3, <1>4 DEF TablesUsable

-----------------------------------------------------------------------------
(***************************************************************************)
(* Steps that write no table                                               *)
(***************************************************************************)
LEMMA TablesKept == Tables /\ UNCHANGED <<ctl, tables>> => Tables'
BY DEF Tables, tables, GroupUsable, Numbers

LEMMA PlainSteps ==
  ASSUME ProbeInv,
         \/ NoDevice \/ BadInfo \/ BadPinNode \/ PinsParsed \/ AllocGroups
         \/ PinDone \/ DefaultsDone \/ NoGroupBuffers \/ AllocGroupBuffers
         \/ GroupRejected \/ SkipChild \/ ExtraDone \/ Register
  PROVE  ProbeInv'
<1> USE DEF tables, Fail, OutOfMemory
<1>1. UNCHANGED <<ctl, tables>>
  BY DEF NoDevice, BadInfo, BadPinNode, PinsParsed, AllocGroups, PinDone,
         DefaultsDone, NoGroupBuffers, AllocGroupBuffers, GroupRejected,
         SkipChild, ExtraDone, Register
<1>2. Tables'
  BY <1>1, TablesKept DEF ProbeInv
<1>3. Progress'
  <2> USE DEF ProbeInv, Progress, AXIMUX_MAX_ALTS
  <2>1. CASE NoDevice
    BY <2>1, <1>1 DEF NoDevice
  <2>2. CASE BadInfo
    <3>1. EffectiveAlts(ctl.hwAlts) \in 1..AXIMUX_MAX_ALTS
      BY DEF EffectiveAlts
    <3>2. QED
      BY <2>2, <3>1, <1>1 DEF BadInfo
  <2>3. CASE BadPinNode
    BY <2>3, <1>1 DEF BadPinNode
  <2>4. CASE PinsParsed
    BY <2>4, <1>1 DEF PinsParsed
  <2>5. CASE AllocGroups
    <3>1. Len(groups) = 0 /\ k = 1 /\ Len(pins) \in Nat /\ DOMAIN groups = {}
      BY <2>5 DEF AllocGroups, Tables
    <3>2. QED
      BY <2>5, <3>1, <1>1 DEF AllocGroups
  <2>6. CASE PinDone
    BY <2>6, <1>1 DEF PinDone, AtPin
  <2>7. CASE DefaultsDone
    BY <2>7, <1>1 DEF DefaultsDone
  <2>8. CASE NoGroupBuffers
    BY <2>8, <1>1 DEF NoGroupBuffers, AtGroupNode, AtChild
  <2>9. CASE AllocGroupBuffers
    BY <2>9, <1>1 DEF AllocGroupBuffers, AtGroupNode, AtChild
  <2>10. CASE GroupRejected
    BY <2>10, <1>1 DEF GroupRejected, AtGroupNode, AtChild
  <2>11. CASE SkipChild
    BY <2>11, <1>1 DEF SkipChild, AtChild
  <2>12. CASE ExtraDone
    BY <2>12, <1>1 DEF ExtraDone
  <2>13. CASE Register
    BY <2>13, <1>1 DEF Register
  <2>14. QED
    BY <2>1, <2>2, <2>3, <2>4, <2>5, <2>6, <2>7, <2>8, <2>9, <2>10, <2>11,
       <2>12, <2>13
<1>4. Holds'
  <2> USE DEF ProbeInv, Holds, AtGroupNode, AtChild, Current
  <2>1. CASE NoDevice
    BY <2>1 DEF NoDevice
  <2>2. CASE BadInfo
    BY <2>2 DEF BadInfo
  <2>3. CASE BadPinNode
    BY <2>3 DEF BadPinNode
  <2>4. CASE PinsParsed
    BY <2>4 DEF PinsParsed
  <2>5. CASE AllocGroups
    BY <2>5 DEF AllocGroups
  <2>6. CASE PinDone
    BY <2>6 DEF PinDone, AtPin
  <2>7. CASE DefaultsDone
    BY <2>7 DEF DefaultsDone
  <2>8. CASE NoGroupBuffers
    BY <2>8 DEF NoGroupBuffers
  <2>9. CASE AllocGroupBuffers
    <3>1. k \in DOMAIN ctl.children
      <4>1. ctl.children \in Seq(Child)
        BY ProbeAssumption DEF Tables, Controller
      <4>2. k \in Nat \ {0} /\ k <= Len(ctl.children)
        BY <2>9 DEF AllocGroupBuffers, Progress
      <4>3. QED
        BY <4>1, <4>2
    <3>2. heap' = [pins |-> heap.pins \cup {k}, mux |-> heap.mux \cup {k}]
      BY <2>9 DEF AllocGroupBuffers
    <3>3. UNCHANGED <<ctl, pc, k>> /\ node' = TRUE /\ pc = "extra" /\ AtGroupNode
      BY <2>9 DEF AllocGroupBuffers, tables
    <3>4. heap' \in [pins : SUBSET DOMAIN ctl'.children, mux : SUBSET DOMAIN ctl'.children]
      BY <3>1, <3>2, <3>3
    <3>5. k' \in heap'.mux /\ heap'.mux \subseteq {k'}
      BY <3>2, <3>3
    <3>6. AtGroupNode'
      BY <3>3
    <3>7. node' \in BOOLEAN /\ node'
      BY <3>3, Zenon
    <3>8. QED
      BY <3>3, <3>4, <3>5, <3>6, <3>7
  <2>10. CASE GroupRejected
    <3>1. /\ pc' = "failed" /\ node' = FALSE /\ UNCHANGED <<ctl, k>>
          /\ heap' = [pins |-> heap.pins \ {k}, mux |-> heap.mux \ {k}]
      BY <2>10 DEF GroupRejected, Fail, OutOfMemory
    <3>2. node' \in BOOLEAN /\ ~node'
      BY <3>1, Zenon
    <3>3. QED
      BY <3>1, <3>2
  <2>11. CASE SkipChild
    BY <2>11 DEF SkipChild
  <2>12. CASE ExtraDone
    <3>1. k \in Nat /\ Len(ctl.children) \in Nat
      BY ProbeAssumption DEF Progress, Tables, Controller
    <3>2. QED
      BY <2>12, <3>1 DEF ExtraDone
  <2>13. CASE Register
    BY <2>13 DEF Register
  <2>14. QED
    BY <2>1, <2>2, <2>3, <2>4, <2>5, <2>6, <2>7, <2>8, <2>9, <2>10, <2>11,
       <2>12, <2>13
<1>5. QED
  BY <1>2, <1>3, <1>4 DEF ProbeInv

-----------------------------------------------------------------------------
(***************************************************************************)
(* Steps that write a table                                                *)
(***************************************************************************)
LEMMA CurrentChild ==
  ASSUME Tables, k \in Nat \ {0}, k <= Len(ctl.children)
  PROVE  /\ Current.name \in Names
         /\ Current.reg # Absent => Current.reg \in Nat
         /\ Current.funcs # Absent => Current.funcs \in Seq(Names)
         /\ Current.pins # Absent => Current.pins \in Seq(Names)
         /\ Current.mux # Absent => Current.mux \in Seq(Nat)
         /\ Current.fn # Absent => Current.fn \in Names
<1>1. ctl.children \in Seq(Child)
  BY ProbeAssumption DEF Tables, Controller
<1>2. Current \in Child
  BY <1>1 DEF Current
<1>3. QED
  BY <1>2 DEF Child, Opt

LEMMA HwPinsByte == Tables => ctl.hwPins \in Nat /\ ctl.hwPins \in 0..255
<1>1. Tables => ctl \in Controller
  BY ProbeAssumption DEF Tables
<1>2. ctl \in Controller => ctl.hwPins \in 0..255
  BY DEF Controller
<1>3. QED
  BY <1>1, <1>2

LEMMA GoodInfoInv == ProbeInv /\ GoodInfo => ProbeInv'
<1> SUFFICES ASSUME ProbeInv, GoodInfo PROVE ProbeInv'
  OBVIOUS
<1>1. EffectiveAlts(ctl.hwAlts) \in 1..AXIMUX_MAX_ALTS
  BY DEF EffectiveAlts, AXIMUX_MAX_ALTS
<1>2. /\ groups = <<>> /\ funcs = <<>> /\ ~node /\ heap.mux = {}
      /\ k \in Nat \ {0} /\ f \in Nat \ {0} /\ k = 1
      /\ ctl.hwPins \in 1..AXIMUX_MAX_PINS
      /\ UNCHANGED <<ctl, k, f, groups, funcs, node, heap>>
  BY DEF ProbeInv, Progress, Holds, AtGroupNode, AtChild, GoodInfo
<1> ctl.hwPins \in Nat /\ ctl.hwPins <= AXIMUX_MAX_PINS
  <2>1. ctl.hwPins \in 1..AXIMUX_MAX_PINS
    BY <1>2
  <2>2. QED
    BY <2>1, Limits
<1>3. Progress'
  <2>1. ctl.hwPins <= AXIMUX_MAX_PINS /\ Sound(<<>>)
    BY DEF Sound
  <2>2. /\ pc' \in {"failed", "pins", "table"}
        /\ ret' \in {"none", "ok", "EINVAL", "ENODATA", "ENOMEM"}
        /\ nalts' \in 1..AXIMUX_MAX_ALTS
    BY <1>1 DEF ProbeInv, Progress, GoodInfo, OutOfMemory, Fail
  <2>3. QED
    BY <1>2, <2>1, <2>2 DEF Progress, AXIMUX_MAX_ALTS
<1>4. Holds'
  <2>1. pc' \in {"failed", "pins", "table"}
    BY DEF GoodInfo, OutOfMemory, Fail
  <2>2. node' \in BOOLEAN /\ ~node'
    BY <1>2, Zenon DEF ProbeInv, Holds
  <2>3. /\ heap' \in [pins : SUBSET DOMAIN ctl'.children, mux : SUBSET DOMAIN ctl'.children]
        /\ heap'.mux = {}
    BY <1>2 DEF ProbeInv, Holds
  <2>4. QED
    BY <2>1, <2>2, <2>3 DEF Holds
<1>5. Tables'
  <2>1. CASE UNCHANGED pins
    BY <2>1, <1>2, TablesKept DEF tables, ProbeInv
  <2>2. CASE pins' = [n \in 1..ctl.hwPins |->
                        [number |-> n - 1, name |-> PinName[n - 1], funcs |-> <<>>]]
    <3> DEFINE P(n) == [number |-> n - 1, name |-> PinName[n - 1], funcs |-> <<>>]
    <3>1. <<>> \in Seq(Names)
      BY EmptySeq
    <3>2. ASSUME NEW n \in 1..ctl.hwPins
          PROVE  P(n) \in Pin /\ P(n).number < ctl.hwPins
      <4>1. n - 1 \in 0..(AXIMUX_MAX_PINS - 1) /\ n - 1 < ctl.hwPins
        BY Limits
      <4>2. PinName[n - 1] \in Names
        BY <4>1, ProbeAssumption
      <4>3. QED
        BY <3>1, <4>1, <4>2 DEF Pin
    <3>3. pins' = [n \in 1..ctl.hwPins |-> P(n)]
      BY <2>2
    <3> HIDE DEF P
    <3>4. ctl.hwPins \in Nat
      OBVIOUS
    <3>5. pins' \in [1..ctl.hwPins -> Pin]
      BY <3>2, <3>3
    <3>6. pins' \in Seq(Pin)
      BY <3>4, <3>5, SeqDef
    <3>7. \A x \in DOMAIN pins' : pins'[x].number < ctl.hwPins
      BY <3>2, <3>3
    <3>8. EntriesFit(<<>>, <<>>) /\ DOMAIN groups = {}
      BY <1>2 DEF EntriesFit
    <3>9. QED
      BY <1>2, <3>6, <3>7, <3>8 DEF ProbeInv, Tables
  <2>3. QED
    BY <2>1, <2>2 DEF GoodInfo
<1>6. QED
  BY <1>3, <1>4, <1>5 DEF ProbeInv

LEMMA ParsePinInv == ProbeInv /\ ParsePin => ProbeInv'
<1> SUFFICES ASSUME ProbeInv, ParsePin PROVE ProbeInv'
  OBVIOUS
<1> DEFINE new == [number |-> Current.reg, name |-> PinName[Current.reg],
                   funcs |-> IF Current.funcs = Absent THEN <<>> ELSE Current.funcs]
<1>1. /\ groups = <<>> /\ funcs = <<>> /\ Sound(funcs)
      /\ k \in Nat \ {0} /\ k <= Len(ctl.children)
      /\ ctl.hwPins <= AXIMUX_MAX_PINS
      /\ pc = "pins" /\ pins' = Append(pins, new) /\ k' = k + 1
      /\ UNCHANGED <<ctl, pc, f, nalts, groups, funcs, node, heap, ret>>
  BY DEF ProbeInv, Progress, ParsePin, AtChild
<1>2. new \in Pin /\ new.number < ctl.hwPins
  <2>1. Current.reg \in Nat /\ Current.reg < ctl.hwPins
    <3>1. Current.reg # Absent /\ Current.reg < ctl.hwPins
      BY DEF ParsePin, IsPinNode, RegInRange
    <3>2. QED
      BY <1>1, <3>1, CurrentChild DEF ProbeInv
  <2>2. ctl.hwPins \in Nat
    BY HwPinsByte DEF ProbeInv
  <2>3. Current.reg \in 0..(AXIMUX_MAX_PINS - 1)
    <3>1. ctl.hwPins <= AXIMUX_MAX_PINS
      BY <1>1
    <3>2. QED
      BY <2>1, <2>2, <3>1, Limits
  <2>4. PinName[Current.reg] \in Names
    BY <2>3, ProbeAssumption
  <2>5. new.funcs \in Seq(Names)
    BY <1>1, CurrentChild, EmptySeq DEF ProbeInv
  <2>6. QED
    BY <2>1, <2>3, <2>4, <2>5 DEF Pin
<1> HIDE DEF new
<1>3. Tables'
  <2>1. pins \in Seq(Pin)
    BY DEF ProbeInv, Tables
  <2>2. /\ pins' \in Seq(Pin) /\ Len(pins') = Len(pins) + 1
        /\ \A x \in 1..Len(pins) : pins'[x] = pins[x]
        /\ pins'[Len(pins) + 1] = new
    BY <1>1, <1>2, <2>1, AppendProperties
  <2>3. \A x \in DOMAIN pins' : pins'[x].number < ctl'.hwPins
    BY <1>1, <1>2, <2>1, <2>2 DEF ProbeInv, Tables
  <2>4. DOMAIN groups = {}
    BY <1>1
  <2>5. QED
    BY <1>1, <2>2, <2>3, <2>4 DEF ProbeInv, Tables
<1>4. Progress'
  BY <1>1 DEF ProbeInv, Progress
<1>5. Holds'
  BY <1>1 DEF ProbeInv, Holds, AtGroupNode, AtChild
<1>6. QED
  BY <1>3, <1>4, <1>5 DEF ProbeInv

\* A group more that is made of registered pins leaves the tables usable.
LEMMA GroupAdded ==
  ASSUME Tables, NEW g \in Group, GroupUsable(g), groups' = Append(groups, g),
         UNCHANGED <<ctl, pins>>, funcs' \in Seq(Function),
         EntriesFit(funcs', Append(groups, g))
  PROVE  Tables'
<1>1. groups \in Seq(Group) /\ \A x \in DOMAIN groups : GroupUsable(groups[x])
  BY DEF Tables
<1>2. /\ groups' \in Seq(Group) /\ Len(groups') = Len(groups) + 1
      /\ \A x \in 1..Len(groups) : groups'[x] = groups[x]
      /\ groups'[Len(groups) + 1] = g
  BY <1>1, AppendProperties
<1>3. \A x \in DOMAIN groups' : GroupUsable(groups'[x])
  BY <1>1, <1>2
<1>4. \A h : GroupUsable(h)' <=> GroupUsable(h)
  BY DEF GroupUsable, Numbers
<1>5. QED
  BY <1>2, <1>3, <1>4 DEF Tables, GroupUsable, Numbers

LEMMA NewGroupInv == ProbeInv /\ NewGroup => ProbeInv'
<1> SUFFICES ASSUME ProbeInv, NewGroup PROVE ProbeInv'
  OBVIOUS
<1> DEFINE g == DefaultGroup(pins[k])
<1>1. /\ pc = "default" /\ k \in Nat \ {0} /\ k <= Len(pins) /\ Len(groups) < k
      /\ Len(groups) \in {k - 1, k}
      /\ \A x \in DOMAIN groups : groups[x] = DefaultGroup(pins[x])
      /\ UNCHANGED <<ctl, k, f, nalts, pins, funcs, node, heap>>
      /\ pins \in Seq(Pin) /\ groups \in Seq(Group) /\ funcs \in Seq(Function)
  BY DEF ProbeInv, Progress, Tables, NewGroup, AtPin
<1>2. \/ pc' = "failed" /\ ret' = "ENOMEM" /\ UNCHANGED groups
      \/ groups' = Append(groups, g) /\ UNCHANGED <<pc, ret>>
  BY DEF NewGroup, OutOfMemory, Fail, DefaultGroup
<1>3. g \in Group /\ GroupUsable(g)
  <2>1. pins[k] \in Pin /\ k \in DOMAIN pins
    BY <1>1
  <2>2. pins[k].name \in Names /\ pins[k].number \in Nat
    BY <2>1 DEF Pin
  <2>3. <<pins[k].number>> \in Seq(Nat) /\ DOMAIN <<pins[k].number>> = {1}
    BY <2>2
  <2>4. QED
    BY <2>1, <2>2, <2>3 DEF DefaultGroup, Group, GroupUsable, Numbers
<1> HIDE DEF g
<1>4. Tables'
  <2>1. CASE UNCHANGED groups
    BY <1>1, <2>1, TablesKept DEF ProbeInv, tables
  <2>2. CASE groups' = Append(groups, g)
    <3>1. EntriesFit(funcs', Append(groups, g))
      BY <1>1, <1>3, OneGroupMore DEF ProbeInv, Tables
    <3>2. QED
      BY <1>1, <1>3, <2>2, <3>1, GroupAdded DEF ProbeInv
  <2>3. QED
    BY <1>2, <2>1, <2>2
<1>5. Progress'
  <2>1. CASE pc' = "failed" /\ ret' = "ENOMEM"
    BY <1>1, <2>1 DEF ProbeInv, Progress
  <2>2. CASE groups' = Append(groups, g) /\ UNCHANGED <<pc, ret>>
    <3>1. /\ Len(groups') = k /\ Len(groups') <= Len(pins)
          /\ \A x \in DOMAIN groups' : groups'[x] = DefaultGroup(pins[x])
      BY <1>1, <1>3, <2>2 DEF g
    <3>2. QED
      BY <1>1, <2>2, <3>1 DEF ProbeInv, Progress
  <2>3. QED
    BY <1>2, <2>1, <2>2
<1>6. Holds'
  BY <1>1, <1>2 DEF ProbeInv, Holds, AtGroupNode, AtChild
<1>7. QED
  BY <1>4, <1>5, <1>6 DEF ProbeInv

\* A failure of aximux_add_function leaves the tables usable as far as they go.
LEMMA FailedAddInv ==
  ASSUME Tables, NEW name \in Names, AddFunctionFails(name),
         UNCHANGED <<ctl, pins, groups>>
  PROVE  Tables'
<1>1. funcs' \in Seq(Function) /\ EntriesFit(funcs', groups)
  <2>1. CASE funcs' = funcs
    BY <2>1 DEF Tables
  <2>2. CASE funcs' \in Spoiled(name)
    BY <2>2, SpoiledTables DEF Tables
  <2>3. QED
    BY <2>1, <2>2 DEF AddFunctionFails
<1>2. QED
  BY <1>1 DEF Tables, GroupUsable, Numbers

LEMMA AddPinFunctionInv == ProbeInv /\ AddPinFunction => ProbeInv'
<1> SUFFICES ASSUME ProbeInv, AddPinFunction PROVE ProbeInv'
  OBVIOUS
<1> DEFINE name == pins[k].funcs[f]
           vals == <<DefaultMux(f)>>
<1>1. /\ pc = "default" /\ k \in Nat \ {0} /\ k <= Len(pins)
      /\ Len(groups) = k /\ f \in Nat \ {0} /\ f <= Len(pins[k].funcs)
      /\ UNCHANGED <<ctl, k, nalts, pins, groups, node, heap>>
  BY DEF ProbeInv, Progress, AddPinFunction, AtPin
<1>2. /\ pins \in Seq(Pin) /\ groups \in Seq(Group) /\ funcs \in Seq(Function)
      /\ EntriesFit(funcs, groups)
  BY DEF ProbeInv, Tables
<1>3. /\ pins[k] \in Pin /\ pins[k].name \in Names
      /\ name \in Names
  <2>1. pins[k] \in Pin
    BY <1>1, <1>2
  <2>2. pins[k].name \in Names /\ pins[k].funcs \in Seq(Names)
    BY <2>1 DEF Pin
  <2>3. f \in 1..Len(pins[k].funcs)
    BY <1>1, <2>2
  <2>4. QED
    BY <2>1, <2>2, <2>3, ElementOfSeq
<1>4. vals \in Seq(Nat) /\ Len(vals) = 1
  <2>1. DefaultMux(f) \in Nat
    BY <1>1 DEF DefaultMux
  <2>2. QED
    BY <2>1
<1>5. k \in DOMAIN groups /\ Fits(Entry(pins[k].name, vals), groups[k])
  <2>1. k \in DOMAIN groups /\ groups[k] = DefaultGroup(pins[k])
    BY <1>1, <1>2 DEF ProbeInv, Progress
  <2>2. groups[k].name = pins[k].name /\ groups[k].pins = <<pins[k].number>>
    BY <2>1 DEF DefaultGroup
  <2>3. Len(groups[k].pins) = 1
    BY <2>2
  <2>4. QED
    BY <1>4, <2>1, <2>2, <2>3 DEF Fits, Entry
<1>6. \/ AddFunctionFails(name) /\ UNCHANGED f
      \/ /\ funcs' = Added(name, pins[k].name, vals)
         /\ f' = f + 1 /\ UNCHANGED <<pc, ret>>
  BY DEF AddPinFunction
<1> HIDE DEF name, vals
<1>7. Holds'
  <2>1. pc' \in {"failed", "default"} /\ UNCHANGED <<node, heap>>
    BY <1>1, <1>6 DEF AddFunctionFails, OutOfMemory, Fail
  <2>2. ~node /\ heap.mux = {}
    BY <1>1 DEF ProbeInv, Holds, AtGroupNode, AtChild
  <2>3. UNCHANGED ctl
    BY <1>1
  <2>4. QED
    BY <2>1, <2>2, <2>3 DEF ProbeInv, Holds
<1>8. CASE AddFunctionFails(name) /\ UNCHANGED f
  <2>1. Tables'
    BY <1>1, <1>3, <1>8, FailedAddInv DEF ProbeInv
  <2>2. Progress'
    BY <1>1, <1>8 DEF ProbeInv, Progress, AddFunctionFails, OutOfMemory, Fail
  <2>3. QED
    BY <1>7, <2>1, <2>2 DEF ProbeInv
<1>9. CASE funcs' = Added(name, pins[k].name, vals) /\ f' = f + 1 /\ UNCHANGED <<pc, ret>>
  <2>1. Sound(funcs)
    BY <1>1 DEF ProbeInv, Progress
  <2>2. /\ funcs' \in Seq(Function) /\ EntriesFit(funcs', groups)
        /\ Sound(funcs')
    BY <1>2, <1>3, <1>4, <1>5, <1>9, <2>1, AddedEntry
  <2>3. Tables'
    BY <1>1, <2>2 DEF ProbeInv, Tables, GroupUsable, Numbers
  <2>4. Progress'
    BY <1>1, <1>9, <2>2 DEF ProbeInv, Progress
  <2>5. QED
    BY <1>7, <2>3, <2>4 DEF ProbeInv
<1>10. QED
  BY <1>6, <1>8, <1>9

\* aximux_find_pin_by_name returns the number of a registered pin.
LEMMA PinFound ==
  ASSUME Tables, NEW name, PinsNamed(name) # {}
  PROVE  FindPin(name) \in Numbers /\ FindPin(name) \in Nat
<1>1. pins \in Seq(Pin)
  BY DEF Tables
<1>2. /\ Len(pins) \in Nat
      /\ PinsNamed(name) \in SUBSET (1..Len(pins))
  BY <1>1 DEF PinsNamed
<1>3. \E x \in PinsNamed(name) : \A y \in PinsNamed(name) : x <= y
  BY <1>2, FirstExists
<1>4. PICK x \in PinsNamed(name) : FindPin(name) = pins[x].number
  BY <1>3 DEF FindPin
<1>5. x \in DOMAIN pins /\ pins[x] \in Pin
  BY <1>1, <1>2
<1>6. pins[x].number \in Nat
  BY <1>5 DEF Pin
<1>7. QED
  BY <1>4, <1>5, <1>6 DEF Numbers

LEMMA MuxForEachPin ==
  ASSUME NEW c, c.pins \in Seq(Names), c.mux # Absent => c.mux \in Seq(Nat)
  PROVE  MuxOf(c) \in Seq(Nat) /\ Len(MuxOf(c)) = Len(c.pins)
<1>1. Len(c.pins) \in Nat
  OBVIOUS
<1>2. CASE c.mux # Absent /\ Len(c.mux) >= Len(c.pins)
  <2>1. c.mux \in Seq(Nat)
    BY <1>2
  <2>2. \A i \in 1..Len(c.pins) : c.mux[i] \in Nat
    BY <1>1, <1>2, <2>1
  <2>3. MuxOf(c) = SubSeq(c.mux, 1, Len(c.pins))
    BY <1>2 DEF MuxOf
  <2>4. /\ SubSeq(c.mux, 1, Len(c.pins)) \in Seq(Nat)
        /\ Len(SubSeq(c.mux, 1, Len(c.pins))) =
             IF 1 <= Len(c.pins) THEN Len(c.pins) - 1 + 1 ELSE 0
    BY <1>1, <2>2, SubSeqProperties
  <2>5. QED
    BY <1>1, <2>3, <2>4
<1>3. CASE ~(c.mux # Absent /\ Len(c.mux) >= Len(c.pins))
  <2>1. MuxOf(c) = [x \in 1..Len(c.pins) |-> 0]
    BY <1>3 DEF MuxOf
  <2>2. MuxOf(c) \in [1..Len(c.pins) -> Nat]
    BY <2>1
  <2>3. MuxOf(c) \in Seq(Nat)
    BY <1>1, <2>2, SeqDef
  <2>4. QED
    BY <1>1, <2>2, <2>3
<1>4. QED
  BY <1>2, <1>3

LEMMA AddGroupInv == ProbeInv /\ AddGroup => ProbeInv'
<1> SUFFICES ASSUME ProbeInv, AddGroup PROVE ProbeInv'
  OBVIOUS
<1> DEFINE g == [name |-> Current.name,
                 pins |-> [x \in DOMAIN Current.pins |-> FindPin(Current.pins[x])]]
           fn == FunctionOf(Current)
           vals == MuxOf(Current)
<1>1. /\ pc = "extra" /\ k \in Nat \ {0} /\ k <= Len(ctl.children)
      /\ Current.pins # Absent /\ Current.pins # <<>> /\ KnownPins(Current)
      /\ heap' = [heap EXCEPT !.mux = @ \ {k}] /\ groups' = Append(groups, g)
      /\ UNCHANGED <<ctl, f, nalts, pins>>
  BY DEF ProbeInv, Progress, AddGroup, AtGroupNode, AtChild, IsGroupNode
<1>2. /\ pins \in Seq(Pin) /\ groups \in Seq(Group) /\ funcs \in Seq(Function)
      /\ EntriesFit(funcs, groups) /\ Tables
  BY DEF ProbeInv, Tables
<1>3. /\ Current.name \in Names /\ Current.pins \in Seq(Names)
      /\ fn \in Names /\ (Current.mux # Absent => Current.mux \in Seq(Nat))
  BY <1>1, <1>2, CurrentChild DEF FunctionOf
<1>4. vals \in Seq(Nat) /\ Len(vals) = Len(Current.pins)
  BY <1>3, MuxForEachPin
<1>5. /\ g \in Group /\ GroupUsable(g)
      /\ g.name = Current.name /\ Len(g.pins) = Len(Current.pins)
  <2> DEFINE ps == [x \in DOMAIN Current.pins |-> FindPin(Current.pins[x])]
  <2>1. \A x \in DOMAIN Current.pins :
          FindPin(Current.pins[x]) \in Numbers /\ FindPin(Current.pins[x]) \in Nat
    BY <1>1, <1>2, PinFound DEF KnownPins
  <2>2. DOMAIN Current.pins = 1..Len(Current.pins) /\ Len(Current.pins) \in Nat \ {0}
    BY <1>1, <1>3, EmptySeq
  <2>3. ps \in [1..Len(Current.pins) -> Nat] /\ \A x \in DOMAIN ps : ps[x] \in Numbers
    BY <2>1, <2>2
  <2>4. g = [name |-> Current.name, pins |-> ps]
    OBVIOUS
  <2> HIDE DEF ps, g
  <2>5. ps \in Seq(Nat) /\ Len(ps) = Len(Current.pins)
    BY <2>2, <2>3, SeqDef
  <2>6. ps # <<>>
    BY <2>2, <2>5
  <2>7. QED
    BY <1>3, <2>3, <2>4, <2>5, <2>6 DEF Group, GroupUsable
<1>6. \/ AddFunctionFails(fn) /\ UNCHANGED <<k, node>>
      \/ /\ funcs' = Added(fn, Current.name, vals)
         /\ k' = k + 1 /\ node' = FALSE
         /\ UNCHANGED <<pc, ret>>
  BY DEF AddGroup
<1> HIDE DEF g, fn, vals
<1>7. Len(groups) + 1 \in DOMAIN groups' /\ groups'[Len(groups) + 1] = g
      /\ groups' \in Seq(Group)
  BY <1>1, <1>2, <1>5, AppendProperties
<1>8. EntriesFit(funcs, groups')
  BY <1>1, <1>2, <1>5, OneGroupMore
<1>9. CASE AddFunctionFails(fn) /\ UNCHANGED <<k, node>>
  <2>1. pc' = "failed" /\ ret' = "ENOMEM"
    BY <1>9 DEF AddFunctionFails, OutOfMemory, Fail
  <2>2. funcs' \in Seq(Function) /\ EntriesFit(funcs', groups')
    <3>1. CASE funcs' = funcs
      BY <1>2, <1>8, <3>1
    <3>2. CASE funcs' \in Spoiled(fn)
      BY <1>2, <1>3, <1>7, <1>8, <3>2, SpoiledTables
    <3>3. QED
      BY <1>9, <3>1, <3>2 DEF AddFunctionFails
  <2>3. Tables'
    BY <1>1, <1>2, <1>5, <2>2, GroupAdded
  <2>4. Progress'
    BY <1>1, <1>9, <2>1 DEF ProbeInv, Progress
  <2>5. Holds'
    BY <1>1, <1>9, <2>1 DEF ProbeInv, Holds
  <2>6. QED
    BY <2>3, <2>4, <2>5 DEF ProbeInv
<1>10. CASE /\ funcs' = Added(fn, Current.name, vals)
            /\ k' = k + 1 /\ node' = FALSE
            /\ UNCHANGED <<pc, ret>>
  <2>1. Sound(funcs)
    BY <1>1 DEF ProbeInv, Progress
  <2>2. Fits(Entry(Current.name, vals), groups'[Len(groups) + 1])
    BY <1>4, <1>5, <1>7 DEF Fits, Entry
  <2>3. /\ funcs' \in Seq(Function) /\ EntriesFit(funcs', groups')
        /\ Sound(funcs')
    BY <1>2, <1>3, <1>4, <1>7, <1>8, <1>10, <2>1, <2>2, AddedEntry
  <2>4. Tables'
    BY <1>1, <1>2, <1>5, <2>3, GroupAdded
  <2>5. Progress'
    BY <1>1, <1>10, <2>3 DEF ProbeInv, Progress
  <2>6. node' \in BOOLEAN /\ ~node'
    BY <1>10, Zenon
  <2>7. /\ heap' \in [pins : SUBSET DOMAIN ctl'.children, mux : SUBSET DOMAIN ctl'.children]
        /\ heap'.mux = {}
    BY <1>1 DEF ProbeInv, Holds
  <2>8. Holds'
    BY <1>1, <1>10, <2>6, <2>7 DEF Holds
  <2>9. QED
    BY <2>4, <2>5, <2>8 DEF ProbeInv
<1>11. QED
  BY <1>6, <1>9, <1>10

-----------------------------------------------------------------------------
(***************************************************************************)
(* The theorem                                                             *)
(***************************************************************************)
LEMMA ProbeNextInv == ProbeInv /\ [ProbeNext]_probeVars => ProbeInv'
<1> SUFFICES ASSUME ProbeInv, [ProbeNext]_probeVars PROVE ProbeInv'
  OBVIOUS
<1>1. CASE UNCHANGED probeVars
  BY <1>1 DEF probeVars, ProbeInv, Tables, Progress, Holds, AtGroupNode, AtChild,
              Current, GroupUsable, Numbers
<1>2. CASE ProbeStep
  BY <1>2, PlainSteps, GoodInfoInv, ParsePinInv, NewGroupInv, AddPinFunctionInv,
     AddGroupInv DEF ProbeStep
<1>3. QED
  BY <1>1, <1>2 DEF ProbeNext, Finished

\* The tree is only read.
LEMMA CtlStays == [ProbeNext]_probeVars => UNCHANGED ctl
BY DEF ProbeNext, ProbeStep, NoDevice, BadInfo, GoodInfo, BadPinNode, ParsePin,
   PinsParsed, AllocGroups, NewGroup, AddPinFunction, PinDone, DefaultsDone,
   NoGroupBuffers, AllocGroupBuffers, GroupRejected, AddGroup, SkipChild, ExtraDone,
   Register, Finished, probeVars

\* The theorems are about every tree of any length, any MUXINFO and any
\* allocation that fails.
LEMMA ProbeInvariant == ProbeSpec => []ProbeInv
BY ProbeInitInv, ProbeNextInv, PTL DEF ProbeSpec

\* The probe's tables and indices are well typed, and no signal is numbered
\* beyond the registers (aximux_probe).
THEOREM ProbeTypeCorrect == ProbeSpec => []ProbeTypeOK
<1>1. ProbeInit => ctl \in Controllers
  BY DEF ProbeInit
<1>2. ctl \in Controllers /\ [ProbeNext]_probeVars => (ctl \in Controllers)'
  BY CtlStays
<1>3. QED
  BY <1>1, <1>2, ProbeInvariant, InvShows, PTL DEF ProbeSpec

\* A table that a failed krealloc has left behind is only there in a probe
\* that has failed, which registers nothing (aximux_add_function).
THEOREM StaleIsUnused == ProbeSpec => []StaleNeverUsed
BY ProbeInvariant, InvShows, PTL

\* What a probe registers can be indexed by the callbacks: pins are signals
\* of the hardware, and every function lists groups that are there, with one
\* value for each pin if no two groups have one name (aximux_set_mux).
THEOREM TablesFitCallbacks == ProbeSpec => []TablesUsable
BY ProbeInvariant, InvShows, PTL

-----------------------------------------------------------------------------
(***************************************************************************)
(* Which trees are taken                                                   *)
(***************************************************************************)
\* The numbers of the pins that the driver will have.
Registered(c) ==
  IF PinChildren(c) = {} THEN 0..(c.hwPins - 1)
  ELSE {c.children[x].reg : x \in PinChildren(c)}

PinFits(c, x) == c.children[x].reg < c.hwPins /\ c.children[x].funcs # <<>>
GroupFits(c, x) ==
  IsGroupNode(c.children[x]) =>
    \A i \in DOMAIN c.children[x].pins :
      \E n \in Registered(c) : PinName[n] = c.children[x].pins[i]

\* The hardware has pins, every pin node is of another of them and lists
\* functions if it has such a property, and groups are made of these pins.
WellFormed(c) ==
  /\ c.hwPins \in 1..AXIMUX_MAX_PINS
  /\ \A x \in PinChildren(c) : PinFits(c, x)
  /\ \A x, y \in PinChildren(c) : c.children[x].reg = c.children[y].reg => x = y
  /\ \A x \in DOMAIN c.children : GroupFits(c, x)

\* The first n - 1 children's pin nodes have a pin each, and nobody else has.
FromChildren(n) ==
  \E h :
    /\ \A y \in DOMAIN pins :
         /\ h[y] \in PinChildren(ctl) /\ h[y] < n
         /\ pins[y].number = ctl.children[h[y]].reg
    /\ \A y, z \in DOMAIN pins : h[y] = h[z] => y = z
    /\ \A x \in PinChildren(ctl) : x < n => \E y \in DOMAIN pins : h[y] = x
FromHardware ==
  /\ PinChildren(ctl) = {}
  /\ DOMAIN pins = 1..ctl.hwPins
  /\ \A y \in DOMAIN pins : pins[y].number = y - 1

PinsComplete ==
  \/ FromHardware
  \/ PinChildren(ctl) # {} /\ FromChildren(Len(ctl.children) + 1)

\* What the probe has found right so far.
Accepted ==
  /\ \A y \in DOMAIN pins : pins[y].name = PinName[pins[y].number]
  /\ pc = "info" => pins = <<>> /\ k = 1
  /\ pc \notin {"info", "failed"} => ctl.hwPins \in 1..AXIMUX_MAX_PINS
  /\ pc = "pins" =>
       /\ PinChildren(ctl) # {} /\ FromChildren(k)
       /\ \A x \in PinChildren(ctl) : x < k => PinFits(ctl, x)
  /\ pc \in {"table", "default", "extra", "register", "ready"} =>
       /\ PinsComplete
       /\ \A x \in PinChildren(ctl) : PinFits(ctl, x)
  /\ pc = "extra" => \A x \in DOMAIN ctl.children : x < k => GroupFits(ctl, x)
  /\ pc \in {"register", "ready"} => \A x \in DOMAIN ctl.children : GroupFits(ctl, x)
  /\ pc = "ready" => WellFormed(ctl)
  /\ pc = "failed" => ret = "ENOMEM" \/ ~WellFormed(ctl)

\* The little of the types that this needs.
Shape ==
  /\ Len(ctl.children) \in Nat /\ DOMAIN ctl.children = 1..Len(ctl.children)
  /\ ctl.hwPins \in Nat
  /\ \A x \in PinChildren(ctl) : ctl.children[x].reg \in Nat
  /\ \E S : pins \in Seq(S)
  /\ k \in Nat \ {0}

AcceptInv == Shape /\ Accepted

\* More pin nodes than pins, and two are of one pin or one is of none.
LEMMA NoMoreNodes ==
  ASSUME Shape, WellFormed(ctl)
  PROVE  Cardinality(PinNodes) <= ctl.hwPins
<1> DEFINE P == PinChildren(ctl)
           n == ctl.hwPins
           T == 0..(n - 1)
           h == [x \in P |-> ctl.children[x].reg]
<1>1. n \in Nat /\ P = PinNodes
  BY DEF Shape, PinChildren, PinNodes
<1>2. \A x \in P : ctl.children[x].reg \in Nat /\ ctl.children[x].reg < n
  BY DEF Shape, WellFormed, PinFits
<1>3. \A x, y \in P : ctl.children[x].reg = ctl.children[y].reg => x = y
  BY DEF WellFormed
<1> HIDE DEF P, n
<1>4. \A x \in P : h[x] \in T
  BY <1>1, <1>2
<1>5. h \in Injection(P, T)
  BY <1>3, <1>4 DEF Injection, IsInjective
<1>6. IsFiniteSet(T) /\ Cardinality(T) = n
  <2>1. /\ IsFiniteSet(0..(n - 1))
        /\ Cardinality(0..(n - 1)) = IF 0 > n - 1 THEN 0 ELSE (n - 1) - 0 + 1
    BY <1>1, FS_Interval
  <2>2. QED
    BY <1>1, <2>1
<1> HIDE DEF h, T
<1>7. Cardinality(P) <= Cardinality(T)
  BY <1>5, <1>6, FS_Injection
<1>8. QED
  BY <1>1, <1>6, <1>7 DEF n

\* The pins that are registered are those that the tree asks for.
LEMMA NumbersRegistered ==
  ASSUME Shape,
         PinsComplete
  PROVE  {pins[y].number : y \in DOMAIN pins} = Registered(ctl)
<1> DEFINE N == {pins[y].number : y \in DOMAIN pins}
<1>1. CASE FromHardware
  <2>1. ctl.hwPins \in Nat
    BY DEF Shape
  <2>2. N \subseteq 0..(ctl.hwPins - 1)
    BY <1>1, <2>1 DEF FromHardware
  <2>3. ASSUME NEW i \in 0..(ctl.hwPins - 1) PROVE i \in N
    <3>1. i + 1 \in DOMAIN pins /\ pins[i + 1].number = i
      BY <1>1, <2>1 DEF FromHardware
    <3>2. QED
      BY <3>1
  <2>4. QED
    BY <1>1, <2>2, <2>3 DEF FromHardware, Registered
<1>2. CASE PinChildren(ctl) # {} /\ FromChildren(Len(ctl.children) + 1)
  <2>1. PICK h :
          /\ \A y \in DOMAIN pins :
               h[y] \in PinChildren(ctl) /\ pins[y].number = ctl.children[h[y]].reg
          /\ \A x \in PinChildren(ctl) :
               x < Len(ctl.children) + 1 => \E y \in DOMAIN pins : h[y] = x
    BY <1>2 DEF FromChildren
  <2>2. \A x \in PinChildren(ctl) : x < Len(ctl.children) + 1
    BY DEF Shape, PinChildren
  <2>3. QED
    BY <1>2, <2>1, <2>2 DEF Registered
<1>3. QED
  BY <1>1, <1>2 DEF PinsComplete

\* Two pins of one number come from two nodes of one number.
LEMMA NumbersDiffer ==
  ASSUME Shape,
         PinsComplete
  PROVE  (\A y, z \in DOMAIN pins : pins[y].number = pins[z].number => y = z)
           <=> (\A x, y \in PinChildren(ctl) :
                  ctl.children[x].reg = ctl.children[y].reg => x = y)
<1>1. CASE FromHardware
  BY <1>1 DEF FromHardware, Shape
<1>2. CASE FromChildren(Len(ctl.children) + 1)
  <2>1. PICK h :
          /\ \A y \in DOMAIN pins :
               h[y] \in PinChildren(ctl) /\ pins[y].number = ctl.children[h[y]].reg
          /\ \A y, z \in DOMAIN pins : h[y] = h[z] => y = z
          /\ \A x \in PinChildren(ctl) :
               x < Len(ctl.children) + 1 => \E y \in DOMAIN pins : h[y] = x
    BY <1>2 DEF FromChildren
  <2>2. \A x \in PinChildren(ctl) : x < Len(ctl.children) + 1
    BY DEF Shape, PinChildren
  <2>3. QED
    BY <2>1, <2>2
<1>3. QED
  BY <1>1, <1>2 DEF PinsComplete

LEMMA ShapeKept ==
  Shape /\ UNCHANGED ctl /\ k' \in Nat \ {0} /\ (UNCHANGED pins \/ \E r : pins' = Append(pins, r))
    => Shape'
<1> SUFFICES ASSUME Shape, UNCHANGED ctl, k' \in Nat \ {0},
                    UNCHANGED pins \/ \E r : pins' = Append(pins, r)
             PROVE  Shape'
  OBVIOUS
<1>1. PICK S : pins \in Seq(S)
  BY DEF Shape
<1>2. \E T : pins' \in Seq(T)
  <2>1. CASE UNCHANGED pins
    BY <1>1, <2>1
  <2>2. CASE \E r : pins' = Append(pins, r)
    <3>1. PICK r : pins' = Append(pins, r)
      BY <2>2
    <3>2. pins \in Seq(S \cup {r}) /\ r \in S \cup {r}
      BY <1>1
    <3>3. pins' \in Seq(S \cup {r})
      BY <3>1, <3>2
    <3>4. QED
      BY <3>3
  <2>3. QED
    BY <2>1, <2>2
<1>3. QED
  BY <1>2 DEF Shape, PinChildren

\* What is known of the tree and the pins stays with them.
LEMMA AcceptedParts ==
  ASSUME UNCHANGED <<ctl, pins>>
  PROVE  /\ PinChildren(ctl)' = PinChildren(ctl) /\ Registered(ctl)' = Registered(ctl)
         /\ \A n : FromChildren(n)' <=> FromChildren(n)
         /\ FromHardware' <=> FromHardware
         /\ PinsComplete' <=> PinsComplete
         /\ \A x : (PinFits(ctl, x)' <=> PinFits(ctl, x))
                   /\ (GroupFits(ctl, x)' <=> GroupFits(ctl, x))
         /\ WellFormed(ctl)' <=> WellFormed(ctl)
BY DEF FromChildren, FromHardware, PinsComplete

\* Steps that only move on, and failures for want of memory.
LEMMA PlainAccepts ==
  ASSUME AcceptInv,
         \/ NoDevice \/ AllocGroups \/ NewGroup \/ AddPinFunction \/ PinDone
         \/ DefaultsDone \/ NoGroupBuffers \/ AllocGroupBuffers \/ Finished
         \/ UNCHANGED probeVars
  PROVE  AcceptInv'
<1>1. UNCHANGED <<ctl, pins>> /\ k' \in Nat \ {0}
  BY DEF NoDevice, AllocGroups, NewGroup, AddPinFunction, PinDone, DefaultsDone,
     NoGroupBuffers, AllocGroupBuffers, Finished, probeVars, tables, AcceptInv, Shape
<1>2. Shape'
  BY <1>1, ShapeKept DEF AcceptInv
<1>3. \/ pc' = pc /\ k' = k /\ ret' = ret
      \/ pc' = "failed" /\ ret' = "ENOMEM"
      \/ pc = "table" /\ pc' = "default"
      \/ pc = "default" /\ pc' = "default"
      \/ pc = "default" /\ pc' = "extra" /\ k' = 1
  BY DEF NoDevice, AllocGroups, NewGroup, AddPinFunction, PinDone, DefaultsDone,
     NoGroupBuffers, AllocGroupBuffers, Finished, probeVars, OutOfMemory, Fail, AtPin,
     AddFunctionFails
<1>4. Accepted'
  <2>1. DOMAIN ctl.children \subseteq Nat /\ \A x \in DOMAIN ctl.children : ~(x < 1)
    BY DEF AcceptInv, Shape
  <2>2. Accepted
    BY DEF AcceptInv
  <2>3. CASE pc' = pc /\ k' = k /\ ret' = ret
    BY <1>1, <2>2, <2>3, AcceptedParts DEF Accepted
  <2>4. CASE pc' = "failed" /\ ret' = "ENOMEM"
    BY <1>1, <2>2, <2>4, AcceptedParts DEF Accepted
  <2>5. CASE pc = "table" /\ pc' = "default"
    BY <1>1, <2>2, <2>5, AcceptedParts DEF Accepted
  <2>6. CASE pc = "default" /\ pc' = "default"
    BY <1>1, <2>2, <2>6, AcceptedParts DEF Accepted
  <2>7. CASE pc = "default" /\ pc' = "extra" /\ k' = 1
    BY <1>1, <2>1, <2>2, <2>7, AcceptedParts DEF Accepted
  <2>8. QED
    BY <1>3, <2>3, <2>4, <2>5, <2>6, <2>7
<1>5. QED
  BY <1>2, <1>4 DEF AcceptInv

\* The checks of MUXINFO, before a node is looked at.
LEMMA BadInfoAccepts ==
  ASSUME AcceptInv, BadInfo
  PROVE  AcceptInv'
<1>1. pc' = "failed" /\ UNCHANGED <<ctl, pins, k>>
  BY DEF BadInfo, Fail, tables
<1>2. ~WellFormed(ctl)
  <2>1. ctl.hwPins \in Nat /\ Cardinality(PinNodes) > ctl.hwPins
          => ~(Cardinality(PinNodes) <= ctl.hwPins)
          \/ Cardinality(PinNodes) \notin Nat
    <3>1. Cardinality(PinNodes) \in Nat \/ Cardinality(PinNodes) \notin Nat
      OBVIOUS
    <3>2. QED
      BY <3>1
  <2>2. Cardinality(PinNodes) \in Nat
    <3>1. IsFiniteSet(DOMAIN ctl.children)
      BY FS_Interval DEF AcceptInv, Shape
    <3>2. PinNodes \subseteq DOMAIN ctl.children
      BY DEF PinNodes, PinChildren
    <3>3. QED
      BY <3>1, <3>2, FS_Subset, FS_CardinalityType
  <2>3. Shape
    BY DEF AcceptInv
  <2>4. CASE ctl.hwPins \notin 1..AXIMUX_MAX_PINS
    BY <2>4 DEF WellFormed
  <2>5. CASE Cardinality(PinNodes) > ctl.hwPins
    <3>1. ctl.hwPins \in Nat
      BY <2>3 DEF Shape
    <3>2. QED
      BY <2>1, <2>2, <2>3, <2>5, <3>1, NoMoreNodes
  <2>6. QED
    BY <2>4, <2>5 DEF BadInfo
<1>3. Shape'
  BY <1>1, ShapeKept DEF AcceptInv, Shape
<1>4. Accepted'
  <2>1. \A y \in DOMAIN pins : pins[y].name = PinName[pins[y].number]
    BY DEF AcceptInv, Accepted
  <2>2. ~WellFormed(ctl)'
    BY <1>1, <1>2, AcceptedParts
  <2>3. QED
    BY <1>1, <2>1, <2>2 DEF Accepted
<1>5. QED
  BY <1>3, <1>4 DEF AcceptInv

LEMMA GoodInfoAccepts ==
  ASSUME AcceptInv, GoodInfo
  PROVE  AcceptInv'
<1>1. /\ UNCHANGED <<ctl, k>> /\ ctl.hwPins \in 1..AXIMUX_MAX_PINS
      /\ pc = "info" /\ pins = <<>> /\ k = 1
  BY DEF GoodInfo, AcceptInv, Accepted
<1>2. Shape /\ Accepted
  BY DEF AcceptInv
<1>3. CASE OutOfMemory /\ UNCHANGED pins
  <2>1. Shape'
    BY <1>1, <1>2, <1>3, ShapeKept DEF Shape
  <2>2. Accepted'
    BY <1>1, <1>2, <1>3, AcceptedParts DEF Accepted, OutOfMemory, Fail
  <2>3. QED
    BY <2>1, <2>2 DEF AcceptInv
<1>4. CASE PinNodes # {} /\ pc' = "pins" /\ UNCHANGED pins
  <2>1. Shape'
    BY <1>1, <1>2, <1>4, ShapeKept DEF Shape
  <2>2. PinChildren(ctl) # {} /\ \A x \in PinChildren(ctl) : ~(x < 1)
    BY <1>2, <1>4 DEF Shape, PinChildren, PinNodes
  <2>3. DOMAIN pins = {}
    BY <1>1
  <2>4. FromChildren(1)
    BY <2>2, <2>3 DEF FromChildren
  <2>5. PinChildren(ctl)' = PinChildren(ctl) /\ FromChildren(1)'
        /\ \A x : PinFits(ctl, x)' <=> PinFits(ctl, x)
    BY <1>1, <1>4, <2>4, AcceptedParts
  <2>6. Accepted'
    BY <1>1, <1>4, <2>2, <2>3, <2>5 DEF Accepted
  <2>7. QED
    BY <2>1, <2>6 DEF AcceptInv
<1>5. CASE /\ PinNodes = {}
           /\ pins' = [n \in 1..ctl.hwPins |->
                [number |-> n - 1, name |-> PinName[n - 1], funcs |-> <<>>]]
           /\ pc' = "table"
  <2>1. PinChildren(ctl)' = {} /\ PinChildren(ctl) = {}
    BY <1>1, <1>5 DEF PinChildren, PinNodes
  <2>2. /\ DOMAIN pins' = 1..ctl.hwPins
        /\ \A y \in DOMAIN pins' :
             pins'[y].number = y - 1 /\ pins'[y].name = PinName[pins'[y].number]
    BY <1>5
  <2>3. FromHardware'
    BY <1>1, <2>1, <2>2 DEF FromHardware
  <2>4. PinsComplete'
    BY <2>3 DEF PinsComplete
  <2>5. Accepted'
    BY <1>1, <1>5, <2>1, <2>2, <2>4 DEF Accepted
  <2>6. \E S : pins' \in Seq(S)
    <3> DEFINE S == {pins'[y] : y \in DOMAIN pins'}
    <3>1. pins' \in [1..ctl.hwPins -> S] /\ ctl.hwPins \in Nat
      BY <1>2, <1>5, <2>2 DEF Shape
    <3>2. pins' \in Seq(S)
      BY <3>1, SeqDef
    <3>3. QED
      BY <3>2
  <2>7. Shape'
    BY <1>1, <1>2, <2>1, <2>6 DEF Shape
  <2>8. QED
    BY <2>5, <2>7 DEF AcceptInv
<1>6. QED
  BY <1>3, <1>4, <1>5 DEF GoodInfo

\* The loop over the pin nodes.
LEMMA BadPinAccepts ==
  ASSUME AcceptInv, BadPinNode
  PROVE  AcceptInv'
<1>1. /\ pc' = "failed" /\ UNCHANGED <<ctl, pins, k>>
      /\ k \in DOMAIN ctl.children
  BY DEF BadPinNode, OutOfMemory, Fail, tables, AtChild, AcceptInv, Shape
<1>2. ret' = "ENOMEM" \/ ~WellFormed(ctl)
  <2>1. k \in PinChildren(ctl)
    BY <1>1 DEF BadPinNode, PinChildren, Current
  <2>2. ret' = "ENOMEM" \/ ~PinFits(ctl, k)
    BY DEF BadPinNode, OutOfMemory, Fail, PinFits, RegInRange, Current
  <2>3. QED
    BY <2>1, <2>2 DEF WellFormed
<1>3. Shape'
  BY <1>1, ShapeKept DEF AcceptInv, Shape
<1>4. Accepted'
  <2>1. \A y \in DOMAIN pins : pins[y].name = PinName[pins[y].number]
    BY DEF AcceptInv, Accepted
  <2>2. ret' = "ENOMEM" \/ ~WellFormed(ctl)'
    BY <1>1, <1>2, AcceptedParts
  <2>3. QED
    BY <1>1, <2>1, <2>2 DEF Accepted
<1>5. QED
  BY <1>3, <1>4 DEF AcceptInv

LEMMA ParsePinAccepts ==
  ASSUME AcceptInv, ParsePin
  PROVE  AcceptInv'
<1> DEFINE pin == [number |-> Current.reg, name |-> PinName[Current.reg],
                   funcs  |-> IF Current.funcs = Absent THEN <<>> ELSE Current.funcs]
           m == Len(pins) + 1
<1>1. /\ UNCHANGED <<ctl, pc>> /\ pc = "pins" /\ k' = k + 1
      /\ pins' = Append(pins, pin) /\ k \in PinChildren(ctl) /\ PinFits(ctl, k)
  BY DEF ParsePin, AtChild, AcceptInv, Shape, PinChildren, PinFits, RegInRange, Current
<1>2. Shape /\ Accepted
  BY DEF AcceptInv
<1>3. pin.number = ctl.children[k].reg /\ pin.name = PinName[pin.number]
  BY DEF Current
<1> HIDE DEF pin
<1>4. PICK S : pins \in Seq(S)
  BY <1>2 DEF Shape
<1>5. /\ m \in Nat \ {0} /\ DOMAIN pins = 1..(m - 1) /\ DOMAIN pins' = 1..m
      /\ pins'[m] = pin /\ \A y \in DOMAIN pins : pins'[y] = pins[y]
  <2>1. pins \in Seq(S \cup {pin}) /\ pin \in S \cup {pin}
    BY <1>4
  <2>2. QED
    BY <1>1, <2>1
<1> HIDE DEF m
<1>6. Shape'
  <2>1. k' \in Nat \ {0}
    BY <1>1, <1>2 DEF Shape
  <2>2. QED
    BY <1>1, <1>2, <2>1, ShapeKept
<1>7. PinChildren(ctl)' = PinChildren(ctl) /\ PinChildren(ctl) \subseteq Nat /\ k \in Nat
  BY <1>1, <1>2 DEF PinChildren, Shape
<1>8. FromChildren(k)'
  <2>1. PICK h :
          /\ \A y \in DOMAIN pins :
               /\ h[y] \in PinChildren(ctl) /\ h[y] < k
               /\ pins[y].number = ctl.children[h[y]].reg
          /\ \A y, z \in DOMAIN pins : h[y] = h[z] => y = z
          /\ \A x \in PinChildren(ctl) : x < k => \E y \in DOMAIN pins : h[y] = x
    BY <1>1, <1>2 DEF Accepted, FromChildren
  <2> DEFINE H == [y \in 1..m |-> IF y = m THEN k ELSE h[y]]
  <2>2. H[m] = k /\ \A y \in DOMAIN pins : H[y] = h[y]
    BY <1>5
  <2> HIDE DEF H
  <2>3. \A y \in DOMAIN pins' : y = m \/ y \in DOMAIN pins
    BY <1>5
  <2>4. \A y \in DOMAIN pins' :
          /\ H[y] \in PinChildren(ctl) /\ H[y] < k + 1
          /\ pins'[y].number = ctl.children[H[y]].reg
    <3> SUFFICES ASSUME NEW y \in DOMAIN pins'
                 PROVE  /\ H[y] \in PinChildren(ctl) /\ H[y] < k + 1
                        /\ pins'[y].number = ctl.children[H[y]].reg
      OBVIOUS
    <3>1. CASE y = m
      BY <3>1, <1>1, <1>3, <1>5, <1>7, <2>2
    <3>2. CASE y \in DOMAIN pins
      BY <3>2, <1>5, <1>7, <2>1, <2>2
    <3>3. QED
      BY <2>3, <3>1, <3>2
  <2>5. \A y, z \in DOMAIN pins' : H[y] = H[z] => y = z
    <3>1. \A y \in DOMAIN pins : H[y] # k
      BY <1>7, <2>1, <2>2
    <3>2. QED
      BY <2>1, <2>2, <2>3, <3>1
  <2>6. \A x \in PinChildren(ctl) : x < k + 1 => \E y \in DOMAIN pins' : H[y] = x
    <3>1. m \in DOMAIN pins' /\ \A y \in DOMAIN pins : y \in DOMAIN pins'
      BY <1>5
    <3>2. \A x \in PinChildren(ctl) : x < k + 1 => x < k \/ x = k
      BY <1>7
    <3>3. QED
      BY <2>1, <2>2, <3>1, <3>2
  <2>7. QED
    BY <1>1, <1>7, <2>4, <2>5, <2>6 DEF FromChildren
<1>9. \A x \in PinChildren(ctl) : x < k + 1 => PinFits(ctl, x)
  BY <1>1, <1>2, <1>7 DEF Accepted
<1>10. \A y \in DOMAIN pins' : pins'[y].name = PinName[pins'[y].number]
  <2>1. \A y \in DOMAIN pins' : y = m \/ y \in DOMAIN pins
    BY <1>5
  <2>2. \A y \in DOMAIN pins : pins[y].name = PinName[pins[y].number]
    BY <1>2 DEF Accepted
  <2>3. QED
    BY <1>3, <1>5, <2>1, <2>2
<1>11. (\A x \in PinChildren(ctl) : x < k => PinFits(ctl, x))'
  <2>1. \A x : PinFits(ctl, x)' <=> PinFits(ctl, x)
    BY <1>1 DEF PinFits
  <2>2. QED
    BY <1>1, <1>7, <1>9, <2>1
<1>12. ctl'.hwPins \in 1..AXIMUX_MAX_PINS
  BY <1>1, <1>2 DEF Accepted
<1>13. Accepted'
  BY <1>1, <1>7, <1>8, <1>10, <1>11, <1>12 DEF Accepted
<1>14. QED
  BY <1>6, <1>13 DEF AcceptInv

LEMMA PinsParsedAccepts ==
  ASSUME AcceptInv, PinsParsed
  PROVE  AcceptInv'
<1>1. /\ UNCHANGED <<ctl, pins>> /\ pc = "pins" /\ pc' = "table" /\ k' = 1
      /\ k > Len(ctl.children)
  BY DEF PinsParsed, tables
<1>2. Shape /\ Accepted
  BY DEF AcceptInv
<1>3. Shape'
  BY <1>1, <1>2, ShapeKept
<1>4. \A x \in PinChildren(ctl) : x < k /\ x < Len(ctl.children) + 1
  BY <1>1, <1>2 DEF Shape, PinChildren
<1>5. FromChildren(Len(ctl.children) + 1)
  <2>1. FromChildren(k)
    BY <1>1, <1>2 DEF Accepted
  <2>2. QED
    BY <1>4, <2>1 DEF FromChildren
<1>6. PinsComplete /\ \A x \in PinChildren(ctl) : PinFits(ctl, x)
  BY <1>1, <1>2, <1>4, <1>5 DEF PinsComplete, Accepted
<1>7. Accepted'
  BY <1>1, <1>2, <1>6, AcceptedParts DEF Accepted
<1>8. QED
  BY <1>3, <1>7 DEF AcceptInv

\* A group's pins are all found if and only if the tree asks for pins of
\* these names.
LEMMA KnownPinsFit ==
  ASSUME Shape, PinsComplete, NEW x \in DOMAIN ctl.children,
         \A y \in DOMAIN pins : pins[y].name = PinName[pins[y].number],
         IsGroupNode(ctl.children[x])
  PROVE  KnownPins(ctl.children[x]) <=> GroupFits(ctl, x)
<1>1. {pins[y].number : y \in DOMAIN pins} = Registered(ctl)
  BY NumbersRegistered
<1>2. \A name : PinsNamed(name) # {} <=> \E n \in Registered(ctl) : PinName[n] = name
  BY <1>1 DEF PinsNamed
<1>3. QED
  BY <1>2 DEF KnownPins, GroupFits

\* The loop over the group nodes.
LEMMA GroupRejectedAccepts ==
  ASSUME AcceptInv, GroupRejected
  PROVE  AcceptInv'
<1>1. /\ pc = "extra" /\ pc' = "failed" /\ UNCHANGED <<ctl, pins, k>>
      /\ k \in DOMAIN ctl.children /\ IsGroupNode(ctl.children[k])
  BY DEF GroupRejected, OutOfMemory, Fail, tables, AtGroupNode, AtChild, Current,
         AcceptInv, Shape
<1>2. Shape /\ Accepted
  BY DEF AcceptInv
<1>3. ret' = "ENOMEM" \/ ~WellFormed(ctl)
  <2>1. /\ \A y \in DOMAIN pins : pins[y].name = PinName[pins[y].number]
        /\ PinsComplete
    BY <1>1, <1>2 DEF Accepted
  <2>2. KnownPins(ctl.children[k]) <=> GroupFits(ctl, k)
    BY <1>1, <1>2, <2>1, KnownPinsFit
  <2>3. ret' = "ENOMEM" \/ ~KnownPins(ctl.children[k])
    BY DEF GroupRejected, OutOfMemory, Fail, Current
  <2>4. QED
    BY <1>1, <2>2, <2>3 DEF WellFormed
<1>4. Shape'
  BY <1>1, <1>2, ShapeKept DEF Shape
<1>5. Accepted'
  <2>1. \A y \in DOMAIN pins : pins[y].name = PinName[pins[y].number]
    BY <1>2 DEF Accepted
  <2>2. ret' = "ENOMEM" \/ ~WellFormed(ctl)'
    BY <1>1, <1>3, AcceptedParts
  <2>3. QED
    BY <1>1, <2>1, <2>2 DEF Accepted
<1>6. QED
  BY <1>4, <1>5 DEF AcceptInv

\* The child that is passed fits, as all before it do.
LEMMA NextChild ==
  ASSUME AcceptInv, pc = "extra", UNCHANGED <<ctl, pins, pc>>, k' = k + 1,
         k \in DOMAIN ctl.children => GroupFits(ctl, k)
  PROVE  AcceptInv'
<1>1. Shape /\ Accepted
  BY DEF AcceptInv
<1>2. k' \in Nat \ {0}
  BY <1>1 DEF Shape
<1>3. Shape'
  BY <1>1, <1>2, ShapeKept
<1>4. \A x \in DOMAIN ctl.children : x < k + 1 => GroupFits(ctl, x)
  <2>1. \A x \in DOMAIN ctl.children : x < k + 1 => x < k \/ x = k
    BY <1>1 DEF Shape
  <2>2. QED
    BY <1>1, <2>1 DEF Accepted
<1>5. (\A x \in DOMAIN ctl.children : x < k => GroupFits(ctl, x))'
  BY <1>4, AcceptedParts
<1>6. /\ PinsComplete'
      /\ (\A x \in PinChildren(ctl) : PinFits(ctl, x))'
      /\ (\A y \in DOMAIN pins : pins[y].name = PinName[pins[y].number])'
      /\ (ctl.hwPins \in 1..AXIMUX_MAX_PINS)'
  BY <1>1, AcceptedParts DEF Accepted
<1>7. Accepted'
  BY <1>5, <1>6 DEF Accepted
<1>8. QED
  BY <1>3, <1>7 DEF AcceptInv

LEMMA AddGroupAccepts ==
  ASSUME AcceptInv, AddGroup
  PROVE  AcceptInv'
<1>1. /\ pc = "extra" /\ UNCHANGED <<ctl, pins>>
      /\ k \in DOMAIN ctl.children /\ IsGroupNode(ctl.children[k])
      /\ KnownPins(ctl.children[k])
  BY DEF AddGroup, AtGroupNode, AtChild, Current, AcceptInv, Shape
<1>2. Shape /\ Accepted
  BY DEF AcceptInv
<1>3. \/ pc' = "failed" /\ ret' = "ENOMEM" /\ k' = k
      \/ k' = k + 1 /\ UNCHANGED <<pc, ret>>
  BY DEF AddGroup, AddFunctionFails, OutOfMemory, Fail
<1>4. CASE pc' = "failed" /\ ret' = "ENOMEM" /\ k' = k
  <2>1. Shape'
    BY <1>1, <1>2, <1>4, ShapeKept DEF Shape
  <2>2. Accepted'
    BY <1>1, <1>2, <1>4, AcceptedParts DEF Accepted
  <2>3. QED
    BY <2>1, <2>2 DEF AcceptInv
<1>5. CASE k' = k + 1 /\ UNCHANGED <<pc, ret>>
  <2>1. /\ \A y \in DOMAIN pins : pins[y].name = PinName[pins[y].number]
        /\ PinsComplete
    BY <1>1, <1>2 DEF Accepted
  <2>2. GroupFits(ctl, k)
    BY <1>1, <1>2, <2>1, KnownPinsFit
  <2>3. QED
    BY <1>1, <1>5, <2>2, NextChild
<1>6. QED
  BY <1>3, <1>4, <1>5

\* A child that the loop has nothing to do with.
LEMMA SkipChildAccepts ==
  ASSUME AcceptInv, SkipChild
  PROVE  AcceptInv'
<1>1. /\ UNCHANGED <<ctl, pins, pc, ret>> /\ k' = k + 1 /\ k \in DOMAIN ctl.children
  BY DEF SkipChild, tables, AtChild, AcceptInv, Shape
<1>2. Shape /\ Accepted
  BY DEF AcceptInv
<1>3. CASE pc = "extra" /\ (~IsGroupNode(Current) \/ Current.pins = <<>>)
  <2>1. GroupFits(ctl, k)
    BY <1>3 DEF GroupFits, Current
  <2>2. QED
    BY <1>1, <1>3, <2>1, NextChild
<1>4. CASE pc = "pins" /\ ~IsPinNode(Current)
  <2>1. k' \in Nat \ {0}
    BY <1>1, <1>2 DEF Shape
  <2>2. Shape'
    BY <1>1, <1>2, <2>1, ShapeKept
  <2>3. k \notin PinChildren(ctl)
    BY <1>4 DEF PinChildren, Current
  <2>4. \A x \in PinChildren(ctl) : x < k + 1 <=> x < k
    BY <1>1, <1>2, <2>3 DEF Shape, PinChildren
  <2>5. FromChildren(k + 1)
    <3>1. FromChildren(k)
      BY <1>2, <1>4 DEF Accepted
    <3>2. QED
      BY <2>4, <3>1 DEF FromChildren
  <2>6. FromChildren(k)'
    BY <1>1, <2>5 DEF FromChildren, PinChildren
  <2>7. (\A x \in PinChildren(ctl) : x < k => PinFits(ctl, x))'
    <3>1. \A x \in PinChildren(ctl) : x < k + 1 => PinFits(ctl, x)
      BY <1>2, <1>4, <2>4 DEF Accepted
    <3>2. QED
      BY <1>1, <3>1, AcceptedParts
  <2>8. /\ (PinChildren(ctl) # {})'
        /\ (\A y \in DOMAIN pins : pins[y].name = PinName[pins[y].number])'
        /\ (ctl.hwPins \in 1..AXIMUX_MAX_PINS)'
    BY <1>1, <1>2, <1>4, AcceptedParts DEF Accepted
  <2>9. Accepted'
    BY <1>1, <1>4, <2>6, <2>7, <2>8 DEF Accepted
  <2>10. QED
    BY <2>2, <2>9 DEF AcceptInv
<1>5. QED
  BY <1>3, <1>4 DEF SkipChild, AtChild

LEMMA ExtraDoneAccepts ==
  ASSUME AcceptInv, ExtraDone
  PROVE  AcceptInv'
<1>1. /\ UNCHANGED <<ctl, pins, k>> /\ pc = "extra" /\ pc' = "register"
      /\ k > Len(ctl.children)
  BY DEF ExtraDone, tables
<1>2. Shape /\ Accepted
  BY DEF AcceptInv
<1>3. Shape'
  BY <1>1, <1>2, ShapeKept DEF Shape
<1>4. \A x \in DOMAIN ctl.children : GroupFits(ctl, x)
  <2>1. \A x \in DOMAIN ctl.children : x < k
    BY <1>1, <1>2 DEF Shape
  <2>2. QED
    BY <1>1, <1>2, <2>1 DEF Accepted
<1>5. Accepted'
  BY <1>1, <1>2, <1>4, AcceptedParts DEF Accepted
<1>6. QED
  BY <1>3, <1>5 DEF AcceptInv

LEMMA RegisterAccepts ==
  ASSUME AcceptInv, Register
  PROVE  AcceptInv'
<1>1. UNCHANGED <<ctl, pins, k>> /\ pc = "register"
  BY DEF Register, tables
<1>2. Shape /\ Accepted
  BY DEF AcceptInv
<1>3. Shape'
  BY <1>1, <1>2, ShapeKept DEF Shape
<1>4. /\ \A y \in DOMAIN pins : pins[y].name = PinName[pins[y].number]
      /\ PinsComplete /\ ctl.hwPins \in 1..AXIMUX_MAX_PINS
      /\ \A x \in PinChildren(ctl) : PinFits(ctl, x)
      /\ \A x \in DOMAIN ctl.children : GroupFits(ctl, x)
  BY <1>1, <1>2 DEF Accepted
<1> DEFINE Differ == \A y, z \in DOMAIN pins : pins[y].number = pins[z].number => y = z
<1>5. Differ <=> WellFormed(ctl)
  <2> DEFINE Nodes == \A x, y \in PinChildren(ctl) :
                        ctl.children[x].reg = ctl.children[y].reg => x = y
  <2>1. Differ <=> Nodes
    BY <1>2, <1>4, NumbersDiffer
  <2> HIDE DEF Differ
  <2>2. QED
    BY <1>4, <2>1 DEF WellFormed
<1>6. \/ pc' = "failed" /\ (ret' = "ENOMEM" \/ ~Differ)
      \/ pc' = "ready" /\ Differ
  BY DEF Register, OutOfMemory, Fail
<1> HIDE DEF Differ
<1>7. Accepted'
  <2>1. /\ WellFormed(ctl)' <=> WellFormed(ctl)
        /\ PinsComplete'
        /\ (\A x \in PinChildren(ctl) : PinFits(ctl, x))'
        /\ (\A x \in DOMAIN ctl.children : GroupFits(ctl, x))'
        /\ (\A y \in DOMAIN pins : pins[y].name = PinName[pins[y].number])'
        /\ (ctl.hwPins \in 1..AXIMUX_MAX_PINS)'
    BY <1>1, <1>4, AcceptedParts
  <2>2. CASE pc' = "failed" /\ (ret' = "ENOMEM" \/ ~Differ)
    BY <1>5, <2>1, <2>2 DEF Accepted
  <2>3. CASE pc' = "ready" /\ Differ
    BY <1>5, <2>1, <2>3 DEF Accepted
  <2>4. QED
    BY <1>6, <2>2, <2>3
<1>8. QED
  BY <1>3, <1>7 DEF AcceptInv

LEMMA AcceptInit == ProbeInit => AcceptInv
<1> SUFFICES ASSUME ProbeInit PROVE AcceptInv
  OBVIOUS
<1>1. Accepted
  BY DEF ProbeInit, Accepted
<1>2. Shape
  <2>1. ctl \in Controller
    BY ProbeAssumption DEF ProbeInit
  <2>2. ctl.children \in Seq(Child) /\ ctl.hwPins \in Nat
    <3>1. ctl.children \in Seq(Child)
      BY <2>1 DEF Controller
    <3>2. ctl.hwPins \in 0..255
      BY <2>1 DEF Controller
    <3>3. ctl.hwPins \in Nat
      BY <3>2
    <3>4. QED
      BY <3>1, <3>3, Zenon
  <2>3. \A x \in PinChildren(ctl) : ctl.children[x].reg \in Nat
    <3>1. \A x \in DOMAIN ctl.children : ctl.children[x] \in Child
      BY <2>2
    <3>2. QED
      BY <3>1 DEF Child, Opt, PinChildren, IsPinNode
  <2>4. pins \in Seq({})
    BY EmptySeq DEF ProbeInit
  <2>5. QED
    BY <2>2, <2>3, <2>4 DEF Shape, ProbeInit
<1>3. QED
  BY <1>1, <1>2 DEF AcceptInv

LEMMA AcceptNext == AcceptInv /\ [ProbeNext]_probeVars => AcceptInv'
<1> SUFFICES ASSUME AcceptInv, [ProbeNext]_probeVars PROVE AcceptInv'
  OBVIOUS
<1>1. QED
  BY PlainAccepts, BadInfoAccepts, GoodInfoAccepts, BadPinAccepts, ParsePinAccepts,
     PinsParsedAccepts, GroupRejectedAccepts, AddGroupAccepts, SkipChildAccepts,
     ExtraDoneAccepts, RegisterAccepts DEF ProbeNext, ProbeStep

LEMMA AcceptInvariant == ProbeSpec => []AcceptInv
BY AcceptInit, AcceptNext, PTL DEF ProbeSpec

\* A tree is probed only if it is well formed: the hardware has pins, every
\* pin node is of one of them and no two of the same, and every group is made
\* of pins that will be there (aximux_probe and what it calls).
THEOREM OnlyWellFormedProbed == ProbeSpec => [](pc = "ready" => WellFormed(ctl))
<1>1. AcceptInv => (pc = "ready" => WellFormed(ctl))
  BY DEF AcceptInv, Accepted
<1>2. QED
  BY <1>1, AcceptInvariant, PTL

\* The probe refuses no tree that is well formed: if it fails for another
\* reason than want of memory, then for a fault of the tree or of MUXINFO.
THEOREM WellFormedNotRefused ==
  ProbeSpec => [](pc = "failed" /\ WellFormed(ctl) => ret = "ENOMEM")
<1>1. AcceptInv => (pc = "failed" /\ WellFormed(ctl) => ret = "ENOMEM")
  BY DEF AcceptInv, Accepted
<1>2. QED
  BY <1>1, AcceptInvariant, PTL

-----------------------------------------------------------------------------
(***************************************************************************)
(* What the tables say of the tree                                         *)
(***************************************************************************)

\* Places among the children follow their order.
LEMMA PlacesGrow ==
  ASSUME NEW n \in Nat, NEW S \in SUBSET (1..n)
  PROVE  /\ IsFiniteSet(S) /\ Cardinality(S) \in Nat
         /\ \A x \in S : PlaceIn(S, x) \in 1..Cardinality(S)
         /\ \A x, y \in S : x < y => PlaceIn(S, x) < PlaceIn(S, y)
<1> DEFINE Upto(x) == {y \in S : y <= x}
<1>0. \A x \in S : x \in Nat
  OBVIOUS
<1>1. IsFiniteSet(S)
  <2>1. IsFiniteSet(1..n)
    BY FS_Interval
  <2>2. QED
    BY <2>1, FS_Subset
<1>2. Cardinality(S) \in Nat
  BY <1>1, FS_CardinalityType
<1>3. ASSUME NEW x \in S
      PROVE  /\ IsFiniteSet(Upto(x)) /\ Cardinality(Upto(x)) \in Nat
             /\ Cardinality(Upto(x)) # 0 /\ Cardinality(Upto(x)) <= Cardinality(S)
  <2>1. Upto(x) \in SUBSET S /\ x \in Upto(x)
    BY <1>0
  <2> HIDE DEF Upto
  <2>2. IsFiniteSet(Upto(x)) /\ Cardinality(Upto(x)) <= Cardinality(S)
    BY <1>1, <2>1, FS_Subset
  <2>3. QED
    BY <2>1, <2>2, FS_CardinalityType, FS_EmptySet
<1>4. ASSUME NEW x \in S, NEW y \in S, x < y
      PROVE  Cardinality(Upto(x)) < Cardinality(Upto(y))
  <2>1. (\A z \in S : z <= x => z <= y) /\ y <= y /\ ~(y <= x)
    BY <1>0, <1>4
  <2>1a. Upto(x) \in SUBSET Upto(y) /\ y \in Upto(y) /\ y \notin Upto(x)
    BY <2>1
  <2> HIDE DEF Upto
  <2>2. /\ Cardinality(Upto(x)) <= Cardinality(Upto(y))
        /\ Cardinality(Upto(x)) = Cardinality(Upto(y)) => Upto(x) = Upto(y)
    BY <1>3, <2>1a, FS_Subset
  <2>3. QED
    BY <1>3, <2>1a, <2>2
<1>5. \A x : PlaceIn(S, x) = Cardinality(Upto(x))
  BY DEF PlaceIn
<1> HIDE DEF Upto
<1>6. QED
  BY <1>1, <1>2, <1>3, <1>4, <1>5

\* Those among the nodes S that are visited when child k_ is due.
Visited(S, k_) == {x \in S : x < k_}

LEMMA VisitedFirst ==
  ASSUME NEW n \in Nat, NEW S \in SUBSET (1..n)
  PROVE  Visited(S, 1) = {} /\ \A m \in Nat : m > n => Visited(S, m) = S
<1>1. \A x \in S : x \in Nat /\ ~(x < 1) /\ \A m \in Nat : m > n => x < m
  OBVIOUS
<1>2. QED
  BY <1>1 DEF Visited

LEMMA VisitedNext ==
  ASSUME NEW n \in Nat, NEW S \in SUBSET (1..n), NEW m \in Nat
  PROVE  /\ m \notin S => Visited(S, m + 1) = Visited(S, m)
         /\ m \in S => /\ Visited(S, m + 1) = Visited(S, m) \cup {m}
                       /\ PlaceIn(S, m) = Cardinality(Visited(S, m)) + 1
                       /\ Cardinality(Visited(S, m + 1)) = Cardinality(Visited(S, m)) + 1
         /\ Cardinality(Visited(S, m)) \in Nat
<1>1. /\ m \notin S => Visited(S, m + 1) = Visited(S, m)
      /\ m \in S => /\ Visited(S, m + 1) = Visited(S, m) \cup {m}
                    /\ {y \in S : y <= m} = Visited(S, m + 1)
      /\ m \notin Visited(S, m) /\ Visited(S, m) \in SUBSET S
  <2>1. \A x \in S : /\ x \in Nat /\ (x < m + 1 <=> x < m \/ x = m)
                     /\ (x <= m <=> x < m + 1)
    OBVIOUS
  <2>2. ~(m < m)
    OBVIOUS
  <2>3. QED
    BY <2>1, <2>2 DEF Visited
<1>2. IsFiniteSet(S)
  BY PlacesGrow
<1>3. IsFiniteSet(Visited(S, m)) /\ Cardinality(Visited(S, m)) \in Nat
  BY <1>1, <1>2, FS_Subset, FS_CardinalityType
<1>4. Cardinality(Visited(S, m) \cup {m}) = Cardinality(Visited(S, m)) + 1
  BY <1>1, <1>3, FS_AddElement
<1>5. QED
  BY <1>1, <1>3, <1>4 DEF PlaceIn

-----------------------------------------------------------------------------
\* The functions are those of the declarations D, each with its declarations
\* in order.
FunctionsFor(fs, c, D) ==
  /\ IsFiniteSet(D)
  /\ \A x, y \in DOMAIN fs : fs[x].name = fs[y].name => x = y
  /\ \A x \in DOMAIN fs : \E d \in D : DeclaredFn(c, d) = fs[x].name
  /\ \A d \in D : \E x \in DOMAIN fs : fs[x].name = DeclaredFn(c, d)
  /\ \A x \in DOMAIN fs :
       /\ Len(fs[x].entries) = Cardinality(DeclaredFor(c, D, fs[x].name))
       /\ \A d \in DeclaredFor(c, D, fs[x].name) :
            /\ EntryPlace(c, D, d) \in DOMAIN fs[x].entries
            /\ fs[x].entries[EntryPlace(c, D, d)] = DeclaredEntry(c, d)
       /\ \A y \in DOMAIN fs[x].entries :
            \E d \in DeclaredFor(c, D, fs[x].name) : EntryPlace(c, D, d) = y

\* A declaration that comes after all others takes the last place among those
\* of its function, and moves none.
LEMMA LastPlace ==
  ASSUME NEW c, NEW D, IsFiniteSet(D), NEW d, d \notin D,
         \A e \in D : Sooner(e, d) /\ ~Sooner(d, e), ~Sooner(d, d)
  PROVE  /\ \A name : name # DeclaredFn(c, d) =>
                        DeclaredFor(c, D \cup {d}, name) = DeclaredFor(c, D, name)
         /\ DeclaredFor(c, D \cup {d}, DeclaredFn(c, d))
              = DeclaredFor(c, D, DeclaredFn(c, d)) \cup {d}
         /\ \A e \in D : EntryPlace(c, D \cup {d}, e) = EntryPlace(c, D, e)
         /\ EntryPlace(c, D \cup {d}, d) = Cardinality(DeclaredFor(c, D, DeclaredFn(c, d))) + 1
         /\ Cardinality(DeclaredFor(c, D \cup {d}, DeclaredFn(c, d)))
              = Cardinality(DeclaredFor(c, D, DeclaredFn(c, d))) + 1
         /\ Cardinality(DeclaredFor(c, D, DeclaredFn(c, d))) \in Nat
<1> DEFINE fn == DeclaredFn(c, d)
           M == DeclaredFor(c, D, fn)
<1> HIDE DEF fn
<1>0. DeclaredFn(c, d) = fn
  BY DEF fn
<1>1. /\ \A name : name # fn => DeclaredFor(c, D \cup {d}, name) = DeclaredFor(c, D, name)
      /\ DeclaredFor(c, D \cup {d}, fn) = M \cup {d}
      /\ M \in SUBSET D
  BY <1>0 DEF DeclaredFor
<1>2. IsFiniteSet(M) /\ Cardinality(M) \in Nat
  BY <1>1, FS_Subset, FS_CardinalityType
<1>3. Cardinality(M \cup {d}) = Cardinality(M) + 1
  BY <1>1, <1>2, FS_AddElement
<1>4. ASSUME NEW e \in D
      PROVE  EntryPlace(c, D \cup {d}, e) = EntryPlace(c, D, e)
  <2>1. {x \in DeclaredFor(c, D \cup {d}, DeclaredFn(c, e)) : Sooner(x, e)}
          = {x \in DeclaredFor(c, D, DeclaredFn(c, e)) : Sooner(x, e)}
    BY DEF DeclaredFor
  <2>2. QED
    BY <2>1 DEF EntryPlace
<1>5. EntryPlace(c, D \cup {d}, d) = Cardinality(M) + 1
  <2>1. {x \in DeclaredFor(c, D \cup {d}, fn) : Sooner(x, d)} = M
    BY <1>1
  <2>2. QED
    BY <1>0, <2>1 DEF EntryPlace
<1>6. QED
  BY <1>0, <1>1, <1>2, <1>3, <1>4, <1>5

LEMMA OneDeclarationMore ==
  ASSUME funcs \in Seq(Function), NEW c, NEW D, FunctionsFor(funcs, c, D),
         NEW d, d \notin D, \A e \in D : Sooner(e, d) /\ ~Sooner(d, e), ~Sooner(d, d),
         NEW fn \in Names, NEW group \in Names, NEW vals \in Seq(Nat),
         DeclaredFn(c, d) = fn, DeclaredEntry(c, d) = Entry(group, vals)
  PROVE  FunctionsFor(Added(fn, group, vals), c, D \cup {d})
<1> DEFINE a == Added(fn, group, vals)
           entry == Entry(group, vals)
           i == FunctionIndex(fn)
           old == OldEntries(fn)
           E == D \cup {d}
           M == DeclaredFor(c, D, fn)
<1>1. /\ i \in DOMAIN a /\ old \in Seq(GroupEntry)
      /\ a[i].name = fn /\ a[i].entries = Append(old, entry)
      /\ \A x \in DOMAIN funcs : x # i => a[x] = funcs[x]
      /\ \/ /\ i \in DOMAIN funcs /\ DOMAIN a = DOMAIN funcs
            /\ funcs[i].name = fn /\ old = funcs[i].entries
         \/ /\ i = Len(funcs) + 1 /\ DOMAIN a = 1..(Len(funcs) + 1) /\ old = <<>>
            /\ \A x \in DOMAIN funcs : funcs[x].name # fn
  BY AddedForm
<1>2. /\ entry \in GroupEntry /\ DeclaredEntry(c, d) = entry
      /\ IsFiniteSet(D)
  BY DEF Entry, GroupEntry, FunctionsFor
<1>3. /\ \A name : name # fn => DeclaredFor(c, E, name) = DeclaredFor(c, D, name)
      /\ DeclaredFor(c, E, fn) = M \cup {d}
      /\ \A e \in D : EntryPlace(c, E, e) = EntryPlace(c, D, e)
      /\ EntryPlace(c, E, d) = Cardinality(M) + 1
      /\ Cardinality(DeclaredFor(c, E, fn)) = Cardinality(M) + 1
      /\ Cardinality(M) \in Nat
  <2>1. /\ \A name : name # DeclaredFn(c, d) =>
                        DeclaredFor(c, D \cup {d}, name) = DeclaredFor(c, D, name)
        /\ DeclaredFor(c, D \cup {d}, DeclaredFn(c, d))
              = DeclaredFor(c, D, DeclaredFn(c, d)) \cup {d}
        /\ \A e \in D : EntryPlace(c, D \cup {d}, e) = EntryPlace(c, D, e)
        /\ EntryPlace(c, D \cup {d}, d) = Cardinality(DeclaredFor(c, D, DeclaredFn(c, d))) + 1
        /\ Cardinality(DeclaredFor(c, D \cup {d}, DeclaredFn(c, d)))
              = Cardinality(DeclaredFor(c, D, DeclaredFn(c, d))) + 1
        /\ Cardinality(DeclaredFor(c, D, DeclaredFn(c, d))) \in Nat
    BY <1>2, LastPlace
  <2>2. DeclaredFn(c, d) = fn
    OBVIOUS
  <2>3. QED
    BY <2>1, <2>2
<1>4. IsFiniteSet(E)
  BY <1>2, FS_AddElement
<1>5. \A name : DeclaredFor(c, D, name) \subseteq D
  BY DEF DeclaredFor
<1> HIDE DEF a, entry, i, old, E
<1>6. \A x \in DOMAIN a : x = i \/ (x \in DOMAIN funcs /\ x # i)
  BY <1>1
<1>7. \A x \in DOMAIN funcs : x \in DOMAIN a /\ (x # i => funcs[x].name # fn)
  <2>1. \A x, y \in DOMAIN funcs : funcs[x].name = funcs[y].name => x = y
    BY DEF FunctionsFor
  <2>2. QED
    BY <1>1, <2>1
<1>8. /\ Len(old) = Cardinality(M)
      /\ \A e \in M : EntryPlace(c, D, e) \in DOMAIN old
                      /\ old[EntryPlace(c, D, e)] = DeclaredEntry(c, e)
      /\ \A y \in DOMAIN old : \E e \in M : EntryPlace(c, D, e) = y
  <2>1. CASE i \in DOMAIN funcs /\ funcs[i].name = fn /\ old = funcs[i].entries
    BY <2>1 DEF FunctionsFor
  <2>2. CASE old = <<>> /\ \A x \in DOMAIN funcs : funcs[x].name # fn
    <3>1. M = {}
      BY <2>2 DEF FunctionsFor, DeclaredFor
    <3>2. Cardinality(M) = 0 /\ Len(old) = 0 /\ DOMAIN old = {}
      BY <2>2, <3>1, FS_EmptySet
    <3>3. QED
      BY <3>1, <3>2
  <2>3. QED
    BY <1>1, <2>1, <2>2
<1> HIDE DEF M
<1>9. /\ Len(a[i].entries) = Cardinality(M) + 1
      /\ \A y \in DOMAIN old : y \in DOMAIN a[i].entries /\ a[i].entries[y] = old[y]
      /\ Cardinality(M) + 1 \in DOMAIN a[i].entries
      /\ a[i].entries[Cardinality(M) + 1] = entry
      /\ \A y \in DOMAIN a[i].entries : y \in DOMAIN old \/ y = Cardinality(M) + 1
  <2> DEFINE q == Append(old, entry)
  <2>1. /\ Len(q) = Len(old) + 1 /\ Len(old) \in Nat
        /\ DOMAIN q = 1..(Len(old) + 1) /\ DOMAIN old = 1..Len(old)
        /\ \A y \in DOMAIN old : q[y] = old[y]
        /\ q[Len(old) + 1] = entry
    BY <1>1, <1>2
  <2> HIDE DEF q
  <2>2. a[i].entries = q
    BY <1>1 DEF q
  <2>3. QED
    BY <1>8, <2>1, <2>2
<1>10. \A x, y \in DOMAIN a : a[x].name = a[y].name => x = y
  BY <1>1, <1>6, <1>7 DEF FunctionsFor
<1>11. \A x \in DOMAIN a : \E e \in E : DeclaredFn(c, e) = a[x].name
  BY <1>1, <1>6 DEF FunctionsFor, E
<1>12. \A e \in E : \E x \in DOMAIN a : a[x].name = DeclaredFn(c, e)
  <2>1. ASSUME NEW e \in D PROVE \E x \in DOMAIN a : a[x].name = DeclaredFn(c, e)
    <3>1. PICK x \in DOMAIN funcs : funcs[x].name = DeclaredFn(c, e)
      BY DEF FunctionsFor
    <3>2. CASE x = i
      BY <1>1, <1>7, <3>1, <3>2
    <3>3. CASE x # i
      BY <1>1, <1>7, <3>1, <3>3
    <3>4. QED
      BY <3>2, <3>3
  <2>2. QED
    BY <1>1, <2>1 DEF E
<1>13. ASSUME NEW x \in DOMAIN a
       PROVE  /\ Len(a[x].entries) = Cardinality(DeclaredFor(c, E, a[x].name))
              /\ \A e \in DeclaredFor(c, E, a[x].name) :
                   /\ EntryPlace(c, E, e) \in DOMAIN a[x].entries
                   /\ a[x].entries[EntryPlace(c, E, e)] = DeclaredEntry(c, e)
              /\ \A y \in DOMAIN a[x].entries :
                   \E e \in DeclaredFor(c, E, a[x].name) : EntryPlace(c, E, e) = y
  <2>1. CASE x = i
    <3>1. \A e \in M : EntryPlace(c, E, e) = EntryPlace(c, D, e)
      BY <1>3, <1>5 DEF M
    <3>2. DeclaredFor(c, E, a[x].name) = M \cup {d}
      BY <1>1, <1>3, <2>1
    <3>3. Len(a[x].entries) = Cardinality(DeclaredFor(c, E, a[x].name))
      BY <1>1, <1>3, <1>9, <2>1
    <3>4. \A e \in M : /\ EntryPlace(c, E, e) \in DOMAIN a[x].entries
                       /\ a[x].entries[EntryPlace(c, E, e)] = DeclaredEntry(c, e)
      BY <1>8, <1>9, <2>1, <3>1
    <3>5. /\ EntryPlace(c, E, d) \in DOMAIN a[x].entries
          /\ a[x].entries[EntryPlace(c, E, d)] = DeclaredEntry(c, d)
      BY <1>2, <1>3, <1>9, <2>1
    <3>6. ASSUME NEW y \in DOMAIN a[x].entries
          PROVE  \E e \in M \cup {d} : EntryPlace(c, E, e) = y
      BY <1>3, <1>8, <1>9, <2>1, <3>1
    <3>7. QED
      BY <3>2, <3>3, <3>4, <3>5, <3>6
  <2>2. CASE x # i /\ x \in DOMAIN funcs
    <3>1. a[x] = funcs[x] /\ funcs[x].name # fn
      BY <1>1, <1>7, <2>2
    <3>2. DeclaredFor(c, E, a[x].name) = DeclaredFor(c, D, funcs[x].name)
      BY <1>3, <3>1
    <3>3. \A e \in DeclaredFor(c, D, funcs[x].name) : EntryPlace(c, E, e) = EntryPlace(c, D, e)
      BY <1>3, <1>5
    <3>4. QED
      BY <2>2, <3>1, <3>2, <3>3 DEF FunctionsFor
  <2>3. QED
    BY <1>6, <2>1, <2>2
<1>14. QED
  BY <1>4, <1>10, <1>11, <1>12, <1>13 DEF FunctionsFor, a, E


-----------------------------------------------------------------------------
\* The pin that node x becomes, and the pins of the first n - 1 children.
PinOf(c, x) ==
  [number |-> c.children[x].reg, name |-> PinName[c.children[x].reg],
   funcs |-> IF c.children[x].funcs = Absent THEN <<>> ELSE c.children[x].funcs]

PinsFollow(ps, c, n) ==
  /\ Len(ps) = Cardinality(Visited(PinChildren(c), n))
  /\ \A x \in Visited(PinChildren(c), n) :
       /\ PlaceIn(PinChildren(c), x) \in DOMAIN ps
       /\ ps[PlaceIn(PinChildren(c), x)] = PinOf(c, x)
  /\ \A y \in DOMAIN ps : \E x \in Visited(PinChildren(c), n) : PlaceIn(PinChildren(c), x) = y

PinsOfHardware(ps, c) ==
  /\ PinChildren(c) = {} /\ Len(ps) = c.hwPins
  /\ \A y \in DOMAIN ps : ps[y].number = y - 1 /\ ps[y].funcs = <<>>
PinsAll(ps, c) ==
  \/ PinsOfHardware(ps, c)
  \/ PinChildren(c) # {} /\ PinsFollow(ps, c, Len(c.children) + 1)

\* The groups of all pins, and behind them those of the first n - 1 children.
GroupIs(g, child) ==
  /\ g.name = child.name /\ Len(g.pins) = Len(child.pins)
  /\ \A i \in DOMAIN child.pins : PinName[g.pins[i]] = child.pins[i]
GroupsFollow(gs, ps, c, n) ==
  /\ Len(gs) = Len(ps) + Cardinality(Visited(GroupChildren(c), n))
  /\ \A y \in DOMAIN ps : y \in DOMAIN gs /\ gs[y] = DefaultGroup(ps[y])
  /\ \A x \in Visited(GroupChildren(c), n) :
       /\ Len(ps) + PlaceIn(GroupChildren(c), x) \in DOMAIN gs
       /\ GroupIs(gs[Len(ps) + PlaceIn(GroupChildren(c), x)], c.children[x])

\* The declarations made when function f_ of pin k_ is due, and when child k_
\* of the second loop is.
DonePins(c, k_, f_) ==
  {d \in Declarations(c) :
     /\ d[1] = 1
     /\ \/ PlaceIn(PinChildren(c), d[2]) < k_
        \/ PlaceIn(PinChildren(c), d[2]) = k_ /\ d[3] < f_}
DoneGroups(c, k_) == {d \in Declarations(c) : d[1] = 1 \/ d[2] < k_}

\* What each phase has made of the tree.
Match ==
  /\ pc \in {"info", "pins", "table"} => f = 1
  /\ pc = "pins" => PinChildren(ctl) # {} /\ PinsFollow(pins, ctl, k)
  /\ pc \in {"table", "default", "extra", "register", "ready"} => PinsAll(pins, ctl)
  /\ pc = "default" => FunctionsFor(funcs, ctl, DonePins(ctl, k, f))
  /\ pc = "extra" => /\ FunctionsFor(funcs, ctl, DoneGroups(ctl, k))
                     /\ GroupsFollow(groups, pins, ctl, k)
  /\ pc \in {"register", "ready"} =>
       /\ FunctionsFor(funcs, ctl, Declarations(ctl))
       /\ GroupsFollow(groups, pins, ctl, Len(ctl.children) + 1)

LEMMA NodesOfTree ==
  ASSUME Tables
  PROVE  /\ Len(ctl.children) \in Nat /\ DOMAIN ctl.children = 1..Len(ctl.children)
         /\ ctl.hwPins \in Nat
         /\ PinChildren(ctl) \in SUBSET (1..Len(ctl.children))
         /\ GroupChildren(ctl) \in SUBSET (1..Len(ctl.children))
         /\ \A x \in DOMAIN ctl.children :
              /\ ctl.children[x].name \in Names
              /\ ctl.children[x].funcs # Absent => ctl.children[x].funcs \in Seq(Names)
              /\ ctl.children[x].pins # Absent => ctl.children[x].pins \in Seq(Names)
<1>1. ctl.children \in Seq(Child)
  BY ProbeAssumption DEF Tables, Controller
<1>2. Len(ctl.children) \in Nat /\ DOMAIN ctl.children = 1..Len(ctl.children)
  BY <1>1
<1>3. PinChildren(ctl) \in SUBSET (1..Len(ctl.children))
      /\ GroupChildren(ctl) \in SUBSET (1..Len(ctl.children))
  BY <1>2 DEF PinChildren, GroupChildren
<1>4. ASSUME NEW x \in DOMAIN ctl.children
      PROVE  /\ ctl.children[x].name \in Names
             /\ ctl.children[x].funcs # Absent => ctl.children[x].funcs \in Seq(Names)
             /\ ctl.children[x].pins # Absent => ctl.children[x].pins \in Seq(Names)
  <2>1. ctl.children[x] \in Child
    BY <1>1
  <2>2. QED
    BY <2>1 DEF Child, Opt
<1>5. QED
  BY <1>2, <1>3, <1>4, HwPinsByte

\* A declaration is an alternate of a pin node, or a group node.
LEMMA DeclarationForm ==
  ASSUME Tables, NEW d \in Declarations(ctl)
  PROVE  \/ \E x \in PinChildren(ctl) : \E a \in Alternates(ctl.children[x]) :
              d = <<1, x, a>> /\ d[1] = 1 /\ d[2] = x /\ d[3] = a /\ a \in Nat \ {0} /\ x \in Nat
         \/ \E x \in GroupChildren(ctl) :
              d = <<2, x, 1>> /\ d[1] = 2 /\ d[2] = x /\ d[3] = 1 /\ x \in Nat
<1>1. \A x \in PinChildren(ctl) \cup GroupChildren(ctl) : x \in Nat /\ x \in DOMAIN ctl.children
  BY NodesOfTree
<1>2. CASE \E x \in PinChildren(ctl) : \E a \in Alternates(ctl.children[x]) : d = <<1, x, a>>
  <2>1. PICK x \in PinChildren(ctl) : \E a \in Alternates(ctl.children[x]) : d = <<1, x, a>>
    BY <1>2
  <2>2. PICK a \in Alternates(ctl.children[x]) : d = <<1, x, a>>
    BY <2>1
  <2>3. ctl.children[x].funcs \in Seq(Names) /\ a \in DOMAIN ctl.children[x].funcs
    BY <1>1, <2>2, NodesOfTree DEF Alternates
  <2>4. a \in Nat \ {0}
    BY <2>3
  <2>5. QED
    BY <1>1, <2>2, <2>4
<1>3. CASE \E x \in GroupChildren(ctl) : d = <<2, x, 1>>
  BY <1>1, <1>3
<1>4. \/ \E x \in PinChildren(ctl) : \E a \in Alternates(ctl.children[x]) : d = <<1, x, a>>
      \/ \E x \in GroupChildren(ctl) : d = <<2, x, 1>>
  BY DEF Declarations
<1>5. QED
  BY <1>2, <1>3, <1>4

LEMMA MatchInit == ProbeInit => Match
BY DEF ProbeInit, Match

\* Steps that write no table and stay where they are, and returns.
LEMMA FailedMatches == pc' = "failed" => Match'
BY DEF Match

LEMMA MatchSame ==
  Match /\ UNCHANGED <<ctl, pc, k, f, tables>> => Match'
BY DEF Match, tables

LEMMA GoodInfoMatches ==
  ASSUME ProbeInv, AcceptInv, Match, GoodInfo
  PROVE  Match'
<1>1. /\ k = 1 /\ f = 1 /\ pins = <<>> /\ UNCHANGED <<ctl, k, f, groups, funcs>>
  BY DEF ProbeInv, Progress, AcceptInv, Accepted, Match, GoodInfo
<1>2. CASE pc' = "failed"
  BY <1>2, FailedMatches
<1>3. CASE PinNodes # {} /\ pc' = "pins" /\ UNCHANGED pins
  <2>1. Visited(PinChildren(ctl), 1) = {}
    BY NodesOfTree, VisitedFirst DEF ProbeInv
  <2>2. PinsFollow(<<>>, ctl, 1)
    <3>1. Cardinality({}) = 0 /\ Len(<<>>) = 0 /\ DOMAIN <<>> = {}
      BY FS_EmptySet
    <3>2. QED
      BY <2>1, <3>1 DEF PinsFollow
  <2>3. QED
    BY <1>1, <1>3, <2>2 DEF Match, PinNodes
<1>4. CASE /\ PinNodes = {} /\ pc' = "table"
           /\ pins' = [n \in 1..ctl.hwPins |->
                [number |-> n - 1, name |-> PinName[n - 1], funcs |-> <<>>]]
  <2>1. ctl.hwPins \in Nat
    BY HwPinsByte DEF ProbeInv
  <2>2. /\ DOMAIN pins' = 1..ctl.hwPins
        /\ \A y \in 1..ctl.hwPins : pins'[y].number = y - 1 /\ pins'[y].funcs = <<>>
    BY <1>4
  <2>3. Len(pins') = ctl.hwPins
    <3>1. pins' \in Seq(Pin)
      BY GoodInfoInv DEF ProbeInv, Tables
    <3>2. DOMAIN pins' = 1..Len(pins') /\ Len(pins') \in Nat
      BY <3>1
    <3>3. QED
      BY <2>1, <2>2, <3>2
  <2>4. PinsAll(pins', ctl')
    BY <1>1, <1>4, <2>2, <2>3 DEF PinsAll, PinsOfHardware, PinNodes
  <2>5. QED
    BY <1>1, <1>4, <2>4 DEF Match
<1>5. QED
  BY <1>2, <1>3, <1>4 DEF GoodInfo, OutOfMemory, Fail

\* One node more.
LEMMA ParsePinMatches ==
  ASSUME ProbeInv, Match, ParsePin
  PROVE  Match'
<1> DEFINE P == PinChildren(ctl)
           new == PinOf(ctl, k)
<1>1. /\ pc = "pins" /\ pc' = "pins" /\ k \in Nat /\ f = 1 /\ k' = k + 1
      /\ UNCHANGED <<ctl, f>> /\ P # {} /\ PinsFollow(pins, ctl, k)
      /\ pins \in Seq(Pin)
  BY DEF ProbeInv, Progress, Tables, Match, ParsePin, AtChild
<1>2. /\ pins' = Append(pins, new) /\ k \in P
  BY NodesOfTree DEF ProbeInv, Progress, ParsePin, AtChild, PinOf, Current, PinChildren
<1>3. /\ P \in SUBSET (1..Len(ctl.children)) /\ Len(ctl.children) \in Nat
  BY NodesOfTree DEF ProbeInv
<1>4. /\ Visited(P, k + 1) = Visited(P, k) \cup {k}
      /\ PlaceIn(P, k) = Cardinality(Visited(P, k)) + 1
      /\ Cardinality(Visited(P, k + 1)) = Cardinality(Visited(P, k)) + 1
  BY <1>1, <1>2, <1>3, VisitedNext
<1> HIDE DEF new, P
<1>5. /\ Len(pins') = Len(pins) + 1 /\ DOMAIN pins' = 1..(Len(pins) + 1)
      /\ DOMAIN pins = 1..Len(pins) /\ Len(pins) \in Nat
      /\ \A y \in DOMAIN pins : pins'[y] = pins[y]
      /\ pins'[Len(pins) + 1] = new
  <2>1. pins \in Seq(Pin \cup {new}) /\ new \in Pin \cup {new}
    BY <1>1
  <2>2. QED
    BY <1>2, <2>1
<1>6. /\ Len(pins) = Cardinality(Visited(P, k))
      /\ \A x \in Visited(P, k) : PlaceIn(P, x) \in DOMAIN pins /\ pins[PlaceIn(P, x)] = PinOf(ctl, x)
      /\ \A y \in DOMAIN pins : \E x \in Visited(P, k) : PlaceIn(P, x) = y
  BY <1>1 DEF PinsFollow, P
<1>7. \A x \in Visited(P, k + 1) :
        PlaceIn(P, x) \in DOMAIN pins' /\ pins'[PlaceIn(P, x)] = PinOf(ctl, x)
  <2>1. PlaceIn(P, k) \in DOMAIN pins' /\ pins'[PlaceIn(P, k)] = new
    BY <1>4, <1>5, <1>6
  <2>2. QED
    BY <1>4, <1>5, <1>6, <2>1 DEF new
<1>8. \A y \in DOMAIN pins' : \E x \in Visited(P, k + 1) : PlaceIn(P, x) = y
  <2>1. \A y \in DOMAIN pins' : y \in DOMAIN pins \/ y = PlaceIn(P, k)
    BY <1>4, <1>5, <1>6
  <2>2. QED
    BY <1>4, <1>6, <2>1
<1>9. PinsFollow(pins', ctl, k + 1)
  BY <1>4, <1>5, <1>6, <1>7, <1>8 DEF PinsFollow, P
<1>10. QED
  BY <1>1, <1>9 DEF Match, P

LEMMA PinsParsedMatches ==
  ASSUME ProbeInv, Match, PinsParsed
  PROVE  Match'
<1> DEFINE P == PinChildren(ctl)
           n == Len(ctl.children)
<1>1. /\ pc' = "table" /\ f = 1 /\ k \in Nat /\ k > n
      /\ UNCHANGED <<ctl, f, pins>> /\ P # {} /\ PinsFollow(pins, ctl, k)
  BY DEF ProbeInv, Progress, Match, PinsParsed, tables
<1>2. P \in SUBSET (1..n) /\ n \in Nat /\ n + 1 \in Nat /\ n + 1 > n
  BY NodesOfTree DEF ProbeInv
<1>3. Visited(P, k) = P /\ Visited(P, n + 1) = P
  BY <1>1, <1>2, VisitedFirst
<1>4. PinsFollow(pins, ctl, n + 1)
  BY <1>1, <1>3 DEF PinsFollow
<1>5. QED
  BY <1>1, <1>4 DEF Match, PinsAll

\* The node of a pin that has functions.
LEMMA NodeOfPin ==
  ASSUME Tables, PinsAll(pins, ctl), NEW y \in DOMAIN pins, pins[y].funcs # <<>>
  PROVE  \E x \in PinChildren(ctl) :
           /\ PlaceIn(PinChildren(ctl), x) = y /\ pins[y] = PinOf(ctl, x)
           /\ ctl.children[x].funcs # Absent /\ pins[y].funcs = ctl.children[x].funcs
           /\ pins[y].name = PinName[ctl.children[x].reg]
<1>1. PinsFollow(pins, ctl, Len(ctl.children) + 1)
  BY DEF PinsAll, PinsOfHardware
<1>2. PICK x \in PinChildren(ctl) : PlaceIn(PinChildren(ctl), x) = y /\ pins[y] = PinOf(ctl, x)
  BY <1>1 DEF PinsFollow, Visited
<1>3. QED
  BY <1>2 DEF PinOf

\* The nodes have places up to the number of pins.
LEMMA PlacesOfPins ==
  ASSUME Tables, PinsAll(pins, ctl), NEW x \in PinChildren(ctl)
  PROVE  /\ PlaceIn(PinChildren(ctl), x) \in DOMAIN pins
         /\ PlaceIn(PinChildren(ctl), x) \in Nat \ {0}
         /\ pins[PlaceIn(PinChildren(ctl), x)] = PinOf(ctl, x)
<1>1. PinsFollow(pins, ctl, Len(ctl.children) + 1)
  BY DEF PinsAll, PinsOfHardware
<1>2. /\ PinChildren(ctl) \in SUBSET (1..Len(ctl.children)) /\ Len(ctl.children) \in Nat
      /\ Len(ctl.children) + 1 \in Nat /\ Len(ctl.children) + 1 > Len(ctl.children)
  BY NodesOfTree
<1>3. Visited(PinChildren(ctl), Len(ctl.children) + 1) = PinChildren(ctl)
  BY <1>2, VisitedFirst
<1>4. pins \in Seq(Pin)
  BY DEF Tables
<1>5. QED
  BY <1>1, <1>3, <1>4 DEF PinsFollow

LEMMA NoDeclarations == ASSUME NEW c PROVE FunctionsFor(<<>>, c, {})
<1>1. DOMAIN <<>> = {} /\ IsFiniteSet({})
  BY FS_EmptySet
<1>2. QED
  BY <1>1 DEF FunctionsFor

LEMMA AllocGroupsMatches ==
  ASSUME ProbeInv, Match, AllocGroups
  PROVE  Match'
<1>1. CASE pc' = "failed"
  BY <1>1, FailedMatches
<1>2. CASE pc' = "default"
  <2>1. /\ pc = "table" /\ k = 1 /\ f = 1 /\ funcs = <<>> /\ PinsAll(pins, ctl)
        /\ UNCHANGED <<ctl, k, f, pins, funcs>>
    BY <1>2 DEF ProbeInv, Progress, Match, AllocGroups, OutOfMemory, Fail, tables
  <2>2. ASSUME NEW d \in DonePins(ctl, 1, 1) PROVE FALSE
    <3>1. /\ d \in Declarations(ctl) /\ d[1] = 1
          /\ \/ PlaceIn(PinChildren(ctl), d[2]) < 1
             \/ PlaceIn(PinChildren(ctl), d[2]) = 1 /\ d[3] < 1
      BY <2>2 DEF DonePins
    <3>2. d[2] \in PinChildren(ctl) /\ d[3] \in Nat \ {0}
      BY <3>1, DeclarationForm DEF ProbeInv
    <3>3. PlaceIn(PinChildren(ctl), d[2]) \in Nat \ {0}
      BY <2>1, <3>2, PlacesOfPins DEF ProbeInv
    <3>4. QED
      BY <3>1, <3>2, <3>3
  <2>3. DonePins(ctl, 1, 1) = {}
    BY <2>2
  <2>4. QED
    BY <1>2, <2>1, <2>3, NoDeclarations DEF Match
<1>3. QED
  BY <1>1, <1>2 DEF AllocGroups, OutOfMemory, Fail

\* One alternate of one pin more.
LEMMA AddPinFunctionMatches ==
  ASSUME ProbeInv, AcceptInv, Match, AddPinFunction
  PROVE  Match'
<1> DEFINE P == PinChildren(ctl)
           fn == pins[k].funcs[f]
           D == DonePins(ctl, k, f)
<1>1. /\ pc = "default" /\ k \in Nat \ {0} /\ k <= Len(pins)
      /\ f \in Nat \ {0} /\ f <= Len(pins[k].funcs)
      /\ UNCHANGED <<ctl, k, pins, groups>>
      /\ PinsAll(pins, ctl) /\ FunctionsFor(funcs, ctl, D)
      /\ pins \in Seq(Pin) /\ funcs \in Seq(Function) /\ Tables
  BY DEF ProbeInv, Progress, Tables, Match, AddPinFunction, AtPin
<1>2. CASE pc' = "failed"
  BY <1>2, FailedMatches
<1>3. CASE /\ funcs' = Added(fn, pins[k].name, <<DefaultMux(f)>>)
           /\ f' = f + 1 /\ UNCHANGED pc
  <2>1. /\ k \in DOMAIN pins /\ pins[k] \in Pin
        /\ pins[k].name \in Names /\ pins[k].funcs \in Seq(Names)
    <3>1. pins[k] \in Pin /\ k \in DOMAIN pins
      BY <1>1
    <3>2. QED
      BY <3>1 DEF Pin
  <2>2. f \in DOMAIN pins[k].funcs /\ fn \in Names /\ pins[k].funcs # <<>>
    BY <1>1, <2>1
  <2>3. PICK x \in P : /\ PlaceIn(P, x) = k
                       /\ ctl.children[x].funcs # Absent
                       /\ pins[k].funcs = ctl.children[x].funcs
                       /\ pins[k].name = PinName[ctl.children[x].reg]
    BY <1>1, <2>1, <2>2, NodeOfPin
  <2> DEFINE d == <<1, x, f>>
  <2>4. d[1] = 1 /\ d[2] = x /\ d[3] = f
    OBVIOUS
  <2>5. d \in Declarations(ctl)
    BY <2>2, <2>3 DEF Declarations, Alternates
  <2>6. /\ P \in SUBSET (1..Len(ctl.children)) /\ Len(ctl.children) \in Nat /\ x \in Nat
    BY <1>1, NodesOfTree
  <2>7. \A y \in P : /\ y \in Nat /\ PlaceIn(P, y) \in Nat
                     /\ PlaceIn(P, y) < k => y < x
                     /\ PlaceIn(P, y) = k => y = x
    <3>1. \A y, z \in P : y < z => PlaceIn(P, y) < PlaceIn(P, z)
      BY <2>6, PlacesGrow
    <3>2. \A y \in P : y \in Nat /\ PlaceIn(P, y) \in Nat
      BY <1>1, <2>6, PlacesOfPins
    <3> HIDE DEF P
    <3>3. QED
      BY <1>1, <2>3, <2>6, <3>1, <3>2
  <2>8. \A e \in Declarations(ctl) :
          /\ e[1] = 1 => /\ e = <<1, e[2], e[3]>> /\ e[2] \in P /\ e[2] \in Nat
                         /\ e[3] \in Nat
          /\ e[1] \in {1, 2}
    BY <1>1, DeclarationForm
  <2>9. \A e \in D : e \in Declarations(ctl) /\ e[1] = 1 /\ (e[2] < x \/ (e[2] = x /\ e[3] < f))
    <3>1. \A e \in D : /\ e \in Declarations(ctl) /\ e[1] = 1
                        /\ (PlaceIn(P, e[2]) < k \/ (PlaceIn(P, e[2]) = k /\ e[3] < f))
      BY DEF DonePins
    <3> HIDE DEF P, D
    <3>2. \A e \in D : e \in Declarations(ctl) /\ e[1] = 1 /\ e[2] \in P
      BY <2>8, <3>1
    <3>3. \A e \in D : PlaceIn(P, e[2]) < k \/ (PlaceIn(P, e[2]) = k /\ e[3] < f)
      BY <3>1
    <3>4. ASSUME NEW e \in D
          PROVE  e[2] < x \/ (e[2] = x /\ e[3] < f)
      <4> DEFINE y == e[2]
      <4>1. y \in P /\ (PlaceIn(P, y) < k \/ (PlaceIn(P, y) = k /\ e[3] < f))
        BY <3>2, <3>3
      <4>2. (PlaceIn(P, y) < k => y < x) /\ (PlaceIn(P, y) = k => y = x)
        BY <2>7, <4>1
      <4>3. QED
        BY <4>1, <4>2
    <3>5. QED
      BY <3>2, <3>4
  <2>10. ASSUME NEW e
         PROVE  e \in DonePins(ctl, k, f + 1) <=> e \in D \/ e = d
    <3>1. CASE e = d
      BY <1>1, <2>3, <2>4, <2>5, <3>1 DEF DonePins
    <3>2. CASE e # d
      <4>1. ASSUME e \in Declarations(ctl), e[1] = 1, PlaceIn(P, e[2]) = k
            PROVE  e[3] < f + 1 <=> e[3] < f
        <5>1. e = <<1, x, e[3]>> /\ e[3] \in Nat
          BY <2>7, <2>8, <4>1
        <5>2. e[3] # f
          BY <3>2, <5>1
        <5>3. QED
          BY <1>1, <5>1, <5>2
      <4>2. QED
        BY <3>2, <4>1 DEF DonePins
    <3>3. QED
      BY <3>1, <3>2
  <2>11. DonePins(ctl, k, f + 1) = D \cup {d}
    BY <2>10
  <2>12. /\ DeclaredFn(ctl, d) = fn
         /\ DeclaredEntry(ctl, d) = Entry(pins[k].name, <<DefaultMux(f)>>)
    BY <2>3, <2>4 DEF DeclaredFn, DeclaredEntry, DefaultMux
  <2> HIDE DEF d, D
  <2>13. d \notin D /\ ~Sooner(d, d) /\ \A e \in D : Sooner(e, d) /\ ~Sooner(d, e)
    BY <1>1, <2>4, <2>6, <2>8, <2>9 DEF Sooner
  <2>14. <<DefaultMux(f)>> \in Seq(Nat)
    <3>1. DefaultMux(f) \in Nat
      BY <1>1 DEF DefaultMux
    <3>2. QED
      BY <3>1
  <2> HIDE DEF fn
  <2>15. FunctionsFor(Added(fn, pins[k].name, <<DefaultMux(f)>>), ctl, D \cup {d})
    BY <1>1, <2>1, <2>2, <2>12, <2>13, <2>14, OneDeclarationMore
  <2>16. FunctionsFor(funcs', ctl, DonePins(ctl, k, f + 1))
    BY <1>3, <2>11, <2>15
  <2>17. QED
    BY <1>1, <1>3, <2>16 DEF Match
<1>4. QED
  BY <1>2, <1>3 DEF AddPinFunction, AddFunctionFails, OutOfMemory, Fail

LEMMA PinDoneMatches ==
  ASSUME ProbeInv, Match, PinDone
  PROVE  Match'
<1> DEFINE P == PinChildren(ctl)
<1>1. /\ pc = "default" /\ k \in Nat \ {0} /\ k <= Len(pins)
      /\ f \in Nat \ {0} /\ f > Len(pins[k].funcs)
      /\ k' = k + 1 /\ f' = 1
      /\ UNCHANGED <<ctl, pc, pins, funcs>>
      /\ PinsAll(pins, ctl) /\ FunctionsFor(funcs, ctl, DonePins(ctl, k, f))
      /\ pins \in Seq(Pin) /\ Tables
  BY DEF ProbeInv, Progress, Tables, Match, PinDone, AtPin, tables
<1>2. ASSUME NEW e \in Declarations(ctl), e[1] = 1
      PROVE  e \in DonePins(ctl, k, f) <=> e \in DonePins(ctl, k + 1, 1)
  <2>1. PICK x \in P : \E a \in Alternates(ctl.children[x]) :
                e[2] = x /\ e[3] = a /\ a \in Nat \ {0}
    BY <1>1, <1>2, DeclarationForm
  <2>2. e[2] = x /\ e[3] \in Alternates(ctl.children[x]) /\ e[3] \in Nat \ {0}
    BY <2>1
  <2>3. PlaceIn(P, x) \in Nat /\ pins[PlaceIn(P, x)] = PinOf(ctl, x)
        /\ PlaceIn(P, x) \in DOMAIN pins
    BY <1>1, PlacesOfPins
  <2>4. ctl.children[x].funcs # Absent /\ e[3] \in DOMAIN ctl.children[x].funcs
    BY <2>2 DEF Alternates
  <2>5. ctl.children[x].funcs \in Seq(Names)
    BY <1>1, <2>4, NodesOfTree
  <2>6. e[3] <= Len(ctl.children[x].funcs) /\ Len(ctl.children[x].funcs) \in Nat
    BY <2>4, <2>5
  <2>7. PlaceIn(P, x) = k => e[3] < f
    <3>1. pins[PlaceIn(P, x)].funcs = ctl.children[x].funcs
      BY <2>3, <2>4 DEF PinOf
    <3>2. QED
      BY <1>1, <2>2, <2>6, <3>1
  <2> HIDE DEF P
  <2>8. PlaceIn(P, x) < k + 1 <=> PlaceIn(P, x) < k \/ PlaceIn(P, x) = k
    BY <1>1, <2>3
  <2>9. ~(e[3] < 1)
    BY <2>2
  <2>10. QED
    BY <1>2, <2>2, <2>7, <2>8, <2>9 DEF DonePins, P
<1>3. DonePins(ctl, k, f) = DonePins(ctl, k + 1, 1)
  BY <1>2 DEF DonePins
<1>4. QED
  BY <1>1, <1>3 DEF Match

LEMMA DefaultsDoneMatches ==
  ASSUME ProbeInv, Match, DefaultsDone
  PROVE  Match'
<1> DEFINE P == PinChildren(ctl)
           G == GroupChildren(ctl)
<1>1. /\ pc = "default" /\ k \in Nat \ {0} /\ k > Len(pins)
      /\ pc' = "extra" /\ k' = 1
      /\ UNCHANGED <<ctl, pins, groups, funcs>>
      /\ PinsAll(pins, ctl) /\ FunctionsFor(funcs, ctl, DonePins(ctl, k, f))
      /\ pins \in Seq(Pin) /\ groups \in Seq(Group) /\ Tables
      /\ Len(groups) \in {k - 1, k} /\ Len(groups) <= Len(pins)
      /\ \A x \in DOMAIN groups : groups[x] = DefaultGroup(pins[x])
  BY DEF ProbeInv, Progress, Tables, Match, DefaultsDone, tables
<1>2. ASSUME NEW e \in Declarations(ctl)
      PROVE  e \in DonePins(ctl, k, f) <=> e \in DoneGroups(ctl, 1)
  <2>1. CASE e[1] = 1
    <3>1. e[2] \in P
      BY <1>1, <2>1, DeclarationForm
    <3>2. PlaceIn(P, e[2]) \in DOMAIN pins
      BY <1>1, <3>1, PlacesOfPins
    <3>3. PlaceIn(P, e[2]) < k
      BY <1>1, <3>2
    <3>4. QED
      BY <2>1, <3>3 DEF DonePins, DoneGroups
  <2>2. CASE e[1] # 1
    <3>1. e[2] \in G
      BY <1>1, <2>2, DeclarationForm
    <3>2. ~(e[2] < 1)
      BY <1>1, <3>1, NodesOfTree
    <3>3. QED
      BY <2>2, <3>2 DEF DonePins, DoneGroups
  <2>3. QED
    BY <2>1, <2>2
<1>3. DonePins(ctl, k, f) = DoneGroups(ctl, 1)
  BY <1>2 DEF DonePins, DoneGroups
<1>4. GroupsFollow(groups, pins, ctl, 1)
  <2>1. Visited(G, 1) = {}
    BY <1>1, NodesOfTree, VisitedFirst
  <2>2. Len(groups) = Len(pins) /\ Len(pins) \in Nat
    BY <1>1
  <2>3. DOMAIN groups = 1..Len(groups) /\ DOMAIN pins = 1..Len(pins)
    BY <1>1
  <2>4. QED
    <3>1. Len(groups) = Len(pins) + Cardinality(Visited(G, 1))
      BY <2>1, <2>2, FS_EmptySet
    <3>2. \A y \in DOMAIN pins : y \in DOMAIN groups /\ groups[y] = DefaultGroup(pins[y])
      BY <1>1, <2>2, <2>3
    <3>3. QED
      BY <2>1, <3>1, <3>2 DEF GroupsFollow
<1>5. QED
  BY <1>1, <1>3, <1>4 DEF Match

\* The driver finds a pin by its name, which says the pin's number.
LEMMA FoundByName ==
  ASSUME Tables, \A y \in DOMAIN pins : pins[y].name = PinName[pins[y].number],
         NEW name, PinsNamed(name) # {}
  PROVE  PinName[FindPin(name)] = name
<1>1. pins \in Seq(Pin)
  BY DEF Tables
<1>2. Len(pins) \in Nat /\ PinsNamed(name) \in SUBSET (1..Len(pins))
  BY <1>1 DEF PinsNamed
<1>3. \E x \in PinsNamed(name) : \A y \in PinsNamed(name) : x <= y
  BY <1>2, FirstExists
<1>4. PICK x \in PinsNamed(name) : FindPin(name) = pins[x].number
  BY <1>3 DEF FindPin
<1>5. QED
  BY <1>4 DEF PinsNamed

\* One group node more.
LEMMA AddGroupMatches ==
  ASSUME ProbeInv, AcceptInv, Match, AddGroup
  PROVE  Match'
<1> DEFINE G == GroupChildren(ctl)
           child == ctl.children[k]
           fn == FunctionOf(child)
           vals == MuxOf(child)
           g == [name |-> child.name,
                 pins |-> [x \in DOMAIN child.pins |-> FindPin(child.pins[x])]]
           D == DoneGroups(ctl, k)
           n == Len(ctl.children)
<1>1. /\ pc = "extra" /\ k \in Nat \ {0} /\ k <= n
      /\ groups' = Append(groups, g)
      /\ IsGroupNode(child) /\ child.pins # <<>> /\ KnownPins(child)
      /\ UNCHANGED <<ctl, pins>>
      /\ PinsAll(pins, ctl) /\ FunctionsFor(funcs, ctl, D)
      /\ GroupsFollow(groups, pins, ctl, k)
      /\ pins \in Seq(Pin) /\ groups \in Seq(Group) /\ funcs \in Seq(Function)
      /\ Tables
  BY DEF ProbeInv, Progress, Tables, Match, AddGroup, AtGroupNode, AtChild, Current
<1>2. CASE pc' = "failed"
  BY <1>2, FailedMatches
<1>3. CASE funcs' = Added(fn, child.name, vals) /\ k' = k + 1 /\ UNCHANGED pc
  <2>1. /\ G \in SUBSET (1..n) /\ n \in Nat /\ DOMAIN ctl.children = 1..n
    BY <1>1, NodesOfTree
  <2>2. k \in G /\ k \in DOMAIN ctl.children
    BY <1>1, <2>1 DEF GroupChildren, NonEmptyGroup
  <2>3. /\ child.name \in Names /\ child.pins \in Seq(Names)
        /\ fn \in Names /\ (child.mux # Absent => child.mux \in Seq(Nat))
    BY <1>1, CurrentChild DEF FunctionOf, Current, IsGroupNode
  <2>4. vals \in Seq(Nat)
    BY <2>3, MuxForEachPin
  <2> DEFINE d == <<2, k, 1>>
  <2>5. d[1] = 2 /\ d[2] = k /\ d[3] = 1 /\ d \in Declarations(ctl)
    BY <2>2 DEF Declarations
  <2>6. DeclaredFn(ctl, d) = fn /\ DeclaredEntry(ctl, d) = Entry(child.name, vals)
    BY <2>5 DEF DeclaredFn, DeclaredEntry
  <2>7. \A e \in Declarations(ctl) :
          e[1] = 1 \/ (e[1] = 2 /\ e = <<2, e[2], 1>> /\ e[2] \in Nat)
    BY <1>1, DeclarationForm
  <2>8. ASSUME NEW e
        PROVE  e \in DoneGroups(ctl, k + 1) <=> e \in D \/ e = d
    <3>1. CASE e = d
      BY <1>1, <2>5, <3>1 DEF DoneGroups
    <3>2. CASE e # d
      <4>1. ASSUME e \in Declarations(ctl), e[1] # 1
            PROVE  e[2] < k + 1 <=> e[2] < k
        <5>1. e = <<2, e[2], 1>> /\ e[2] \in Nat
          BY <2>7, <4>1
        <5>2. e[2] # k
          BY <3>2, <5>1
        <5>3. QED
          BY <1>1, <5>1, <5>2
      <4>2. QED
        BY <3>2, <4>1 DEF DoneGroups
    <3>3. QED
      BY <3>1, <3>2
  <2>9. DoneGroups(ctl, k + 1) = D \cup {d}
    BY <2>8
  <2>10. \A e \in D : e[1] = 1 \/ (e[1] = 2 /\ e[2] \in Nat /\ e[2] < k)
    BY <2>7 DEF DoneGroups
  <2> HIDE DEF d, D
  <2>11. d \notin D /\ ~Sooner(d, d) /\ \A e \in D : Sooner(e, d) /\ ~Sooner(d, e)
    BY <1>1, <2>5, <2>10 DEF Sooner
  <2> HIDE DEF fn, vals
  <2>12. FunctionsFor(Added(fn, child.name, vals), ctl, D \cup {d})
    BY <1>1, <2>3, <2>4, <2>6, <2>11, OneDeclarationMore
  <2>13. FunctionsFor(funcs', ctl, DoneGroups(ctl, k + 1))
    BY <1>3, <2>9, <2>12
  <2>14. GroupIs(g, child)
    <3>1. \A i \in DOMAIN child.pins : PinName[FindPin(child.pins[i])] = child.pins[i]
      BY <1>1, FoundByName DEF KnownPins, AcceptInv, Accepted
    <3> DEFINE ps == [x \in DOMAIN child.pins |-> FindPin(child.pins[x])]
    <3>2. DOMAIN ps = 1..Len(child.pins) /\ Len(child.pins) \in Nat
      BY <2>3
    <3>3. Len(ps) = Len(child.pins)
      BY <3>2
    <3>4. \A i \in DOMAIN child.pins : ps[i] = FindPin(child.pins[i])
      OBVIOUS
    <3>5. g.name = child.name /\ g.pins = ps
      OBVIOUS
    <3> HIDE DEF ps, g
    <3>6. QED
      BY <3>1, <3>3, <3>4, <3>5 DEF GroupIs
  <2>15. GroupsFollow(groups', pins, ctl, k + 1)
    <3> HIDE DEF g, child
    <3>1. /\ Len(groups') = Len(groups) + 1 /\ Len(groups) \in Nat
          /\ DOMAIN groups = 1..Len(groups)
          /\ DOMAIN groups' = 1..(Len(groups) + 1)
          /\ \A y \in DOMAIN groups : groups'[y] = groups[y]
          /\ groups'[Len(groups) + 1] = g
      <4>1. groups \in Seq(Group \cup {g}) /\ g \in Group \cup {g}
        BY <1>1
      <4>2. QED
        BY <1>1, <4>1
    <3>2. /\ Visited(G, k + 1) = Visited(G, k) \cup {k}
          /\ PlaceIn(G, k) = Cardinality(Visited(G, k)) + 1
          /\ Cardinality(Visited(G, k + 1)) = Cardinality(Visited(G, k)) + 1
          /\ Cardinality(Visited(G, k)) \in Nat
      BY <1>1, <2>1, <2>2, VisitedNext
    <3>3. /\ Len(groups) = Len(pins) + Cardinality(Visited(G, k))
          /\ \A y \in DOMAIN pins : y \in DOMAIN groups /\ groups[y] = DefaultGroup(pins[y])
          /\ \A x \in Visited(G, k) : /\ Len(pins) + PlaceIn(G, x) \in DOMAIN groups
                                     /\ GroupIs(groups[Len(pins) + PlaceIn(G, x)], ctl.children[x])
      BY <1>1 DEF GroupsFollow
    <3>4. Len(pins) \in Nat
      BY <1>1
    <3> HIDE DEF G
    <3>5. Len(pins) + PlaceIn(G, k) = Len(groups) + 1
      BY <3>2, <3>3, <3>4
    <3>6. \A y \in DOMAIN groups : y \in DOMAIN groups' /\ groups'[y] = groups[y]
      BY <3>1
    <3>7. Len(groups) + 1 \in DOMAIN groups'
      BY <3>1
    <3>8. \A x \in Visited(G, k + 1) :
            /\ Len(pins) + PlaceIn(G, x) \in DOMAIN groups'
            /\ GroupIs(groups'[Len(pins) + PlaceIn(G, x)], ctl.children[x])
      <4>1. \A x \in Visited(G, k) :
              /\ Len(pins) + PlaceIn(G, x) \in DOMAIN groups'
              /\ GroupIs(groups'[Len(pins) + PlaceIn(G, x)], ctl.children[x])
        BY <3>3, <3>6
      <4>2. /\ Len(pins) + PlaceIn(G, k) \in DOMAIN groups'
            /\ GroupIs(groups'[Len(pins) + PlaceIn(G, k)], ctl.children[k])
        BY <2>14, <3>1, <3>5, <3>7 DEF child
      <4>3. QED
        BY <3>2, <4>1, <4>2
    <3>9. Len(groups') = Len(pins) + Cardinality(Visited(G, k + 1))
      BY <3>1, <3>2, <3>3, <3>4
    <3>10. \A y \in DOMAIN pins : y \in DOMAIN groups' /\ groups'[y] = DefaultGroup(pins[y])
      BY <3>3, <3>6
    <3>11. QED
      BY <3>8, <3>9, <3>10 DEF GroupsFollow, G
  <2>16. QED
    BY <1>1, <1>3, <2>13, <2>15 DEF Match
<1>4. QED
  BY <1>2, <1>3 DEF AddGroup, AddFunctionFails, OutOfMemory, Fail, Current

\* A child that the loop has nothing to do with.
LEMMA SkipChildMatches ==
  ASSUME ProbeInv, Match, SkipChild
  PROVE  Match'
<1> DEFINE P == PinChildren(ctl)
           G == GroupChildren(ctl)
           n == Len(ctl.children)
<1>1. /\ k \in Nat \ {0} /\ k <= n /\ k' = k + 1 /\ Tables
      /\ UNCHANGED <<ctl, pc, f, pins, groups, funcs>>
      /\ P \in SUBSET (1..n) /\ G \in SUBSET (1..n) /\ n \in Nat
  BY NodesOfTree DEF ProbeInv, Progress, SkipChild, AtChild, tables
<1>2. CASE pc = "pins" /\ ~IsPinNode(Current)
  <2>1. k \notin P
    BY <1>2 DEF PinChildren, Current
  <2>2. Visited(P, k + 1) = Visited(P, k)
    BY <1>1, <2>1, VisitedNext
  <2>3. PinsFollow(pins, ctl, k) => PinsFollow(pins, ctl, k + 1)
    BY <2>2 DEF PinsFollow
  <2>4. QED
    BY <1>1, <1>2, <2>3 DEF Match
<1>3. CASE pc = "extra" /\ (~IsGroupNode(Current) \/ Current.pins = <<>>)
  <2>1. k \notin G
    BY <1>3 DEF GroupChildren, NonEmptyGroup, Current
  <2>2. Visited(G, k + 1) = Visited(G, k)
    BY <1>1, <2>1, VisitedNext
  <2>3. GroupsFollow(groups, pins, ctl, k) => GroupsFollow(groups, pins, ctl, k + 1)
    BY <2>2 DEF GroupsFollow
  <2>4. ASSUME NEW e \in Declarations(ctl), e[1] # 1
        PROVE  e[2] < k + 1 <=> e[2] < k
    <3>1. e[2] \in G
      BY <1>1, <2>4, DeclarationForm
    <3>2. e[2] \in Nat /\ e[2] # k
      BY <1>1, <2>1, <3>1
    <3>3. QED
      BY <1>1, <3>2
  <2>5. DoneGroups(ctl, k + 1) = DoneGroups(ctl, k)
    BY <2>4 DEF DoneGroups
  <2>6. QED
    BY <1>1, <1>3, <2>3, <2>5 DEF Match
<1>4. QED
  BY <1>2, <1>3 DEF SkipChild, AtChild

LEMMA ExtraDoneMatches ==
  ASSUME ProbeInv, Match, ExtraDone
  PROVE  Match'
<1> DEFINE G == GroupChildren(ctl)
           n == Len(ctl.children)
<1>1. /\ k \in Nat \ {0} /\ k > n /\ pc = "extra" /\ pc' = "register" /\ Tables
      /\ UNCHANGED <<ctl, k, f, pins, groups, funcs>>
      /\ G \in SUBSET (1..n) /\ n \in Nat /\ n + 1 \in Nat /\ n + 1 > n
      /\ FunctionsFor(funcs, ctl, DoneGroups(ctl, k)) /\ GroupsFollow(groups, pins, ctl, k)
      /\ PinsAll(pins, ctl)
  BY NodesOfTree DEF ProbeInv, Progress, ExtraDone, tables, Match
<1>2. Visited(G, k) = G /\ Visited(G, n + 1) = G
  BY <1>1, VisitedFirst
<1>3. GroupsFollow(groups, pins, ctl, n + 1)
  BY <1>1, <1>2 DEF GroupsFollow
<1>4. ASSUME NEW e \in Declarations(ctl), e[1] # 1 PROVE e[2] < k
  <2>1. e[2] \in G
    BY <1>1, <1>4, DeclarationForm
  <2>2. QED
    BY <1>1, <2>1
<1>5. DoneGroups(ctl, k) = Declarations(ctl)
  BY <1>4 DEF DoneGroups
<1>6. QED
  BY <1>1, <1>3, <1>5 DEF Match

LEMMA PlainMatches ==
  ASSUME Match, NoDevice \/ BadInfo \/ BadPinNode \/ NoGroupBuffers
                \/ AllocGroupBuffers \/ GroupRejected \/ NewGroup \/ Register
  PROVE  Match'
<1>1. CASE pc' = "failed"
  BY <1>1, FailedMatches
<1>2. CASE AllocGroupBuffers
  BY <1>2, MatchSame DEF AllocGroupBuffers
<1>3. CASE NewGroup /\ UNCHANGED pc
  <2>1. pc = "default" /\ UNCHANGED <<ctl, pc, k, f, pins, funcs>>
    BY <1>3 DEF NewGroup, AtPin
  <2>2. QED
    BY <2>1 DEF Match
<1>4. CASE Register /\ pc' = "ready"
  <2>1. pc = "register" /\ UNCHANGED <<ctl, pins, groups, funcs>>
    BY <1>4 DEF Register, tables
  <2>2. QED
    BY <1>4, <2>1 DEF Match
<1>5. QED
  BY <1>1, <1>2, <1>3, <1>4 DEF NoDevice, BadInfo, BadPinNode, NoGroupBuffers,
     GroupRejected, NewGroup, Register, OutOfMemory, Fail

LEMMA MatchNext ==
  ASSUME ProbeInv, AcceptInv, Match, [ProbeNext]_probeVars
  PROVE  Match'
<1>1. CASE UNCHANGED probeVars
  BY <1>1, MatchSame DEF probeVars, tables
<1>2. CASE ProbeStep
  BY <1>2, PlainMatches, GoodInfoMatches, ParsePinMatches, PinsParsedMatches,
     AllocGroupsMatches, AddPinFunctionMatches, PinDoneMatches, DefaultsDoneMatches,
     AddGroupMatches, SkipChildMatches, ExtraDoneMatches DEF ProbeStep
<1>3. QED
  BY <1>1, <1>2 DEF ProbeNext, Finished

LEMMA MatchShows == ProbeInv /\ AcceptInv /\ Match => TablesMatchTree
<1> SUFFICES ASSUME ProbeInv, AcceptInv, Match, pc = "ready" PROVE TablesMatchTree
  BY DEF TablesMatchTree
<1> DEFINE P == PinChildren(ctl)
           G == GroupChildren(ctl)
           n == Len(ctl.children)
<1>1. /\ Tables /\ PinsAll(pins, ctl) /\ FunctionsFor(funcs, ctl, Declarations(ctl))
      /\ GroupsFollow(groups, pins, ctl, n + 1)
      /\ P \in SUBSET (1..n) /\ G \in SUBSET (1..n) /\ n \in Nat /\ n + 1 \in Nat
      /\ n + 1 > n
      /\ \A y \in DOMAIN pins : pins[y].name = PinName[pins[y].number]
  BY NodesOfTree DEF ProbeInv, Match, AcceptInv, Accepted
<1>2. Visited(P, n + 1) = P /\ Visited(G, n + 1) = G
  BY <1>1, VisitedFirst
<1>3. PinsMatch
  <2>1. CASE PinsOfHardware(pins, ctl)
    BY <2>1 DEF PinsMatch, PinNodes, PinsOfHardware
  <2>2. CASE P # {} /\ PinsFollow(pins, ctl, n + 1)
    <3>1. \A x \in P : PinOf(ctl, x).number = ctl.children[x].reg
      BY DEF PinOf
    <3>2. PinNodes = P
      BY DEF PinNodes
    <3> HIDE DEF P
    <3>3. Len(pins) = Cardinality(P) /\ \A x \in P : pins[PlaceIn(P, x)] = PinOf(ctl, x)
      BY <1>2, <2>2 DEF PinsFollow, P
    <3>4. QED
      BY <2>2, <3>1, <3>2, <3>3 DEF PinsMatch
  <2>3. QED
    BY <1>1, <2>1, <2>2 DEF PinsAll
<1>4. GroupsMatch
  <2>1. /\ Len(groups) = Len(pins) + Cardinality(G)
        /\ \A y \in DOMAIN pins : groups[y] = DefaultGroup(pins[y])
        /\ \A x \in G : GroupIs(groups[Len(pins) + PlaceIn(G, x)], ctl.children[x])
    BY <1>1, <1>2 DEF GroupsFollow
  <2>2. \A y \in DOMAIN pins :
          groups[y] = [name |-> PinName[pins[y].number], pins |-> <<pins[y].number>>]
    BY <1>1, <2>1 DEF DefaultGroup
  <2>3. QED
    BY <2>1, <2>2 DEF GroupsMatch, GroupIs
<1>5. FunctionsMatch
  <2> DEFINE D == Declarations(ctl)
  <2>1. FunctionsFor(funcs, ctl, D)
    BY <1>1
  <2> HIDE DEF D
  <2>2. {funcs[x].name : x \in DOMAIN funcs} = {DeclaredFn(ctl, d) : d \in D}
    BY <2>1 DEF FunctionsFor
  <2>3. QED
    BY <2>1, <2>2 DEF FunctionsMatch, FunctionsFor, D
<1>6. QED
  BY <1>3, <1>4, <1>5 DEF TablesMatchTree

\* What a probe registers is the tree and nothing but the tree, whatever the
\* order of pins and groups among the children and however often a name comes
\* back (aximux_add_function).
THEOREM TablesAreTheTree == ProbeSpec => []TablesMatchTree
<1>1. ProbeInit => Match
  BY MatchInit
<1>2. ProbeInv /\ AcceptInv /\ Match /\ [ProbeNext]_probeVars => Match'
  BY MatchNext
<1>3. ProbeInv /\ AcceptInv /\ Match => TablesMatchTree
  BY MatchShows
<1>4. QED
  BY <1>1, <1>2, <1>3, ProbeInvariant, AcceptInvariant, PTL DEF ProbeSpec

-----------------------------------------------------------------------------
(***************************************************************************)
(* The arrays of the group nodes                                           *)
(***************************************************************************)
\* In every phase, the arrays of pins are those of the groups in the table and
\* the one that the visited node is about to give its own.
Arrays == heap.pins = Taken \cup heap.mux

\* The reference that a failed probe keeps is of the child it stopped at.
Kept ==
  pc = "failed" /\ node =>
    k \in DOMAIN ctl.children /\ (ret = "ENOMEM" \/ groups = <<>>)

LEMMA NoneTaken ==
  ASSUME Tables, Len(groups) <= Len(pins)
  PROVE  Taken = {}
<1> DEFINE G == GroupChildren(ctl)
<1>1. G \in SUBSET (1..Len(ctl.children)) /\ Len(ctl.children) \in Nat
  BY NodesOfTree
<1>2. \A x \in G : PlaceIn(G, x) \in 1..Cardinality(G) /\ Cardinality(G) \in Nat
  BY <1>1, PlacesGrow
<1>3. Len(pins) \in Nat /\ Len(groups) \in Nat
  BY DEF Tables
<1> HIDE DEF G
<1>4. \A x \in G : ~(Len(pins) + PlaceIn(G, x) <= Len(groups))
  BY <1>2, <1>3
<1>5. QED
  BY <1>4 DEF Taken, G

LEMMA TakenSame == UNCHANGED <<ctl, pins, groups>> => UNCHANGED Taken
BY DEF Taken, GroupChildren, NonEmptyGroup, IsGroupNode, PlaceIn

\* When a group node is visited, the groups of those before it are in the
\* table and its own is the next.
LEMMA NextTaken ==
  ASSUME ProbeInv, Match, AtGroupNode
  PROVE  /\ k \in GroupChildren(ctl) /\ k \notin Taken
         /\ \A x \in GroupChildren(ctl) :
              /\ Len(pins) + PlaceIn(GroupChildren(ctl), x) \in Nat
              /\ Len(pins) + PlaceIn(GroupChildren(ctl), x) <= Len(groups) + 1
                   <=> x \in Taken \/ x = k
<1> DEFINE G == GroupChildren(ctl)
           n == Len(ctl.children)
           place(x) == Len(pins) + PlaceIn(G, x)
<1>1. /\ G \in SUBSET (1..n) /\ n \in Nat /\ DOMAIN ctl.children = 1..n
      /\ Len(pins) \in Nat /\ Len(groups) \in Nat
      /\ k \in Nat \ {0} /\ k <= n
      /\ Len(groups) = Len(pins) + Cardinality(Visited(G, k))
  BY NodesOfTree DEF ProbeInv, Tables, Progress, Match, GroupsFollow, AtGroupNode, AtChild
<1>2. k \in G
  BY <1>1 DEF AtGroupNode, GroupChildren, NonEmptyGroup, Current
<1>3. /\ Cardinality(Visited(G, k)) \in Nat
      /\ PlaceIn(G, k) = Cardinality(Visited(G, k)) + 1
  BY <1>1, <1>2, VisitedNext
<1>4. /\ \A x \in G : PlaceIn(G, x) \in 1..Cardinality(G)
      /\ \A x, y \in G : x < y => PlaceIn(G, x) < PlaceIn(G, y)
      /\ Cardinality(G) \in Nat
  BY <1>1, PlacesGrow
<1>5. \A x : x \in Taken <=> x \in G /\ place(x) <= Len(groups)
  BY DEF Taken
<1>6. \A x \in G : x \in Nat /\ place(x) \in Nat
  BY <1>1, <1>4
<1>7. place(k) = Len(groups) + 1
  BY <1>1, <1>3
<1>8. \A x, y \in G : x < y => place(x) < place(y)
  BY <1>1, <1>4
<1> HIDE DEF G, n, place
<1>9. k \notin Taken
  BY <1>1, <1>5, <1>7
<1>10. ASSUME NEW x \in G
       PROVE  place(x) \in Nat /\ (place(x) <= Len(groups) + 1 <=> x \in Taken \/ x = k)
  <2>1. CASE x < k
    BY <1>1, <1>2, <1>5, <1>6, <1>7, <1>8, <2>1
  <2>2. CASE x = k
    BY <1>1, <1>6, <1>7, <2>2
  <2>3. CASE x > k
    BY <1>1, <1>2, <1>5, <1>6, <1>7, <1>8, <2>3
  <2>4. QED
    BY <1>1, <1>6, <2>1, <2>2, <2>3
<1>11. QED
  BY <1>2, <1>9, <1>10 DEF G, place

\* The arrays after a step: most steps do not touch them nor the tables of pins
\* and groups, and those that fill these tables before the group nodes take none.
LEMMA ArraysNext ==
  ASSUME ProbeInv, ProbeInv', Match, Arrays, ProbeStep
  PROVE  Arrays'
<1>1. CASE UNCHANGED <<ctl, pins, groups, heap>>
  BY <1>1, TakenSame DEF Arrays
<1>2. CASE (GoodInfo \/ ParsePin \/ NewGroup) /\ UNCHANGED heap
  <2>1. Len(groups) <= Len(pins) /\ Len(groups') <= Len(pins')
    <3>1. pins \in Seq(Pin) /\ groups \in Seq(Group) /\ pins' \in Seq(Pin)
      BY DEF ProbeInv, Tables
    <3>2. CASE GoodInfo \/ ParsePin
      <4>1. groups = <<>> /\ groups' = <<>>
        BY <3>2 DEF ProbeInv, Progress, GoodInfo, ParsePin, AtChild
      <4>2. Len(<<>>) = 0
        OBVIOUS
      <4>3. QED
        BY <3>1, <4>1, <4>2
    <3>3. CASE NewGroup
      <4> DEFINE g == [name |-> pins[k].name, pins |-> <<pins[k].number>>]
      <4>1. /\ UNCHANGED pins /\ k <= Len(pins) /\ Len(groups) < k /\ k \in Nat
            /\ groups' = groups \/ groups' = Append(groups, g)
        BY <3>3 DEF ProbeInv, Progress, NewGroup, AtPin
      <4> HIDE DEF g
      <4>2. Len(groups') \in {Len(groups), Len(groups) + 1}
        BY <3>1, <4>1
      <4>3. QED
        BY <3>1, <4>1, <4>2
    <3>4. QED
      BY <1>2, <3>2, <3>3
  <2>2. Taken = {}
    BY <2>1, NoneTaken DEF ProbeInv
  <2>3. Taken' = {}
    <3>1. Tables'
      BY DEF ProbeInv
    <3>2. (Tables /\ Len(groups) <= Len(pins) => Taken = {})'
      BY NoneTaken, PTL
    <3>3. QED
      BY <2>1, <3>1, <3>2
  <2>4. QED
    BY <1>2, <2>2, <2>3 DEF Arrays
<1>3. CASE AllocGroupBuffers
  <2>1. /\ UNCHANGED <<ctl, pins, groups>>
        /\ heap'.pins = heap.pins \cup {k} /\ heap'.mux = heap.mux \cup {k}
    BY <1>3 DEF AllocGroupBuffers, tables
  <2>2. QED
    BY <2>1, TakenSame DEF Arrays
<1>4. CASE GroupRejected
  <2>1. /\ UNCHANGED <<ctl, pins, groups>> /\ AtGroupNode
        /\ heap'.pins = heap.pins \ {k} /\ heap'.mux = heap.mux \ {k}
    BY <1>4 DEF GroupRejected, tables
  <2>2. k \notin Taken
    BY <2>1, NextTaken
  <2>3. QED
    BY <2>1, <2>2, TakenSame DEF Arrays
<1>5. CASE AddGroup
  <2> DEFINE G == GroupChildren(ctl)
             g == [name |-> Current.name,
                   pins |-> [x \in DOMAIN Current.pins |-> FindPin(Current.pins[x])]]
  <2>1. /\ UNCHANGED <<ctl, pins>> /\ AtGroupNode /\ k \in heap.mux
        /\ heap' = [heap EXCEPT !.mux = @ \ {k}]
        /\ groups' = Append(groups, g)
    BY <1>5 DEF AddGroup
  <2>2. heap'.pins = heap.pins /\ heap'.mux = heap.mux \ {k}
    BY <2>1 DEF ProbeInv, Holds
  <2> HIDE DEF g
  <2>3. Len(groups') = Len(groups) + 1
    BY <2>1 DEF ProbeInv, Tables
  <2>4. GroupChildren(ctl') = G
    BY <2>1
  <2>5. Taken' = {x \in G : Len(pins) + PlaceIn(G, x) <= Len(groups) + 1}
    BY <2>1, <2>3, <2>4 DEF Taken, GroupChildren, NonEmptyGroup, IsGroupNode, PlaceIn
  <2>6. Taken \in SUBSET G
    BY DEF Taken
  <2>7. Taken' = Taken \cup {k}
    BY <2>1, <2>5, <2>6, NextTaken
  <2>8. QED
    BY <2>1, <2>2, <2>7 DEF Arrays
<1>6. QED
  BY <1>1, <1>2, <1>3, <1>4, <1>5 DEF ProbeStep, NoDevice, BadInfo, GoodInfo,
     BadPinNode, ParsePin, PinsParsed, AllocGroups, NewGroup, AddPinFunction, PinDone,
     DefaultsDone, NoGroupBuffers, SkipChild, ExtraDone, Register, tables

LEMMA KeptNext ==
  ASSUME ProbeInv, ProbeStep
  PROVE  Kept'
<1> SUFFICES ASSUME pc' = "failed", node'
             PROVE  k' \in DOMAIN ctl'.children /\ (ret' = "ENOMEM" \/ groups' = <<>>)
  BY DEF Kept
<1>1. DOMAIN ctl.children = 1..Len(ctl.children) /\ Len(ctl.children) \in Nat
      /\ k \in Nat \ {0}
  BY NodesOfTree DEF ProbeInv, Progress
<1>2. CASE BadPinNode
  <2>1. /\ UNCHANGED <<ctl, k, groups>> /\ k <= Len(ctl.children) /\ groups = <<>>
    BY <1>2 DEF ProbeInv, Progress, BadPinNode, AtChild, tables
  <2>2. QED
    BY <1>1, <2>1
<1>3. CASE NoGroupBuffers
  <2>1. UNCHANGED <<ctl, k>> /\ k <= Len(ctl.children) /\ ret' = "ENOMEM"
    BY <1>3 DEF NoGroupBuffers, AtGroupNode, AtChild, OutOfMemory, Fail
  <2>2. QED
    BY <1>1, <2>1
<1>4. CASE AddGroup
  <2>1. UNCHANGED ctl /\ k <= Len(ctl.children) /\ pc = "extra"
    BY <1>4 DEF AddGroup, AtGroupNode, AtChild
  <2>2. UNCHANGED k /\ ret' = "ENOMEM"
    BY <1>4, <2>1 DEF AddGroup, AddFunctionFails, OutOfMemory, Fail
  <2>3. QED
    BY <1>1, <2>1, <2>2
<1>5. CASE GroupRejected
  <2>1. node' = FALSE
    BY <1>5 DEF GroupRejected
  <2>2. QED
    BY <2>1, Zenon
<1>6. CASE \/ NoDevice \/ BadInfo \/ GoodInfo \/ AllocGroups \/ NewGroup
           \/ AddPinFunction \/ Register
  <2>1. pc \notin {"extra", "failed"} /\ UNCHANGED node
    BY <1>6 DEF NoDevice, BadInfo, GoodInfo, AllocGroups, NewGroup, AddPinFunction,
       Register, AtPin
  <2>2. QED
    BY <2>1 DEF ProbeInv, Holds
<1>7. CASE \/ ParsePin \/ PinsParsed \/ PinDone \/ DefaultsDone \/ AllocGroupBuffers
           \/ SkipChild \/ ExtraDone
  BY <1>7 DEF ParsePin, PinsParsed, PinDone, DefaultsDone, AllocGroupBuffers, SkipChild,
     ExtraDone, AtChild, AtPin, AtGroupNode
<1>8. QED
  BY <1>2, <1>3, <1>4, <1>5, <1>6, <1>7 DEF ProbeStep

\* Every array of a group node is freed or is its group's, whichever step
\* fails: what a failed probe leaks is the arrays of the groups in its table.
\* It keeps at most the reference on the child it stopped at, and one that
\* succeeds keeps none (aximux_parse_extra_groups).
THEOREM EveryArrayAccounted == ProbeSpec => []ArraysAccounted
<1>1. ProbeInit => Arrays /\ Kept
  <2> SUFFICES ASSUME ProbeInit PROVE Arrays /\ Kept
    OBVIOUS
  <2>1. heap.pins = {} /\ heap.mux = {} /\ pc # "failed"
    BY DEF ProbeInit
  <2>2. Len(groups) <= Len(pins)
    BY DEF ProbeInit
  <2>3. Taken = {}
    BY <2>2, ProbeInitInv, NoneTaken DEF ProbeInv
  <2>4. QED
    BY <2>1, <2>3 DEF Arrays, Kept
<1>2. ASSUME ProbeInv, ProbeInv', Match, Arrays, Kept, [ProbeNext]_probeVars
      PROVE  Arrays' /\ Kept'
  <2>1. CASE UNCHANGED probeVars
    <3>1. UNCHANGED <<ctl, pins, groups, heap>> /\ UNCHANGED <<pc, node, k, ret>>
      BY <2>1 DEF probeVars
    <3>2. QED
      BY <1>2, <3>1, TakenSame DEF Arrays, Kept
  <2>2. CASE ProbeStep
    BY <1>2, <2>2, ArraysNext, KeptNext
  <2>3. QED
    BY <1>2, <2>1, <2>2 DEF ProbeNext, Finished
<1>3. ProbeInv /\ Arrays /\ Kept => ArraysAccounted
  <2> SUFFICES ASSUME ProbeInv, Arrays, Kept PROVE ArraysAccounted
    OBVIOUS
  <2>1. heap.mux = {} \/ pc = "extra"
    BY DEF ProbeInv, Holds, AtGroupNode, AtChild
  <2>2. heap.mux = {} => heap = [pins |-> Taken, mux |-> {}]
    BY DEF ProbeInv, Holds, Arrays
  <2>3. pc = "ready" => ~node
    BY DEF ProbeInv, Holds
  <2>4. Taken \subseteq heap.pins
    BY DEF Arrays
  <2>5. QED
    BY <2>1, <2>2, <2>3, <2>4 DEF ArraysAccounted, Kept
<1>4. ProbeInit => Match
  BY MatchInit
<1>5. ProbeInv /\ AcceptInv /\ Match /\ [ProbeNext]_probeVars => Match'
  BY MatchNext
<1>6. QED
  BY <1>1, <1>2, <1>3, <1>4, <1>5, ProbeInvariant, AcceptInvariant, PTL DEF ProbeSpec
=============================================================================
