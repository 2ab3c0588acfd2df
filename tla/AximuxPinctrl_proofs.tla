------------------------- MODULE AximuxPinctrl_proofs -------------------------
(***************************************************************************)
(* The driver under the pinctrl core, for any consumers, shells, states    *)
(* and tables: claims are kept exactly, a consumer's set_mux only touches  *)
(* pins it claims, and the composed system is still the driver of          *)
(* AximuxDriver, so that what is proved there holds here.                  *)
(***************************************************************************)
EXTENDS AximuxPinctrl, AximuxDriver_proofs

(***************************************************************************)
(* The pins a selection l has claimed so far: all those of the settings    *)
(* before l.s, and those before l.i of setting l.s.                        *)
(***************************************************************************)
ClaimedSoFar(l) ==
  {p \in Pins :
     \E r \in DOMAIN MuxSettings[l.new] :
       \E x \in DOMAIN SettingPins(l.new, r) :
         /\ r < l.s \/ (r = l.s /\ x < l.i)
         /\ p = SettingPins(l.new, r)[x]}

\* One consumer: its call k, its selection l, its state st and its pins own.
ClaimsMatch(l, st, own) ==
  /\ l.pc = "idle" => own = IF st = None THEN {} ELSE MuxPins(st)
  /\ l.pc = "release" => l.s = 1 /\ l.i = 1
  /\ l.pc \in {"request", "config", "undo"} => st = None
  /\ l.pc = "request" => own = ClaimedSoFar(l)
  /\ l.pc = "config" => own = MuxPins(l.new)

CallMatches(k, l) ==
  k.at # "idle" =>
    \/ /\ l.pc = "request"
       /\ l.s \in DOMAIN MuxSettings[l.new]
       /\ l.i > Len(SettingPins(l.new, l.s))
       /\ k.op = "set_mux"
       /\ k.pins \in {SettingPins(l.new, l.s), <<>>}
    \/ /\ l.pc = "config"
       /\ l.s \in DOMAIN ConfigSettings[l.new]
       /\ k.op = "pinconf_set"
       /\ k.pins = ConfigSettings[l.new][l.s].pins

ConsumerOK(k, l, st, own) ==
  /\ st \in States \cup {None}
  /\ l \in Selection
  /\ l.pc \in {"request", "config"} => l.new # None
  /\ ClaimsMatch(l, st, own)
  /\ CallMatches(k, l)

PinctrlInv ==
  /\ DriverInv
  /\ owner \in [Pins -> Consumers \cup {None}]
  /\ state \in [Consumers -> States \cup {None}]
  /\ sel \in [Consumers -> Selection]
  /\ \A c \in Consumers : ConsumerOK(call[c], sel[c], state[c], Owned(c))

LEMMA ConsumersAreThreads == Consumers \subseteq Threads /\ None \notin Consumers
BY ConsumerAssumption

\* The check of a pin number never fails in a callback.
LEMMA PinsBelow == \A p \in Pins : p < AXIMUX_MAX_PINS
<1>1. Pins \subseteq 0..(AXIMUX_MAX_PINS - 1)
  BY TableAssumption
<1>2. \A p \in 0..(AXIMUX_MAX_PINS - 1) : p < AXIMUX_MAX_PINS
  BY DEF AXIMUX_MAX_PINS
<1>3. QED
  BY <1>1, <1>2

LEMMA SettingTypes ==
  ASSUME NEW n \in States
  PROVE  /\ MuxSettings[n] \in Seq(MuxSetting)
         /\ ConfigSettings[n] \in Seq(ConfigSetting)
         /\ \A s \in DOMAIN MuxSettings[n] :
              /\ MuxSettings[n][s].fn \in Functions
              /\ MuxSettings[n][s].group \in Groups
              /\ SettingPins(n, s) \in Seq(Pins)
         /\ \A s \in DOMAIN ConfigSettings[n] :
              /\ ConfigSettings[n][s].pins \in Seq(Pins)
              /\ ConfigSettings[n][s].cfgs \in ConfigLists
<1>1. /\ MuxSettings[n] \in Seq(MuxSetting)
      /\ ConfigSettings[n] \in Seq(ConfigSetting)
  BY ConsumerAssumption
<1>2. ASSUME NEW s \in DOMAIN MuxSettings[n]
      PROVE  /\ MuxSettings[n][s].fn \in Functions
             /\ MuxSettings[n][s].group \in Groups
             /\ SettingPins(n, s) \in Seq(Pins)
  <2>1. MuxSettings[n][s] \in MuxSetting
    BY <1>1
  <2>2. QED
    BY <2>1, TableAssumption DEF MuxSetting, SettingPins
<1>3. ASSUME NEW s \in DOMAIN ConfigSettings[n]
      PROVE  /\ ConfigSettings[n][s].pins \in Seq(Pins)
             /\ ConfigSettings[n][s].cfgs \in ConfigLists
  <2>1. ConfigSettings[n][s] \in ConfigSetting
    BY <1>1
  <2>2. (\A p \in Pins : <<p>> \in Seq(Pins))
        /\ (\A g \in Groups : GroupPins[g] \in Seq(Pins))
    BY TableAssumption
  <2>3. QED
    BY <2>1, <2>2 DEF ConfigSetting
<1>4. QED
  BY <1>1, <1>2, <1>3

\* The rule for a step: it keeps DriverInv, it is a step of consumer c whose
\* own predicate it re-establishes, and it takes no other consumer's pin.
LEMMA ConsumerMoves ==
  ASSUME PinctrlInv, DriverInv', NEW c \in Consumers,
         NEW l, NEW st,
         sel' = [sel EXCEPT ![c] = l],
         state' = [state EXCEPT ![c] = st],
         \A t \in Threads \ {c} : call'[t] = call[t],
         owner' \in [Pins -> Consumers \cup {None}],
         \A d \in Consumers \ {c} : Owned(d)' = Owned(d),
         ConsumerOK(call'[c], l, st, Owned(c)')
  PROVE  PinctrlInv'
<1>1. \A d \in Consumers : /\ sel'[d] = IF d = c THEN l ELSE sel[d]
                           /\ state'[d] = IF d = c THEN st ELSE state[d]
  BY DEF PinctrlInv
<1>2. state' \in [Consumers -> States \cup {None}] /\ sel' \in [Consumers -> Selection]
  BY DEF PinctrlInv, ConsumerOK
<1>3. ASSUME NEW d \in Consumers
      PROVE  ConsumerOK(call'[d], sel'[d], state'[d], Owned(d)')
  <2>1. CASE d = c
    BY <1>1, <2>1
  <2>2. CASE d # c
    <3>1. call'[d] = call[d] /\ Owned(d)' = Owned(d)
          /\ sel'[d] = sel[d] /\ state'[d] = state[d]
      BY <1>1, <2>2, ConsumersAreThreads
    <3>2. QED
      BY <3>1 DEF PinctrlInv
  <2>3. QED
    BY <2>1, <2>2
<1>4. QED
  BY <1>2, <1>3 DEF PinctrlInv

\* A step of consumer c that leaves the driver alone.
LEMMA CoreStep ==
  ASSUME PinctrlInv, UNCHANGED driverVars, NEW c \in Consumers,
         NEW l, NEW st,
         sel' = [sel EXCEPT ![c] = l],
         state' = [state EXCEPT ![c] = st],
         owner' \in [Pins -> Consumers \cup {None}],
         \A d \in Consumers \ {c} : Owned(d)' = Owned(d),
         ConsumerOK(call[c], l, st, Owned(c)')
  PROVE  PinctrlInv'
<1>1. DriverInv'
  BY DEF driverVars, PinctrlInv, DriverInv, TypeOK, WriteChecked, Pin, MuxVal, Cfg
<1>2. call' = call
  BY DEF driverVars
<1>3. QED
  BY <1>1, <1>2, ConsumerMoves

LEMMA BeginInv ==
  ASSUME PinctrlInv, NEW c \in Consumers, NEW n \in StatesOf[c] \cup {None},
         Begin(c, n)
  PROVE  PinctrlInv'
<1> DEFINE l == [NoSelection EXCEPT !.pc = "release", !.new = n, !.from = state[c]]
<1>1. n \in States \cup {None} /\ state[c] \in States \cup {None}
  BY ConsumerAssumption DEF PinctrlInv
<1>2. l \in Selection /\ l.pc = "release" /\ l.s = 1 /\ l.i = 1
  <2>1. NoSelection \in Selection /\ NoSelection.s = 1 /\ NoSelection.i = 1
    BY DEF NoSelection, Selection
  <2>2. QED
    BY <1>1, <2>1 DEF Selection
<1>3. sel' = [sel EXCEPT ![c] = l] /\ state' = [state EXCEPT ![c] = state[c]]
      /\ owner' = owner /\ UNCHANGED driverVars
  BY DEF Begin, PinctrlInv
<1>4. call[c].at = "idle"
  BY DEF Begin, PinctrlInv, ConsumerOK, CallMatches
<1> HIDE DEF l
<1>5. ConsumerOK(call[c], l, state[c], Owned(c)')
  BY <1>1, <1>2, <1>4 DEF ConsumerOK, ClaimsMatch, CallMatches
<1>6. QED
  BY <1>3, <1>5, CoreStep DEF PinctrlInv, Owned

LEMMA FreePinInv ==
  ASSUME PinctrlInv, NEW c \in Consumers, FreePin(c)
  PROVE  PinctrlInv'
<1>1. PICK p \in Owned(c) : owner' = [owner EXCEPT ![p] = None]
  BY DEF FreePin
<1>2. sel' = [sel EXCEPT ![c] = sel[c]] /\ state' = [state EXCEPT ![c] = state[c]]
      /\ UNCHANGED driverVars
  BY DEF FreePin, PinctrlInv
<1>3. owner' \in [Pins -> Consumers \cup {None}]
  BY <1>1 DEF PinctrlInv, Owned
<1>4. \A d \in Consumers \ {c} : Owned(d)' = Owned(d)
  BY <1>1, ConsumersAreThreads DEF PinctrlInv, Owned
<1>5. ConsumerOK(call[c], sel[c], state[c], Owned(c)')
  BY DEF FreePin, PinctrlInv, ConsumerOK, ClaimsMatch
<1>6. QED
  BY <1>2, <1>3, <1>4, <1>5, CoreStep

LEMMA ReleasedInv ==
  ASSUME PinctrlInv, NEW c \in Consumers, Released(c)
  PROVE  PinctrlInv'
<1> DEFINE l == IF sel[c].new = None THEN NoSelection
                ELSE [sel[c] EXCEPT !.pc = "request"]
<1>1. sel[c] \in Selection /\ sel[c].pc = "release" /\ sel[c].s = 1
      /\ sel[c].i = 1 /\ Owned(c) = {} /\ call[c].at = "idle"
  BY DEF Released, PinctrlInv, ConsumerOK, ClaimsMatch, CallMatches
<1>2. sel' = [sel EXCEPT ![c] = l] /\ state' = [state EXCEPT ![c] = None]
      /\ owner' = owner /\ UNCHANGED driverVars
  BY DEF Released, PinctrlInv
<1>3. Owned(c)' = {}
  BY <1>1, <1>2 DEF Owned
<1>4. ConsumerOK(call[c], l, None, {})
  <2>1. CASE sel[c].new = None
    BY <1>1, <2>1 DEF ConsumerOK, ClaimsMatch, CallMatches, NoSelection, Selection
  <2>2. CASE sel[c].new # None
    <3>1. l \in Selection /\ l.pc = "request" /\ l.s = 1 /\ l.i = 1
          /\ l.new = sel[c].new
      BY <1>1, <2>2 DEF Selection
    <3>2. \A r \in DOMAIN MuxSettings[l.new] : r \in Nat \ {0}
          /\ \A x \in DOMAIN SettingPins(l.new, r) : x \in Nat \ {0}
      <4>1. l.new \in States
        BY <1>1, <2>2, <3>1 DEF Selection
      <4>2. QED
        BY <4>1, SettingTypes
    <3> HIDE DEF l
    <3>3. ClaimedSoFar(l) = {}
      BY <3>1, <3>2 DEF ClaimedSoFar
    <3>4. QED
      BY <1>1, <2>2, <3>1, <3>3 DEF ConsumerOK, ClaimsMatch, CallMatches
  <2>3. QED
    BY <2>1, <2>2
<1> HIDE DEF l
<1>5. QED
  BY <1>2, <1>3, <1>4, CoreStep DEF PinctrlInv, Owned

LEMMA RequestPinInv ==
  ASSUME PinctrlInv, NEW c \in Consumers, RequestPin(c)
  PROVE  PinctrlInv'
<1> DEFINE k == sel[c]
           p == NextPin(c)
           l == [k EXCEPT !.i = k.i + 1]
<1>1. /\ k \in Selection /\ k.pc = "request" /\ k.new \in States
      /\ call[c].at = "idle" /\ Owned(c) = ClaimedSoFar(k)
  BY DEF RequestPin, InSetting, PinctrlInv, ConsumerOK, ClaimsMatch, Selection
<1>2. /\ MuxSettings[k.new] \in Seq(MuxSetting)
      /\ k.s \in DOMAIN MuxSettings[k.new]
  BY <1>1, SettingTypes DEF RequestPin, InSetting, MuxOf, Selection
<1>3. /\ SettingPins(k.new, k.s) \in Seq(Pins)
      /\ k.i \in DOMAIN SettingPins(k.new, k.s)
      /\ p = SettingPins(k.new, k.s)[k.i] /\ p \in Pins
  BY <1>1, <1>2, SettingTypes DEF RequestPin, PinsLeft, NextPin, Selection
<1>4. l \in Selection /\ l.pc = k.pc /\ l.new = k.new /\ l.s = k.s
      /\ l.i = k.i + 1
  <2>1. k.i + 1 \in Nat \ {0}
    BY <1>1 DEF Selection
  <2>2. QED
    BY <1>1, <2>1 DEF Selection
<1>5. owner' = [owner EXCEPT ![p] = c] /\ owner[p] \in {None, c}
      /\ owner' \in [Pins -> Consumers \cup {None}]
  BY <1>3 DEF RequestPin, MayClaim, PinctrlInv
<1>6. \A d \in Consumers \ {c} : Owned(d)' = Owned(d)
  BY <1>5, ConsumersAreThreads DEF PinctrlInv, Owned
<1>7. sel' = [sel EXCEPT ![c] = l] /\ state' = [state EXCEPT ![c] = state[c]]
      /\ UNCHANGED driverVars
  BY DEF RequestPin, PinctrlInv
<1> HIDE DEF l, p
<1>8. Owned(c)' = ClaimedSoFar(l)
  <2>1. Owned(c)' = Owned(c) \cup {p}
    BY <1>3, <1>5 DEF Owned, PinctrlInv
  <2>2. \A r \in DOMAIN MuxSettings[k.new] : r \in Nat
          /\ \A x \in DOMAIN SettingPins(k.new, r) : x \in Nat
    BY <1>1, SettingTypes
  <2>3. ClaimedSoFar(l) = ClaimedSoFar(k) \cup {p}
    <3>1. \A r \in DOMAIN MuxSettings[k.new] :
            \A x \in DOMAIN SettingPins(k.new, r) :
              (r < l.s \/ (r = l.s /\ x < l.i))
                <=> \/ r < k.s \/ (r = k.s /\ x < k.i)
                    \/ r = k.s /\ x = k.i
      BY <1>1, <1>4, <2>2 DEF Selection
    <3>2. QED
      BY <1>2, <1>3, <1>4, <3>1 DEF ClaimedSoFar
  <2>4. QED
    BY <1>1, <2>1, <2>3
<1>9. ConsumerOK(call[c], l, state[c], Owned(c)')
  BY <1>1, <1>4, <1>8 DEF PinctrlInv, ConsumerOK, ClaimsMatch, CallMatches
<1>10. QED
  BY <1>5, <1>6, <1>7, <1>9, CoreStep

\* A selection that turns to its undo phase claims what it claimed.
LEMMA RequestBusyInv ==
  ASSUME PinctrlInv, NEW c \in Consumers, RequestBusy(c)
  PROVE  PinctrlInv'
<1> DEFINE l == [sel[c] EXCEPT !.pc = "undo"]
<1>1. l \in Selection /\ l.pc = "undo" /\ call[c].at = "idle" /\ state[c] = None
  BY DEF RequestBusy, InSetting, PinctrlInv, Selection, ConsumerOK, ClaimsMatch
<1>2. sel' = [sel EXCEPT ![c] = l] /\ state' = [state EXCEPT ![c] = state[c]]
      /\ owner' = owner /\ UNCHANGED driverVars
  BY DEF RequestBusy, PinctrlInv
<1> HIDE DEF l
<1>3. ConsumerOK(call[c], l, state[c], Owned(c)')
  BY <1>1 DEF PinctrlInv, ConsumerOK, ClaimsMatch, CallMatches
<1>4. QED
  BY <1>2, <1>3, CoreStep DEF PinctrlInv, Owned

LEMMA AllMuxedInv ==
  ASSUME PinctrlInv, NEW c \in Consumers, AllMuxed(c)
  PROVE  PinctrlInv'
<1> DEFINE k == sel[c]
           l == [k EXCEPT !.pc = "config", !.s = 1]
<1>1. /\ k \in Selection /\ k.pc = "request" /\ k.new \in States
      /\ Owned(c) = ClaimedSoFar(k)
  BY DEF AllMuxed, PinctrlInv, ConsumerOK, ClaimsMatch, Selection
<1>2. MuxSettings[k.new] \in Seq(MuxSetting) /\ k.s > Len(MuxSettings[k.new])
      /\ \A r \in DOMAIN MuxSettings[k.new] : r < k.s
                /\ SettingPins(k.new, r) \in Seq(Pins)
  BY <1>1, SettingTypes DEF AllMuxed, MuxOf, Selection
<1>3. call[c].at = "idle"
  BY <1>1, <1>2 DEF PinctrlInv, ConsumerOK, CallMatches, Selection
<1>4. Owned(c) = MuxPins(k.new)
  <2>1. \A p : p \in MuxPins(k.new) <=>
          \E r \in DOMAIN MuxSettings[k.new] :
            \E x \in DOMAIN SettingPins(k.new, r) : p = SettingPins(k.new, r)[x]
    BY DEF MuxPins, Range
  <2>2. \A p : p \in MuxPins(k.new) => p \in Pins
    BY <1>2, <2>1
  <2>3. QED
    BY <1>1, <1>2, <2>1, <2>2 DEF ClaimedSoFar
<1>5. l \in Selection /\ l.pc = "config" /\ l.new = k.new
  <2>1. 1 \in Nat \ {0}
    OBVIOUS
  <2>2. QED
    BY <1>1, <2>1 DEF Selection
<1>6. sel' = [sel EXCEPT ![c] = l] /\ state' = [state EXCEPT ![c] = state[c]]
      /\ owner' = owner /\ UNCHANGED driverVars
  BY DEF AllMuxed, PinctrlInv
<1> HIDE DEF l
<1>7. ConsumerOK(call[c], l, state[c], Owned(c)')
  <2>1. Owned(c)' = Owned(c)
    BY <1>6 DEF Owned
  <2>2. None \notin States
    BY ConsumerAssumption
  <2>3. QED
    BY <1>1, <1>3, <1>4, <1>5, <2>1, <2>2
       DEF PinctrlInv, ConsumerOK, ClaimsMatch, CallMatches
<1>8. QED
  BY <1>6, <1>7, CoreStep DEF PinctrlInv, Owned

LEMMA CommittedInv ==
  ASSUME PinctrlInv, NEW c \in Consumers, Committed(c)
  PROVE  PinctrlInv'
<1> DEFINE k == sel[c]
<1>1. /\ k \in Selection /\ k.pc = "config" /\ k.new \in States /\ k.new # None
      /\ Owned(c) = MuxPins(k.new)
  BY DEF Committed, PinctrlInv, ConsumerOK, ClaimsMatch, Selection
<1>2. call[c].at = "idle"
  <2>1. ConfigSettings[k.new] \in Seq(ConfigSetting)
        /\ k.s > Len(ConfigSettings[k.new])
    BY <1>1, SettingTypes DEF Committed, ConfigsOf
  <2>2. k.s \notin DOMAIN ConfigSettings[k.new]
    BY <1>1, <2>1 DEF Selection
  <2>3. QED
    BY <1>1, <2>2 DEF PinctrlInv, ConsumerOK, CallMatches
<1>3. NoSelection \in Selection /\ NoSelection.pc = "idle"
  BY DEF NoSelection, Selection
<1>4. sel' = [sel EXCEPT ![c] = NoSelection] /\ state' = [state EXCEPT ![c] = k.new]
      /\ owner' = owner /\ UNCHANGED driverVars
  BY DEF Committed
<1>5. ConsumerOK(call[c], NoSelection, k.new, Owned(c)')
  <2>1. Owned(c)' = Owned(c)
    BY <1>4 DEF Owned
  <2>2. QED
    BY <1>1, <1>2, <1>3, <2>1 DEF ConsumerOK, ClaimsMatch, CallMatches
<1>6. QED
  BY <1>4, <1>5, CoreStep DEF PinctrlInv, Owned

LEMMA UndoneInv ==
  ASSUME PinctrlInv, NEW c \in Consumers, Undone(c)
  PROVE  PinctrlInv'
<1> DEFINE k == sel[c]
           again == [k EXCEPT !.pc = "request", !.new = k.from,
                              !.s = 1, !.i = 1, !.back = TRUE]
<1>1. k \in Selection /\ k.pc = "undo" /\ Owned(c) = {} /\ call[c].at = "idle"
  BY DEF Undone, PinctrlInv, ConsumerOK, CallMatches
<1>2. state' = [state EXCEPT ![c] = state[c]] /\ owner' = owner
      /\ UNCHANGED driverVars /\ Owned(c)' = {}
  BY <1>1 DEF Undone, PinctrlInv, Owned
<1>3. CASE k.from = None \/ k.back
  <2>1. sel' = [sel EXCEPT ![c] = NoSelection]
    BY <1>3 DEF Undone
  <2>2. NoSelection \in Selection /\ NoSelection.pc = "idle"
    BY DEF NoSelection, Selection
  <2>3. state[c] = None
    BY <1>1, <1>3 DEF PinctrlInv, ConsumerOK, ClaimsMatch
  <2>4. ConsumerOK(call[c], NoSelection, state[c], Owned(c)')
    BY <1>1, <1>2, <2>2, <2>3 DEF PinctrlInv, ConsumerOK, ClaimsMatch, CallMatches
  <2>5. QED
    BY <1>2, <2>1, <2>4, CoreStep DEF PinctrlInv, Owned
<1>4. CASE ~(k.from = None \/ k.back)
  <2>1. sel' = [sel EXCEPT ![c] = again]
    BY <1>4 DEF Undone, Retry
  <2>2. again \in Selection /\ again.pc = "request" /\ again.new = k.from
        /\ again.s = 1 /\ again.i = 1
    <3>1. 1 \in Nat \ {0}
      OBVIOUS
    <3>2. QED
      BY <1>1, <3>1 DEF Selection
  <2> HIDE DEF again
  <2>3. again.new \in States
    BY <1>4, <2>2 DEF Selection
  <2>4. ClaimedSoFar(again) = {}
    BY <2>2, <2>3, SettingTypes DEF ClaimedSoFar
  <2>5. ConsumerOK(call[c], again, state[c], Owned(c)')
    BY <1>1, <1>2, <1>4, <2>2, <2>3, <2>4
       DEF PinctrlInv, ConsumerOK, ClaimsMatch, CallMatches
  <2>6. QED
    BY <1>2, <2>1, <2>5, CoreStep DEF PinctrlInv, Owned
<1>5. QED
  BY <1>3, <1>4

-----------------------------------------------------------------------------
\* The steps that call the driver, and those inside it.

LEMMA CallSetMuxInv ==
  ASSUME PinctrlInv, NEW c \in Consumers, CallSetMux(c)
  PROVE  PinctrlInv'
<1> DEFINE k == sel[c]
           m == MuxSettings[k.new][k.s]
<1>1. /\ k \in Selection /\ k.pc = "request" /\ k.new \in States
  BY DEF CallSetMux, InSetting, PinctrlInv, ConsumerOK, Selection
<1>2. /\ k.s \in DOMAIN MuxSettings[k.new]
      /\ k.i > Len(SettingPins(k.new, k.s))
      /\ m.fn \in Functions /\ m.group \in Groups
      /\ SettingPins(k.new, k.s) \in Seq(Pins)
  <2>1. MuxSettings[k.new] \in Seq(MuxSetting) /\ k.s <= Len(MuxSettings[k.new])
    BY <1>1, SettingTypes DEF CallSetMux, InSetting, MuxOf
  <2>2. k.s \in DOMAIN MuxSettings[k.new]
    BY <1>1, <2>1 DEF Selection
  <2>3. SettingPins(k.new, k.s) \in Seq(Pins) /\ m.fn \in Functions
        /\ m.group \in Groups
    BY <1>1, <2>2, SettingTypes
  <2>4. k.i > Len(SettingPins(k.new, k.s))
    BY <1>1, <2>3 DEF CallSetMux, PinsLeft, Selection
  <2>5. QED
    BY <2>2, <2>3, <2>4
<1>3. SetMux(c, m.fn, m.group) /\ c \in Threads
  BY ConsumersAreThreads DEF CallSetMux, MuxOf
<1>4. DriverInv'
  BY <1>2, <1>3, SetMuxInv DEF PinctrlInv
<1>5. /\ \A t \in Threads \ {c} : call'[t] = call[t]
      /\ call'[c].op = "set_mux"
      /\ call'[c].pins \in {SettingPins(k.new, k.s), <<>>}
  BY <1>3 DEF SetMux, SettingPins, NoCall, PinctrlInv, DriverInv, TypeOK
<1>6. sel' = [sel EXCEPT ![c] = k] /\ state' = [state EXCEPT ![c] = state[c]]
      /\ owner' = owner
  BY DEF CallSetMux, PinctrlInv
<1>7. ConsumerOK(call'[c], k, state[c], Owned(c)')
  <2>1. Owned(c)' = Owned(c)
    BY <1>6 DEF Owned
  <2>2. QED
    BY <1>1, <1>2, <1>5, <2>1 DEF PinctrlInv, ConsumerOK, CallMatches
<1>8. QED
  BY <1>4, <1>5, <1>6, <1>7, ConsumerMoves DEF PinctrlInv, Owned

LEMMA CallPinconfSetInv ==
  ASSUME PinctrlInv, NEW c \in Consumers, CallPinconfSet(c)
  PROVE  PinctrlInv'
<1> DEFINE k == sel[c]
           g == ConfigSettings[k.new][k.s]
<1>1. /\ k \in Selection /\ k.pc = "config" /\ k.new \in States
  BY DEF CallPinconfSet, PinctrlInv, ConsumerOK, Selection
<1>2. /\ k.s \in DOMAIN ConfigSettings[k.new]
      /\ g.pins \in Seq(Pins) /\ g.cfgs \in ConfigLists
  <2>1. ConfigSettings[k.new] \in Seq(ConfigSetting)
        /\ k.s <= Len(ConfigSettings[k.new])
    BY <1>1, SettingTypes DEF CallPinconfSet, ConfigsOf
  <2>2. k.s \in DOMAIN ConfigSettings[k.new]
    BY <1>1, <2>1 DEF Selection
  <2>3. QED
    BY <1>1, <2>2, SettingTypes
<1>3. PinconfSet(c, g.pins, g.cfgs) /\ c \in Threads
  BY ConsumersAreThreads DEF CallPinconfSet, ConfigsOf
<1>4. DriverInv'
  BY <1>2, <1>3, PinconfSetInv DEF PinctrlInv
<1>5. /\ \A t \in Threads \ {c} : call'[t] = call[t]
      /\ call'[c].op = "pinconf_set" /\ call'[c].pins = g.pins
  BY <1>3 DEF PinconfSet, NoCall, PinctrlInv, DriverInv, TypeOK
<1>6. sel' = [sel EXCEPT ![c] = k] /\ state' = [state EXCEPT ![c] = state[c]]
      /\ owner' = owner
  BY DEF CallPinconfSet, PinctrlInv
<1>7. ConsumerOK(call'[c], k, state[c], Owned(c)')
  <2>1. Owned(c)' = Owned(c)
    BY <1>6 DEF Owned
  <2>2. QED
    BY <1>1, <1>2, <1>5, <2>1 DEF PinctrlInv, ConsumerOK, CallMatches
<1>8. QED
  BY <1>4, <1>5, <1>6, <1>7, ConsumerMoves DEF PinctrlInv, Owned

LEMMA SettingReturnedInv ==
  ASSUME PinctrlInv, NEW c \in Consumers, SettingReturned(c)
  PROVE  PinctrlInv'
<1> DEFINE k == sel[c]
           l == IF call[c].ret = "ok" THEN [k EXCEPT !.s = k.s + 1, !.i = 1]
                                      ELSE [k EXCEPT !.pc = "undo"]
<1>1. /\ k \in Selection /\ k.pc \in {"request", "config"} /\ k.new \in States
      /\ k.new # None /\ call[c].at = "ret" /\ c \in Threads /\ state[c] = None
      /\ ClaimsMatch(k, None, Owned(c)) /\ CallMatches(call[c], k)
  BY ConsumersAreThreads
     DEF SettingReturned, Return, PinctrlInv, ConsumerOK, ClaimsMatch, Selection
<1>2. DriverInv'
  BY <1>1, ReturnInv DEF SettingReturned, PinctrlInv
<1>3. call'[c].at = "idle" /\ \A t \in Threads \ {c} : call'[t] = call[t]
  BY <1>1 DEF SettingReturned, Return, NoCall, PinctrlInv, DriverInv, TypeOK
<1>4. sel' = [sel EXCEPT ![c] = l] /\ state' = [state EXCEPT ![c] = state[c]]
      /\ owner' = owner
  <2>1. sel[c] \in Selection /\ sel \in [Consumers -> Selection]
    BY DEF PinctrlInv
  <2>2. ASSUME call[c].ret = "ok"
        PROVE  sel' = [sel EXCEPT ![c] = l]
    <3>1. sel' = [sel EXCEPT ![c].s = @ + 1, ![c].i = 1]
      BY <2>2 DEF SettingReturned
    <3>2. QED
      BY <2>1, <2>2, <3>1 DEF Selection
  <2>3. ASSUME call[c].ret # "ok"
        PROVE  sel' = [sel EXCEPT ![c] = l]
    <3>1. sel' = [sel EXCEPT ![c].pc = "undo"]
      BY <2>3 DEF SettingReturned
    <3>2. QED
      BY <2>1, <2>3, <3>1 DEF Selection
  <2>4. state' = state /\ owner' = owner
    BY DEF SettingReturned
  <2>5. QED
    BY <2>2, <2>3, <2>4 DEF PinctrlInv
<1>5. Owned(c)' = Owned(c)
  BY <1>4 DEF Owned
<1>6. ConsumerOK(call'[c], l, state[c], Owned(c)')
  <2>1. CASE call[c].ret # "ok"
    <3>1. l \in Selection /\ l.pc = "undo"
      BY <1>1, <2>1 DEF Selection
    <3> HIDE DEF l
    <3>2. QED
      BY <1>1, <1>3, <3>1 DEF ConsumerOK, ClaimsMatch, CallMatches
  <2>2. CASE call[c].ret = "ok"
    <3>1. l \in Selection /\ l.pc = k.pc /\ l.new = k.new /\ l.s = k.s + 1
          /\ l.i = 1
      <4>1. k.s + 1 \in Nat \ {0} /\ 1 \in Nat \ {0}
        BY <1>1 DEF Selection
      <4>2. QED
        BY <1>1, <2>2, <4>1 DEF Selection
    <3> HIDE DEF l
    <3>2. CASE k.pc = "config"
      BY <1>1, <1>3, <1>5, <3>1, <3>2 DEF ConsumerOK, ClaimsMatch, CallMatches
    <3>3. CASE k.pc = "request"
      <4>1. k.s \in DOMAIN MuxSettings[k.new]
            /\ k.i > Len(SettingPins(k.new, k.s))
        BY <1>1, <3>3 DEF CallMatches
      <4>2. \A r \in DOMAIN MuxSettings[k.new] :
              r \in Nat /\ SettingPins(k.new, r) \in Seq(Pins)
        BY <1>1, SettingTypes
      <4>3. \A r \in DOMAIN MuxSettings[k.new] :
              \A x \in DOMAIN SettingPins(k.new, r) :
                (r < l.s \/ (r = l.s /\ x < l.i))
                  <=> (r < k.s \/ (r = k.s /\ x < k.i))
        BY <1>1, <3>1, <4>1, <4>2 DEF Selection
      <4>4. ClaimedSoFar(l) = ClaimedSoFar(k)
        BY <3>1, <4>3 DEF ClaimedSoFar
      <4>5. QED
        BY <1>1, <1>3, <1>5, <3>1, <3>3, <4>4
           DEF ConsumerOK, ClaimsMatch, CallMatches
    <3>4. QED
      BY <1>1, <3>2, <3>3
  <2>3. QED
    BY <2>1, <2>2
<1> HIDE DEF l
<1>7. QED
  BY <1>2, <1>3, <1>4, <1>6, ConsumerMoves DEF PinctrlInv, Owned

\* A step inside the driver moves a call that is open and keeps its tables.
LEMMA DriverStepFrame ==
  ASSUME DriverInv, NEW t \in Threads, DriverStep(t)
  PROVE  /\ call[t].at # "idle" /\ call'[t].at # "idle"
         /\ call'[t].op = call[t].op /\ call'[t].pins = call[t].pins
         /\ call'[t].vals = call[t].vals /\ call'[t].cfgs = call[t].cfgs
         /\ \A u \in Threads \ {t} : call'[u] = call[u]
BY DEF DriverInv, TypeOK, Call, DriverStep, MuxReject, MuxRead, MuxWrite,
       ConfigReject, ConfigRead, ConfigWrite, CallDone, ReturnWith, ReadReg,
       InLoop, AtWrite

LEMMA InDriverInv ==
  ASSUME PinctrlInv, NEW t \in Threads, InDriver(t)
  PROVE  PinctrlInv'
<1>1. DriverInv /\ DriverStep(t) /\ UNCHANGED <<owner, state, sel>>
  BY DEF PinctrlInv, InDriver
<1>2. DriverInv'
  BY <1>1, DriverStepInv
<1>3. ASSUME NEW c \in Consumers
      PROVE  ConsumerOK(call'[c], sel'[c], state'[c], Owned(c)')
  <2>1. ConsumerOK(call[c], sel[c], state[c], Owned(c)) /\ c \in Threads
    BY ConsumersAreThreads DEF PinctrlInv
  <2>2. Owned(c)' = Owned(c) /\ sel'[c] = sel[c] /\ state'[c] = state[c]
    BY <1>1 DEF Owned
  <2>3. call'[c] = call[c] \/ /\ call[c].at # "idle"
                              /\ call'[c].op = call[c].op
                              /\ call'[c].pins = call[c].pins
    BY <1>1, <2>1, DriverStepFrame
  <2>4. QED
    BY <2>1, <2>2, <2>3 DEF ConsumerOK, CallMatches
<1>4. QED
  BY <1>1, <1>2, <1>3 DEF PinctrlInv

\* What shells do concerns no consumer's call.
LEMMA ShellInv ==
  ASSUME PinctrlInv, NEW t \in Shells, PinmuxSelect(t) \/ ShellReturned(t)
  PROVE  PinctrlInv'
<1>1. t \in Threads /\ t \notin Consumers /\ UNCHANGED <<owner, state, sel>>
  BY ConsumerAssumption DEF PinmuxSelect, ShellReturned
<1>2. CASE PinmuxSelect(t)
  <2>1. PICK f \in Functions : \E g \in DOMAIN MuxVals[f] : SetMux(t, f, g)
    BY <1>2 DEF PinmuxSelect
  <2>2. PICK g \in Groups : SetMux(t, f, g)
    BY <2>1, TableAssumption
  <2>3. DriverInv'
    BY <1>1, <2>2, SetMuxInv DEF PinctrlInv
  <2>4. \A c \in Consumers : call'[c] = call[c]
    BY <1>1, <2>2, ConsumersAreThreads DEF SetMux, PinctrlInv, DriverInv, TypeOK
  <2>5. QED
    BY <1>1, <2>3, <2>4 DEF PinctrlInv, Owned
<1>3. CASE ShellReturned(t)
  <2>1. DriverInv'
    BY <1>1, <1>3, ReturnInv DEF ShellReturned, PinctrlInv
  <2>2. \A c \in Consumers : call'[c] = call[c]
    BY <1>1, <1>3, ConsumersAreThreads
       DEF ShellReturned, Return, PinctrlInv, DriverInv, TypeOK
  <2>3. QED
    BY <1>1, <2>1, <2>2 DEF PinctrlInv, Owned
<1>4. QED
  BY <1>2, <1>3

LEMMA SelectStepInv ==
  ASSUME PinctrlInv, NEW c \in Consumers, SelectStep(c)
  PROVE  PinctrlInv'
BY FreePinInv, ReleasedInv, RequestPinInv, RequestBusyInv, CallSetMuxInv,
   SettingReturnedInv, AllMuxedInv, CallPinconfSetInv, CommittedInv, UndoneInv
   DEF SelectStep

LEMMA PinctrlInitInv == Init => PinctrlInv
<1> SUFFICES ASSUME Init PROVE PinctrlInv
  OBVIOUS
<1>1. DriverInv
  BY DriverInitInv DEF Init
<1>2. NoSelection \in Selection /\ NoSelection.pc = "idle"
  BY DEF NoSelection, Selection
<1>3. ASSUME NEW c \in Consumers
      PROVE  ConsumerOK(call[c], sel[c], state[c], Owned(c))
  <2>1. call[c].at = "idle" /\ sel[c] = NoSelection /\ state[c] = None
        /\ Owned(c) = {}
    BY ConsumersAreThreads DEF Init, DriverInit, NoCall, Owned
  <2>2. QED
    BY <1>2, <2>1 DEF ConsumerOK, ClaimsMatch, CallMatches
<1>4. QED
  BY <1>1, <1>2, <1>3 DEF Init, PinctrlInv

LEMMA PinctrlNextInv == PinctrlInv /\ [PinctrlNext]_pinctrlVars => PinctrlInv'
<1> SUFFICES ASSUME PinctrlInv, [PinctrlNext]_pinctrlVars PROVE PinctrlInv'
  OBVIOUS
<1>1. CASE UNCHANGED pinctrlVars
  <2>1. DriverInv'
    BY <1>1 DEF pinctrlVars, PinctrlInv, DriverInv, TypeOK, WriteChecked,
                Pin, MuxVal, Cfg
  <2>2. QED
    BY <1>1, <2>1 DEF pinctrlVars, PinctrlInv, Owned
<1>2. ASSUME NEW c \in Consumers, NEW n \in StatesOf[c] \cup {None}, Begin(c, n)
      PROVE  PinctrlInv'
  BY <1>2, BeginInv
<1>3. ASSUME NEW c \in Consumers, SelectStep(c) PROVE PinctrlInv'
  BY <1>3, SelectStepInv
<1>4. ASSUME NEW t \in Shells, PinmuxSelect(t) \/ ShellReturned(t)
      PROVE  PinctrlInv'
  BY <1>4, ShellInv
<1>5. ASSUME NEW t \in Threads, InDriver(t) PROVE PinctrlInv'
  BY <1>5, InDriverInv
<1>6. QED
  BY <1>1, <1>2, <1>3, <1>4, <1>5 DEF PinctrlNext

-----------------------------------------------------------------------------
LEMMA PinctrlInvariant == PinctrlSpec => []PinctrlInv
BY PinctrlInitInv, PinctrlNextInv, PTL DEF PinctrlSpec

\* Type correctness of the composition: the core's bookkeeping is well typed
\* and a consumer is inside the driver only where its selection calls it.
THEOREM PinctrlTypeCorrect == PinctrlSpec => []PinctrlTypeOK
<1>1. PinctrlInv => PinctrlTypeOK
  BY DEF PinctrlInv, DriverInv, PinctrlTypeOK, ConsumerOK, CallMatches
<1>2. QED
  BY <1>1, PinctrlInvariant, PTL

\* No claim leaks and none is lost, whichever way selections end: between
\* selections a consumer claims exactly the pins of its remembered state.
THEOREM ClaimsExact == PinctrlSpec => []SettledOwns
<1>1. PinctrlInv => SettledOwns
  BY DEF PinctrlInv, SettledOwns, ConsumerOK, ClaimsMatch
<1>2. QED
  BY <1>1, PinctrlInvariant, PTL

\* The pins of an open set_mux call of a consumer are claimed by it.
LEMMA SetMuxClaimed ==
  ASSUME PinctrlInv, NEW c \in Consumers, call[c].at # "idle",
         call[c].op = "set_mux"
  PROVE  Range(call[c].pins) \subseteq Owned(c)
<1> DEFINE k == sel[c]
<1>1. /\ k \in Selection /\ k.new \in States
      /\ k.s \in DOMAIN MuxSettings[k.new]
      /\ k.i > Len(SettingPins(k.new, k.s))
      /\ call[c].pins \in {SettingPins(k.new, k.s), <<>>}
      /\ Owned(c) = ClaimedSoFar(k)
  BY DEF PinctrlInv, ConsumerOK, CallMatches, ClaimsMatch, Selection
<1>2. SettingPins(k.new, k.s) \in Seq(Pins)
  BY <1>1, SettingTypes
<1>3. CASE call[c].pins = <<>>
  BY <1>3 DEF Range
<1>4. CASE call[c].pins = SettingPins(k.new, k.s)
  <2>1. \A x \in DOMAIN SettingPins(k.new, k.s) :
          x < k.i /\ SettingPins(k.new, k.s)[x] \in ClaimedSoFar(k)
    BY <1>1, <1>2 DEF ClaimedSoFar, Selection
  <2>2. QED
    BY <1>1, <1>4, <2>1 DEF Range
<1>5. QED
  BY <1>1, <1>3, <1>4

\* What aximux_set_mux relies on: a consumer's call only works on pins that
\* the core has claimed for this consumer.
THEOREM SetMuxOnOwned == PinctrlSpec => []MuxOnOwned
<1>1. PinctrlInv => MuxOnOwned
  BY SetMuxClaimed DEF MuxOnOwned
<1>2. QED
  BY <1>1, PinctrlInvariant, PTL

-----------------------------------------------------------------------------
\* A step of the composition is a step of the driver on its own, called by
\* threads that may do anything, or it leaves the driver alone.
LEMMA StepSimulation ==
  ASSUME PinctrlInv, [PinctrlNext]_pinctrlVars
  PROVE  [Next]_driverVars
<1>1. CASE UNCHANGED pinctrlVars
  BY <1>1 DEF pinctrlVars, driverVars
<1>2. ASSUME NEW c \in Consumers, NEW n \in StatesOf[c] \cup {None}, Begin(c, n)
      PROVE  [Next]_driverVars
  BY <1>2 DEF Begin
<1>3. ASSUME NEW c \in Consumers, SelectStep(c)
      PROVE  [Next]_driverVars
  <2>1. c \in Threads /\ sel[c] \in Selection
    BY ConsumersAreThreads DEF PinctrlInv
  <2>2. CASE CallSetMux(c)
    <3>1. sel[c].new \in States /\ sel[c].s \in DOMAIN MuxOf(c)
      <4>1. sel[c].new \in States
        BY <2>1, <2>2 DEF CallSetMux, InSetting, PinctrlInv, ConsumerOK, Selection
      <4>2. QED
        BY <2>1, <2>2, <4>1, SettingTypes
           DEF CallSetMux, InSetting, MuxOf, Selection
    <3>2. \E f \in Functions, g \in Groups : SetMux(c, f, g)
      BY <2>2, <3>1, SettingTypes DEF CallSetMux, MuxOf
    <3>3. QED
      BY <2>1, <3>2 DEF Next, Enter
  <2>3. CASE CallPinconfSet(c)
    <3> DEFINE g == ConfigsOf(c)[sel[c].s]
    <3>1. g \in ConfigSetting
      <4>1. sel[c].new \in States
        BY <2>1, <2>3 DEF CallPinconfSet, PinctrlInv, ConsumerOK, Selection
      <4>2. QED
        BY <2>1, <2>3, <4>1, SettingTypes DEF CallPinconfSet, ConfigsOf, Selection
    <3>2. PinconfSet(c, g.pins, g.cfgs)
      BY <2>3 DEF CallPinconfSet
    <3>3. Enter(c)
      BY <3>1, <3>2 DEF Enter, ConfigSetting
    <3>4. QED
      BY <2>1, <3>3 DEF Next
  <2>4. CASE SettingReturned(c)
    BY <2>1, <2>4 DEF SettingReturned, Next
  <2>5. CASE FreePin(c) \/ Released(c) \/ RequestPin(c) \/ RequestBusy(c)
             \/ AllMuxed(c) \/ Committed(c) \/ Undone(c)
    BY <2>5 DEF FreePin, Released, RequestPin, RequestBusy, AllMuxed,
                Committed, Undone
  <2>6. QED
    BY <1>3, <2>2, <2>3, <2>4, <2>5 DEF SelectStep
<1>4. ASSUME NEW t \in Shells, PinmuxSelect(t) \/ ShellReturned(t)
      PROVE  [Next]_driverVars
  <2>1. t \in Threads
    BY ConsumerAssumption
  <2>2. PinmuxSelect(t) => \E f \in Functions, g \in Groups : SetMux(t, f, g)
    BY TableAssumption DEF PinmuxSelect
  <2>3. QED
    BY <1>4, <2>1, <2>2 DEF ShellReturned, Next, Enter
<1>5. ASSUME NEW t \in Threads, InDriver(t)
      PROVE  [Next]_driverVars
  BY <1>5 DEF InDriver, Next
<1>6. QED
  BY <1>1, <1>2, <1>3, <1>4, <1>5 DEF PinctrlNext

\* The driver under the core is the driver of AximuxDriver: whatever is proved
\* of that one, for callers that may do anything, holds here.
THEOREM DriverUnderCore == PinctrlSpec => Spec
<1>1. Init => DriverInit
  BY DEF Init
<1>2. QED
  BY <1>1, PinctrlInvariant, StepSimulation, PTL DEF PinctrlSpec, Spec

\* Hence consumers and shells together route a signal only to its reset source
\* or to a source declared for it (aximux_set_mux).
THEOREM SourcesLegalUnderCore == PinctrlSpec => []SrcLegal
BY DriverUnderCore, SourcesLegal, PTL

-----------------------------------------------------------------------------
(***************************************************************************)
(* What an open call of a consumer has done and why it failed.             *)
(***************************************************************************)
SettingVals(n, s) == MuxVals[MuxSettings[n][s].fn][MuxSettings[n][s].group]

\* The driver takes setting s of state n: set_mux and pinconf_set return 0.
MuxListed(n, s) == Listed(MuxSettings[n][s].fn, MuxSettings[n][s].group)
MuxAccepted(n, s) ==
  /\ MuxListed(n, s)
  /\ \A x \in DOMAIN SettingPins(n, s) : SettingVals(n, s)[x] <= NAlts
ConfigAccepted(n, s) ==
  ConfigSettings[n][s].pins # <<>> =>
    \A y \in DOMAIN ConfigSettings[n][s].cfgs :
      ConfigSettings[n][s].cfgs[y].param # "GENERIC"

\* The open call k of selection l works on the tables of its setting, has
\* passed every value before its indices, succeeds only at the end of its loop
\* and fails only on a setting that the driver does not take.
MuxFollows(k, n, s) ==
  /\ IF MuxListed(n, s)
     THEN /\ k.pins = SettingPins(n, s) /\ k.vals = SettingVals(n, s)
          /\ \A x \in DOMAIN k.pins : x < k.i => k.vals[x] <= NAlts
     ELSE k.pins = <<>> /\ k.at = "ret" /\ k.ret = "EINVAL"
  /\ k.at = "ret" /\ k.ret # "ok" => ~MuxAccepted(n, s)

ConfigFollows(k, n, s) ==
  /\ k.cfgs = ConfigSettings[n][s].cfgs
  /\ \A y \in DOMAIN k.cfgs : 1 < k.i \/ y < k.j => k.cfgs[y].param # "GENERIC"
  /\ k.at = "ret" /\ k.ret # "ok" => ~ConfigAccepted(n, s)

CallFollows(k, l) ==
  k.at # "idle" =>
    /\ l.pc = "request" => MuxFollows(k, l.new, l.s)
    /\ l.pc = "config" => ConfigFollows(k, l.new, l.s)
    /\ k.at = "ret" /\ k.ret = "ok" => k.i > Len(k.pins)

Follows == \A c \in Consumers : CallFollows(call[c], sel[c])

\* A consumer that does not move keeps its call, its place and its claims,
\* whoever else moves.
LEMMA OthersLeave ==
  ASSUME PinctrlInv, [PinctrlNext]_pinctrlVars, NEW c \in Consumers,
         ~ \E n \in StatesOf[c] \cup {None} : Begin(c, n),
         ~SelectStep(c), ~InDriver(c)
  PROVE  /\ call'[c] = call[c] /\ sel'[c] = sel[c] /\ state'[c] = state[c]
         /\ Owned(c)' = Owned(c)
<1> c \in Threads
  BY ConsumersAreThreads
<1>1. CASE UNCHANGED pinctrlVars
  BY <1>1 DEF pinctrlVars, Owned
<1>2. ASSUME NEW d \in Consumers, NEW n \in StatesOf[d] \cup {None}, Begin(d, n)
      PROVE  /\ call'[c] = call[c] /\ sel'[c] = sel[c] /\ state'[c] = state[c]
             /\ Owned(c)' = Owned(c)
  <2>1. d # c
    BY <1>2
  <2>2. QED
    BY <1>2, <2>1 DEF Begin, driverVars, PinctrlInv, Owned
<1>3. ASSUME NEW d \in Consumers, SelectStep(d)
      PROVE  /\ call'[c] = call[c] /\ sel'[c] = sel[c] /\ state'[c] = state[c]
             /\ Owned(c)' = Owned(c)
  <2>1. d # c /\ d \in Threads
    BY <1>3, ConsumersAreThreads
  <2>2. sel'[c] = sel[c] /\ state'[c] = state[c]
    BY <1>3, <2>1 DEF SelectStep, FreePin, Released, RequestPin, RequestBusy,
       CallSetMux, SettingReturned, AllMuxed, CallPinconfSet, Committed, Undone,
       PinctrlInv
  <2>3. call'[c] = call[c]
    BY <1>3, <2>1 DEF SelectStep, FreePin, Released, RequestPin, RequestBusy,
       CallSetMux, SettingReturned, AllMuxed, CallPinconfSet, Committed, Undone,
       SetMux, PinconfSet, Return, driverVars, PinctrlInv, DriverInv, TypeOK
  <2>4. Owned(c)' = Owned(c)
    <3>1. CASE FreePin(d)
      BY <2>1, <3>1, ConsumersAreThreads DEF FreePin, PinctrlInv, Owned
    <3>2. CASE RequestPin(d)
      BY <2>1, <3>2, ConsumersAreThreads DEF RequestPin, MayClaim, PinctrlInv, Owned
    <3>3. CASE owner' = owner
      BY <3>3 DEF Owned
    <3>4. QED
      BY <1>3, <3>1, <3>2, <3>3 DEF SelectStep, Released, RequestBusy, CallSetMux,
         SettingReturned, AllMuxed, CallPinconfSet, Committed, Undone
  <2>5. QED
    BY <2>2, <2>3, <2>4
<1>4. ASSUME NEW t \in Shells, PinmuxSelect(t) \/ ShellReturned(t)
      PROVE  /\ call'[c] = call[c] /\ sel'[c] = sel[c] /\ state'[c] = state[c]
             /\ Owned(c)' = Owned(c)
  <2>1. t # c
    BY ConsumerAssumption
  <2>2. call'[c] = call[c]
    BY <1>4, <2>1 DEF PinmuxSelect, ShellReturned, SetMux, Return,
       PinctrlInv, DriverInv, TypeOK
  <2>3. QED
    BY <1>4, <2>2 DEF PinmuxSelect, ShellReturned, Owned
<1>5. ASSUME NEW t \in Threads, InDriver(t)
      PROVE  /\ call'[c] = call[c] /\ sel'[c] = sel[c] /\ state'[c] = state[c]
             /\ Owned(c)' = Owned(c)
  <2>1. t # c
    BY <1>5
  <2>2. QED
    BY <1>5, <2>1, DriverStepFrame DEF InDriver, PinctrlInv, Owned
<1>6. QED
  BY <1>1, <1>2, <1>3, <1>4, <1>5 DEF PinctrlNext

\* A step of a selection that does not call the driver leaves it with no
\* call open.
LEMMA CoreStepIdle ==
  ASSUME PinctrlInv, NEW c \in Consumers, SelectStep(c),
         ~CallSetMux(c), ~CallPinconfSet(c)
  PROVE  call'[c].at = "idle"
<1> c \in Threads
  BY ConsumersAreThreads
<1>1. sel[c] \in Selection /\ CallMatches(call[c], sel[c])
      /\ (sel[c].pc \in {"request", "config"} => sel[c].new \in States)
  BY DEF PinctrlInv, ConsumerOK, Selection
<1>2. CASE SettingReturned(c)
  BY <1>2 DEF SettingReturned, Return, NoCall, PinctrlInv, DriverInv, TypeOK
<1>3. CASE RequestPin(c) \/ RequestBusy(c)
  BY <1>3 DEF RequestPin, RequestBusy, InSetting, driverVars
<1>4. CASE FreePin(c) \/ Released(c) \/ Undone(c)
  BY <1>1, <1>4 DEF FreePin, Released, Undone, CallMatches, driverVars
<1>5. CASE AllMuxed(c)
  BY <1>1, <1>5, SettingTypes DEF AllMuxed, MuxOf, CallMatches, driverVars, Selection
<1>6. CASE Committed(c)
  BY <1>1, <1>6, SettingTypes DEF Committed, ConfigsOf, CallMatches, driverVars, Selection
<1>7. QED
  BY <1>2, <1>3, <1>4, <1>5, <1>6 DEF SelectStep

\* Entering a callback: nothing is done yet.
LEMMA EnterFollows ==
  ASSUME PinctrlInv, NEW c \in Consumers, CallSetMux(c) \/ CallPinconfSet(c)
  PROVE  CallFollows(call'[c], sel[c])
<1> c \in Threads
  BY ConsumersAreThreads
<1>1. sel[c].new \in States \cup {None} /\ call \in [Threads -> Call]
  BY DEF PinctrlInv, DriverInv, TypeOK, Selection
<1>2. CASE CallSetMux(c)
  <2> DEFINE n == sel[c].new
             s == sel[c].s
             new == IF MuxListed(n, s)
                    THEN [NoCall EXCEPT !.at = "loop", !.pins = SettingPins(n, s),
                                        !.vals = SettingVals(n, s)]
                    ELSE [NoCall EXCEPT !.at = "ret", !.ret = "EINVAL"]
  <2>1. call'[c] = new /\ sel[c].pc = "request"
    BY <1>1, <1>2 DEF CallSetMux, InSetting, SetMux, MuxOf, MuxListed, SettingPins,
       SettingVals
  <2>2. CASE MuxListed(n, s)
    <3>1. /\ new.at = "loop" /\ new.i = 1 /\ new.pins = SettingPins(n, s)
          /\ new.vals = SettingVals(n, s)
      BY <2>2 DEF NoCall
    <3>2. SettingPins(n, s) \in Seq(Pins)
      <4>1. n \in States /\ s \in Nat \ {0} /\ s <= Len(MuxSettings[n])
        BY <1>2 DEF CallSetMux, InSetting, MuxOf, PinctrlInv, ConsumerOK, Selection
      <4>2. s \in DOMAIN MuxSettings[n]
        BY <4>1, SettingTypes
      <4>3. QED
        BY <4>1, <4>2, SettingTypes
    <3> HIDE DEF new
    <3>3. QED
      BY <2>1, <2>2, <3>1, <3>2 DEF CallFollows, MuxFollows
  <2>3. CASE ~MuxListed(n, s)
    <3>1. new.at = "ret" /\ new.ret = "EINVAL" /\ new.pins = <<>>
      BY <2>3 DEF NoCall
    <3> HIDE DEF new
    <3>2. QED
      BY <2>1, <2>3, <3>1 DEF CallFollows, MuxFollows, MuxAccepted
  <2>4. QED
    BY <2>2, <2>3
<1>3. CASE CallPinconfSet(c)
  <2> DEFINE g == ConfigSettings[sel[c].new][sel[c].s]
             new == [NoCall EXCEPT !.op = "pinconf_set", !.at = "loop",
                                   !.pins = g.pins, !.cfgs = g.cfgs]
  <2>1. call'[c] = new /\ sel[c].pc = "config"
    BY <1>1, <1>3 DEF CallPinconfSet, ConfigsOf, PinconfSet
  <2>2. new.at = "loop" /\ new.i = 1 /\ new.j = 1 /\ new.cfgs = g.cfgs
    BY DEF NoCall
  <2>3. g.cfgs \in Seq(Config)
    <3>1. sel[c].new \in States /\ sel[c].s \in DOMAIN ConfigSettings[sel[c].new]
      BY <1>3, SettingTypes DEF CallPinconfSet, ConfigsOf, PinctrlInv, ConsumerOK,
         Selection
    <3>2. QED
      BY <3>1, SettingTypes, TableAssumption
  <2> HIDE DEF new
  <2>4. ASSUME NEW y \in DOMAIN new.cfgs, 1 < new.i \/ y < new.j PROVE FALSE
    <3>1. y \in Nat \ {0}
      BY <2>2, <2>3
    <3>2. QED
      BY <2>2, <2>4, <3>1
  <2>5. ConfigFollows(new, sel[c].new, sel[c].s)
    BY <2>2, <2>4 DEF ConfigFollows
  <2>6. QED
    BY <2>1, <2>2, <2>5 DEF CallFollows
<1>4. QED
  BY <1>2, <1>3

\* A step inside: the indices move past what was checked, and a rejection has
\* its reason in the setting.
LEMMA DriverStepFollows ==
  ASSUME PinctrlInv, NEW c \in Consumers, CallFollows(call[c], sel[c]),
         DriverStep(c)
  PROVE  CallFollows(call'[c], sel[c])
<1> DEFINE k == call[c]
           l == sel[c]
<1>1. /\ c \in Threads /\ k \in Call /\ k.at \in {"loop", "write"}
      /\ k.op = "set_mux" => Len(k.vals) = Len(k.pins)
      /\ k.op = "pinconf_set" => k.j <= Len(k.cfgs)
      /\ k.at = "write" => k.i <= Len(k.pins)
      /\ call'[c].pins = k.pins /\ call'[c].vals = k.vals /\ call'[c].cfgs = k.cfgs
  BY ConsumersAreThreads, DriverStepFrame
     DEF PinctrlInv, DriverInv, TypeOK, Call, DriverStep, MuxReject, MuxRead,
         MuxWrite, ConfigReject, ConfigRead, ConfigWrite, CallDone, InLoop, AtWrite
<1>2. \/ l.pc = "request" /\ k.op = "set_mux"
      \/ l.pc = "config" /\ k.op = "pinconf_set"
            /\ k.pins = ConfigSettings[l.new][l.s].pins
  BY <1>1 DEF PinctrlInv, ConsumerOK, CallMatches
<1>3. CASE MuxRead(c) \/ ConfigRead(c)
  <2>1. /\ call'[c].at = "write" /\ k.at = "loop"
        /\ call'[c].i = k.i /\ call'[c].j = k.j
    BY <1>1, <1>3 DEF MuxRead, ConfigRead, InLoop, ReadReg, PinctrlInv, DriverInv,
       TypeOK, Call
  <2>2. QED
    BY <1>1, <2>1 DEF CallFollows, MuxFollows, ConfigFollows
<1>4. CASE CallDone(c)
  <2>1. /\ call'[c].at = "ret" /\ call'[c].ret = "ok" /\ k.at = "loop"
        /\ call'[c].i = k.i /\ call'[c].j = k.j /\ k.i > Len(k.pins)
    BY <1>1, <1>4 DEF CallDone, ReturnWith, PinctrlInv, DriverInv, TypeOK, Call
  <2>2. QED
    BY <1>1, <2>1 DEF CallFollows, MuxFollows, ConfigFollows
<1>5. CASE MuxReject(c)
  <2>1. /\ call'[c].at = "ret" /\ call'[c].ret = "EINVAL" /\ k.at = "loop"
        /\ call'[c].i = k.i /\ k.op = "set_mux" /\ k.i \in DOMAIN k.pins
        /\ ~MuxLegal(Pin(c), MuxVal(c))
    BY <1>1, <1>5 DEF MuxReject, InLoop, ReturnWith, PinctrlInv, DriverInv, TypeOK,
       Call
  <2>2. MuxFollows(k, l.new, l.s) /\ MuxListed(l.new, l.s)
    BY <1>1, <1>2, <2>1 DEF CallFollows, MuxFollows
  <2>3. ~(MuxVal(c) <= NAlts)
    <3>1. Pin(c) \in Pins
      BY <1>1, <2>1 DEF Pin, Call
    <3>2. QED
      BY <2>1, <3>1, PinsBelow DEF MuxLegal
  <2>4. ~MuxAccepted(l.new, l.s)
    BY <2>1, <2>2, <2>3 DEF MuxAccepted, MuxFollows, MuxVal
  <2>5. QED
    BY <1>1, <1>2, <2>1, <2>2, <2>4 DEF CallFollows, MuxFollows
<1>6. CASE ConfigReject(c)
  <2>1. /\ call'[c].at = "ret" /\ call'[c].ret = "ENOTSUPP" /\ k.at = "loop"
        /\ call'[c].i = k.i /\ call'[c].j = k.j /\ k.op = "pinconf_set"
        /\ k.i \in DOMAIN k.pins /\ Cfg(c).param = "GENERIC"
    BY <1>1, <1>6 DEF ConfigReject, InLoop, ReturnWith, PinctrlInv, DriverInv,
       TypeOK, Call
  <2>2. ConfigFollows(k, l.new, l.s) /\ k.j \in DOMAIN k.cfgs
    BY <1>1, <1>2, <2>1 DEF CallFollows, Call
  <2>3. ~ConfigAccepted(l.new, l.s)
    <3>1. k.pins # <<>>
      BY <2>1
    <3>2. QED
      BY <1>2, <2>1, <2>2, <3>1 DEF ConfigAccepted, ConfigFollows, Cfg
  <2>4. QED
    BY <1>1, <1>2, <2>1, <2>2, <2>3 DEF CallFollows, ConfigFollows
<1>7. CASE MuxWrite(c)
  <2>1. /\ call'[c].at = "loop" /\ k.at = "write" /\ k.op = "set_mux"
        /\ call'[c].i = k.i + 1
    BY <1>1, <1>7 DEF MuxWrite, AtWrite, PinctrlInv, DriverInv, TypeOK, Call
  <2>2. MuxFollows(k, l.new, l.s) /\ MuxListed(l.new, l.s)
    BY <1>1, <1>2, <2>1 DEF CallFollows, MuxFollows
  <2>3. k.vals[k.i] <= NAlts
    BY <1>1, <2>1 DEF PinctrlInv, DriverInv, WriteChecked, MuxLegal, MuxVal
  <2>4. \A x \in DOMAIN k.pins : x < k.i + 1 => k.vals[x] <= NAlts
    <3>1. \A x \in DOMAIN k.pins : x < k.i + 1 => x < k.i \/ x = k.i
      BY <1>1 DEF Call
    <3>2. QED
      BY <2>2, <2>3, <3>1 DEF MuxFollows
  <2>5. QED
    BY <1>1, <1>2, <2>1, <2>2, <2>4 DEF CallFollows, MuxFollows
<1>8. CASE ConfigWrite(c)
  <2>1. /\ call'[c].at = "loop" /\ k.at = "write" /\ k.op = "pinconf_set"
        /\ \/ k.j < Len(k.cfgs) /\ call'[c].i = k.i /\ call'[c].j = k.j + 1
           \/ k.j >= Len(k.cfgs) /\ call'[c].i = k.i + 1
    BY <1>1, <1>8 DEF ConfigWrite, AtWrite, PinctrlInv, DriverInv, TypeOK, Call
  <2>2. ConfigFollows(k, l.new, l.s)
    BY <1>1, <1>2, <2>1 DEF CallFollows
  <2>3. k.cfgs[k.j].param # "GENERIC"
    BY <1>1, <2>1
       DEF PinctrlInv, DriverInv, WriteChecked, Cfg, ControlBits
  <2>4. \A y \in DOMAIN k.cfgs :
          1 < call'[c].i \/ y < call'[c].j => 1 < k.i \/ y < k.j \/ y = k.j
    BY <1>1, <2>1 DEF Call
  <2>5. QED
    BY <1>1, <1>2, <2>1, <2>2, <2>3, <2>4 DEF CallFollows, ConfigFollows
<1>9. QED
  BY <1>3, <1>4, <1>5, <1>6, <1>7, <1>8 DEF DriverStep

LEMMA FollowsStep ==
  ASSUME PinctrlInv, [PinctrlNext]_pinctrlVars, NEW c \in Consumers,
         CallFollows(call[c], sel[c])
  PROVE  CallFollows(call'[c], sel'[c])
<1>1. CASE SelectStep(c) /\ (CallSetMux(c) \/ CallPinconfSet(c))
  BY <1>1, EnterFollows DEF CallSetMux, CallPinconfSet
<1>2. CASE SelectStep(c) /\ ~CallSetMux(c) /\ ~CallPinconfSet(c)
  BY <1>2, CoreStepIdle DEF CallFollows
<1>3. CASE InDriver(c)
  BY <1>3, DriverStepFollows DEF InDriver
<1>4. CASE \E n \in StatesOf[c] \cup {None} : Begin(c, n)
  BY <1>4 DEF Begin, driverVars, PinctrlInv, ConsumerOK, CallMatches, CallFollows
<1>5. QED
  BY <1>1, <1>2, <1>3, <1>4, OthersLeave

LEMMA FollowsInv == PinctrlSpec => []Follows
<1>1. Init => Follows
  BY ConsumersAreThreads DEF Init, DriverInit, NoCall, Follows, CallFollows
<1>2. ASSUME PinctrlInv, Follows, [PinctrlNext]_pinctrlVars
      PROVE  Follows'
  BY <1>2, FollowsStep DEF Follows
<1>3. QED
  BY <1>1, <1>2, PinctrlInvariant, PTL DEF PinctrlSpec

-----------------------------------------------------------------------------
(***************************************************************************)
(* Going back.  A state that a consumer was in is one that the driver      *)
(* takes, and a selection only claims pins of states that its consumer     *)
(* looks up: if no other consumer may claim these, nothing is left that    *)
(* could refuse the old state.                                             *)
(***************************************************************************)
Accepted(n) ==
  /\ \A r \in DOMAIN MuxSettings[n] : MuxAccepted(n, r)
  /\ \A r \in DOMAIN ConfigSettings[n] : ConfigAccepted(n, r)

\* The settings of selection l that are done were taken by the driver.
DoneAccepted(l) ==
  /\ l.pc = "request" =>
       \A r \in DOMAIN MuxSettings[l.new] : r < l.s => MuxAccepted(l.new, r)
  /\ l.pc = "config" =>
       /\ \A r \in DOMAIN MuxSettings[l.new] : MuxAccepted(l.new, r)
       /\ \A r \in DOMAIN ConfigSettings[l.new] :
            r < l.s => ConfigAccepted(l.new, r)

\* One consumer c, its selection l, its state st and its pins own.
GoesBack(c, l, st, own) ==
  /\ {l.new, l.from, st} \subseteq StatesOf[c] \cup {None}
  /\ \A p \in own : \E n \in StatesOf[c] : p \in MuxPins(n)
  /\ st # None => Accepted(st)
  /\ l.from # None => Accepted(l.from)
  /\ DoneAccepted(l)
  /\ l.back => \/ l.pc \in {"request", "config"} /\ l.new = l.from /\ l.from # None
               \/ l.pc = "undo" /\ ~Private(c)

AllGoBack == \A c \in Consumers : GoesBack(c, sel[c], state[c], Owned(c))

LEMMA BeginGoesBack ==
  ASSUME PinctrlInv, NEW c \in Consumers,
         GoesBack(c, sel[c], state[c], Owned(c)),
         NEW n \in StatesOf[c] \cup {None}, Begin(c, n)
  PROVE  GoesBack(c, sel'[c], state'[c], Owned(c)')
<1> DEFINE l == [NoSelection EXCEPT !.pc = "release", !.new = n, !.from = state[c]]
<1>1. /\ l.pc = "release" /\ l.new = n /\ l.from = state[c] /\ ~l.back
  BY DEF NoSelection
<1>2. sel'[c] = l /\ state'[c] = state[c] /\ Owned(c)' = Owned(c)
  BY DEF Begin, PinctrlInv, Owned
<1> HIDE DEF l
<1>3. QED
  BY <1>1, <1>2 DEF GoesBack, DoneAccepted

\* The steps that claim: only pins of the state to go to, and only a pin that
\* another consumer claims is refused.
LEMMA RequestGoesBack ==
  ASSUME PinctrlInv, AllGoBack, NEW c \in Consumers,
         RequestPin(c) \/ RequestBusy(c)
  PROVE  GoesBack(c, sel'[c], state'[c], Owned(c)')
<1> DEFINE k == sel[c]
           p == NextPin(c)
<1>1. /\ k \in Selection /\ k.pc = "request" /\ k.new \in States
      /\ k.new \in StatesOf[c] /\ GoesBack(c, k, state[c], Owned(c))
  BY DEF RequestPin, RequestBusy, InSetting, PinctrlInv, ConsumerOK, Selection,
     AllGoBack, GoesBack
<1>2. k.s \in DOMAIN MuxSettings[k.new]
  BY <1>1, SettingTypes DEF RequestPin, RequestBusy, InSetting, MuxOf, Selection
<1>3. p \in Pins /\ p \in MuxPins(k.new)
  <2>1. SettingPins(k.new, k.s) \in Seq(Pins)
    BY <1>1, <1>2, SettingTypes
  <2>2. k.i \in DOMAIN SettingPins(k.new, k.s)
    BY <1>1, <2>1 DEF RequestPin, RequestBusy, PinsLeft, Selection
  <2>3. QED
    BY <1>2, <2>1, <2>2 DEF NextPin, MuxPins, Range
<1>4. CASE RequestPin(c)
  <2> DEFINE l == [k EXCEPT !.i = k.i + 1]
  <2>1. /\ l.pc = k.pc /\ l.new = k.new /\ l.s = k.s /\ l.from = k.from
        /\ l.back = k.back
    BY <1>1 DEF Selection
  <2>2. sel'[c] = l /\ state'[c] = state[c]
    BY <1>4 DEF RequestPin, PinctrlInv
  <2>3. Owned(c)' \subseteq Owned(c) \cup {p}
    BY <1>4 DEF RequestPin, PinctrlInv, Owned
  <2> HIDE DEF l, p
  <2>4. QED
    BY <1>1, <1>3, <2>1, <2>2, <2>3 DEF GoesBack, DoneAccepted
<1>5. CASE RequestBusy(c)
  <2> DEFINE l == [k EXCEPT !.pc = "undo"]
  <2>1. /\ l.pc = "undo" /\ l.new = k.new /\ l.from = k.from /\ l.back = k.back
    BY <1>1 DEF Selection
  <2>2. sel'[c] = l /\ state'[c] = state[c] /\ Owned(c)' = Owned(c)
    BY <1>5 DEF RequestBusy, PinctrlInv, Owned
  <2>3. ~Private(c)
    <3>1. PICK d \in Consumers \ {c} : p \in Owned(d)
      BY <1>3, <1>5 DEF RequestBusy, MayClaim, PinctrlInv, Owned
    <3>2. PICK m \in StatesOf[d] : p \in MuxPins(m)
      BY <3>1 DEF AllGoBack, GoesBack
    <3> HIDE DEF p
    <3>3. QED
      BY <1>1, <1>3, <3>1, <3>2 DEF Private
  <2> HIDE DEF l
  <2>4. QED
    BY <1>1, <2>1, <2>2, <2>3 DEF GoesBack, DoneAccepted
<1>6. QED
  BY <1>4, <1>5

\* A setting is done if the driver takes it, and fails only if it does not:
\* never in a state that this consumer was in before.
LEMMA SettingGoesBack ==
  ASSUME PinctrlInv, NEW c \in Consumers, CallFollows(call[c], sel[c]),
         GoesBack(c, sel[c], state[c], Owned(c)), SettingReturned(c)
  PROVE  GoesBack(c, sel'[c], state'[c], Owned(c)')
<1> DEFINE k == sel[c]
           f == call[c]
           l == IF f.ret = "ok" THEN [k EXCEPT !.s = k.s + 1, !.i = 1]
                                ELSE [k EXCEPT !.pc = "undo"]
<1>1. /\ k \in Selection /\ k.pc \in {"request", "config"} /\ k.new \in States
      /\ f.at = "ret" /\ c \in Threads /\ f \in Call /\ CallMatches(f, k)
  BY ConsumersAreThreads
     DEF SettingReturned, Return, PinctrlInv, DriverInv, TypeOK, ConsumerOK, Selection
<1>2. state'[c] = state[c] /\ Owned(c)' = Owned(c)
  BY DEF SettingReturned, Owned
<1>3. sel'[c] = l
  BY <1>1 DEF SettingReturned, PinctrlInv, Selection
<1>4. CASE f.ret = "ok"
  <2>1. /\ l.pc = k.pc /\ l.new = k.new /\ l.s = k.s + 1 /\ l.from = k.from
        /\ l.back = k.back
    BY <1>1, <1>4 DEF Selection
  <2>2. f.i > Len(f.pins) /\ f.pins \in Seq(Pins)
    BY <1>1, <1>4 DEF CallFollows, Call
  <2>3. k.pc = "request" => MuxAccepted(k.new, k.s)
    <3>1. SUFFICES ASSUME k.pc = "request" PROVE MuxAccepted(k.new, k.s)
      OBVIOUS
    <3>2. MuxListed(k.new, k.s) /\ f.pins = SettingPins(k.new, k.s)
          /\ f.vals = SettingVals(k.new, k.s)
          /\ \A x \in DOMAIN f.pins : x < f.i => f.vals[x] <= NAlts
      BY <1>1, <1>4, <3>1 DEF CallFollows, MuxFollows
    <3>3. \A x \in DOMAIN f.pins : x < f.i
      BY <1>1, <2>2 DEF Call
    <3>4. QED
      BY <3>2, <3>3 DEF MuxAccepted
  <2>4. k.pc = "config" => ConfigAccepted(k.new, k.s)
    <3>1. SUFFICES ASSUME k.pc = "config", ConfigSettings[k.new][k.s].pins # <<>>
                   PROVE  \A y \in DOMAIN ConfigSettings[k.new][k.s].cfgs :
                            ConfigSettings[k.new][k.s].cfgs[y].param # "GENERIC"
      BY DEF ConfigAccepted
    <3>2. f.pins = ConfigSettings[k.new][k.s].pins
          /\ ConfigFollows(f, k.new, k.s)
      BY <1>1, <3>1 DEF CallFollows, CallMatches
    <3>3. 1 < f.i
      BY <1>1, <2>2, <3>1, <3>2 DEF Call
    <3>4. QED
      BY <3>2, <3>3 DEF ConfigFollows
  <2>5. \A r : r \in Nat /\ r < l.s => r < k.s \/ r = k.s
    BY <1>1, <2>1 DEF Selection
  <2>6. /\ \A r \in DOMAIN MuxSettings[k.new] : r \in Nat
        /\ \A r \in DOMAIN ConfigSettings[k.new] : r \in Nat
    BY <1>1, SettingTypes
  <2> HIDE DEF l
  <2>7. DoneAccepted(l)
    BY <2>1, <2>3, <2>4, <2>5, <2>6 DEF DoneAccepted, GoesBack
  <2>8. QED
    BY <1>1, <1>2, <1>3, <2>1, <2>7 DEF GoesBack
<1>5. CASE f.ret # "ok"
  <2>1. /\ l.pc = "undo" /\ l.new = k.new /\ l.from = k.from /\ l.back = k.back
    BY <1>1, <1>5 DEF Selection
  <2>2. ~Accepted(k.new)
    BY <1>1, <1>5 DEF CallFollows, CallMatches, MuxFollows, ConfigFollows, Accepted
  <2>3. ~k.back
    BY <1>1, <2>2 DEF GoesBack
  <2> HIDE DEF l
  <2>4. QED
    BY <1>2, <1>3, <2>1, <2>3 DEF GoesBack, DoneAccepted
<1>6. QED
  BY <1>4, <1>5

\* The steps that end a phase of a selection.
LEMMA PhaseGoesBack ==
  ASSUME PinctrlInv, NEW c \in Consumers,
         GoesBack(c, sel[c], state[c], Owned(c)),
         Released(c) \/ AllMuxed(c) \/ Committed(c) \/ Undone(c)
  PROVE  GoesBack(c, sel'[c], state'[c], Owned(c)')
<1> DEFINE k == sel[c]
<1>1. /\ k \in Selection /\ k.new \in States \cup {None}
      /\ (k.pc \in {"request", "config"} => k.new \in States)
      /\ state[c] \in States \cup {None}
  BY DEF PinctrlInv, ConsumerOK, Selection
<1>2. /\ NoSelection.pc = "idle" /\ NoSelection.new = None
      /\ NoSelection.from = None /\ ~NoSelection.back
  BY DEF NoSelection
<1>3. Owned(c)' = Owned(c)
  BY DEF Released, AllMuxed, Committed, Undone, Owned
<1>4. CASE Released(c)
  <2> DEFINE l == [k EXCEPT !.pc = "request"]
  <2>1. /\ l.pc = "request" /\ l.new = k.new /\ l.s = 1 /\ l.from = k.from
        /\ l.back = k.back /\ k.pc = "release"
    BY <1>1, <1>4 DEF Released, Selection, PinctrlInv, ConsumerOK, ClaimsMatch
  <2>2. state'[c] = None /\ sel'[c] = IF k.new = None THEN NoSelection ELSE l
    BY <1>4 DEF Released, PinctrlInv
  <2>3. ~k.back
    BY <2>1 DEF GoesBack
  <2> HIDE DEF l
  <2>4. CASE k.new = None
    BY <1>2, <1>3, <2>2, <2>4 DEF GoesBack, DoneAccepted
  <2>5. CASE k.new # None
    <3>1. \A r \in DOMAIN MuxSettings[k.new] : ~(r < 1)
      BY <1>1, <2>5, SettingTypes
    <3>2. QED
      BY <1>3, <2>1, <2>2, <2>3, <2>5, <3>1 DEF GoesBack, DoneAccepted
  <2>6. QED
    BY <2>4, <2>5
<1>5. CASE AllMuxed(c)
  <2> DEFINE l == [k EXCEPT !.pc = "config", !.s = 1]
  <2>1. /\ l.pc = "config" /\ l.new = k.new /\ l.s = 1 /\ l.from = k.from
        /\ l.back = k.back /\ k.pc = "request" /\ k.new \in States
    BY <1>1, <1>5 DEF AllMuxed, Selection
  <2>2. state'[c] = state[c] /\ sel'[c] = l
    BY <1>5 DEF AllMuxed, PinctrlInv
  <2>3. \A r \in DOMAIN MuxSettings[k.new] : r < k.s
    BY <1>1, <1>5, <2>1, SettingTypes DEF AllMuxed, MuxOf, Selection
  <2>4. \A r \in DOMAIN ConfigSettings[k.new] : ~(r < 1)
    BY <2>1, SettingTypes
  <2> HIDE DEF l
  <2>5. QED
    BY <1>3, <2>1, <2>2, <2>3, <2>4 DEF GoesBack, DoneAccepted
<1>6. CASE Committed(c)
  <2>1. k.pc = "config" /\ k.new \in States
    BY <1>1, <1>6 DEF Committed
  <2>2. state'[c] = k.new /\ sel'[c] = NoSelection
    BY <1>6 DEF Committed, PinctrlInv
  <2>3. \A r \in DOMAIN ConfigSettings[k.new] : r < k.s
    BY <1>1, <1>6, <2>1, SettingTypes DEF Committed, ConfigsOf, Selection
  <2>4. Accepted(k.new)
    BY <2>1, <2>3 DEF GoesBack, DoneAccepted, Accepted
  <2>5. QED
    BY <1>2, <1>3, <2>2, <2>4 DEF GoesBack, DoneAccepted
<1>7. CASE Undone(c)
  <2> DEFINE l == Retry(c, k.from)
  <2>1. /\ l.pc = "request" /\ l.new = k.from /\ l.s = 1 /\ l.from = k.from
    BY <1>1 DEF Retry, Selection
  <2>2. /\ state'[c] = state[c]
        /\ sel'[c] = IF k.from = None \/ k.back THEN NoSelection ELSE l
    BY <1>7 DEF Undone, PinctrlInv
  <2> HIDE DEF l
  <2>3. CASE k.from = None \/ k.back
    BY <1>2, <1>3, <2>2, <2>3 DEF GoesBack, DoneAccepted
  <2>4. CASE ~(k.from = None \/ k.back)
    <3>1. k.from \in States
      BY <1>1, <2>4 DEF Selection
    <3>2. \A r \in DOMAIN MuxSettings[k.from] : ~(r < 1)
      BY <3>1, SettingTypes
    <3>3. QED
      BY <1>3, <2>1, <2>2, <2>4, <3>2 DEF GoesBack, DoneAccepted
  <2>5. QED
    BY <2>3, <2>4
<1>8. QED
  BY <1>4, <1>5, <1>6, <1>7

LEMMA GoesBackStep ==
  ASSUME PinctrlInv, Follows, AllGoBack, [PinctrlNext]_pinctrlVars
  PROVE  AllGoBack'
<1> SUFFICES ASSUME NEW c \in Consumers
             PROVE  GoesBack(c, sel'[c], state'[c], Owned(c)')
  BY DEF AllGoBack
<1>1. GoesBack(c, sel[c], state[c], Owned(c)) /\ CallFollows(call[c], sel[c])
  BY DEF AllGoBack, Follows
<1>2. CASE \E n \in StatesOf[c] \cup {None} : Begin(c, n)
  BY <1>1, <1>2, BeginGoesBack
<1>3. CASE RequestPin(c) \/ RequestBusy(c)
  BY <1>3, RequestGoesBack
<1>4. CASE SettingReturned(c)
  BY <1>1, <1>4, SettingGoesBack
<1>5. CASE Released(c) \/ AllMuxed(c) \/ Committed(c) \/ Undone(c)
  BY <1>1, <1>5, PhaseGoesBack
<1>6. CASE FreePin(c)
  <2>1. sel'[c] = sel[c] /\ state'[c] = state[c] /\ Owned(c)' \subseteq Owned(c)
    BY <1>6, ConsumersAreThreads DEF FreePin, PinctrlInv, Owned
  <2>2. QED
    BY <1>1, <2>1 DEF GoesBack
<1>7. CASE CallSetMux(c) \/ CallPinconfSet(c) \/ InDriver(c)
  BY <1>1, <1>7 DEF CallSetMux, CallPinconfSet, InDriver, Owned
<1>8. CASE ~SelectStep(c) /\ ~InDriver(c)
           /\ ~ \E n \in StatesOf[c] \cup {None} : Begin(c, n)
  BY <1>1, <1>8, OthersLeave
<1>9. QED
  BY <1>2, <1>3, <1>4, <1>5, <1>6, <1>7, <1>8 DEF SelectStep

\* A consumer that shares no pin is never left without a state by a failed
\* selection: going back to the old state does not fail, whatever the other
\* consumers and the writers of pinmux-select do meanwhile.
THEOREM GoingBackHolds == PinctrlSpec => []FallbackHolds
<1>1. Init => AllGoBack
  <2> SUFFICES ASSUME Init, NEW c \in Consumers
               PROVE  GoesBack(c, sel[c], state[c], Owned(c))
    BY DEF AllGoBack
  <2>1. /\ sel[c].pc = "idle" /\ sel[c].new = None /\ sel[c].from = None
        /\ ~sel[c].back /\ state[c] = None /\ Owned(c) = {}
    BY ConsumersAreThreads DEF Init, NoSelection, Owned
  <2>2. QED
    BY <2>1 DEF GoesBack, DoneAccepted
<1>2. PinctrlInv /\ Follows /\ AllGoBack /\ [PinctrlNext]_pinctrlVars => AllGoBack'
  BY GoesBackStep
<1>3. AllGoBack => FallbackHolds
  BY DEF AllGoBack, GoesBack, FallbackHolds
<1>4. QED
  BY <1>1, <1>2, <1>3, PinctrlInvariant, FollowsInv, PTL DEF PinctrlSpec
=============================================================================
