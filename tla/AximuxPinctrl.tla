---------------------------- MODULE AximuxPinctrl ----------------------------
(***************************************************************************)
(* The driver under the callers it really has: consumer devices that move  *)
(* between pinctrl states, and lab shells that write the debugfs file      *)
(* pinmux-select.  Both run in threads of their own and enter the          *)
(* callbacks of AximuxDriver.                                              *)
(*                                                                         *)
(* The pinctrl core is not in this repository.  It is modelled from what   *)
(* the driver gives it and relies on: pins are claimed one at a time for a *)
(* consumer before set_mux is called for their group, pinmux comes before  *)
(* pinconf, a failed commit gives its claims back and returns to the state *)
(* it came from, and pinmux-select claims nothing.                         *)
(***************************************************************************)
EXTENDS AximuxDriver, Functions

CONSTANTS
  Consumers,       \* devices with a pinctrl handle, one thread each
  Shells,          \* threads that write pinmux-select
  States,          \* pinctrl states
  StatesOf,        \* StatesOf[c]: the states that consumer c looks up
  MuxSettings,     \* MuxSettings[n]: the mux settings of state n, in order
  ConfigSettings,  \* ConfigSettings[n]: the pinconf settings of n, in order
  None

MuxSetting    == [fn : Functions, group : Groups]
ConfigSetting == [pins : {<<p>> : p \in Pins} \cup {GroupPins[g] : g \in Groups},
                  cfgs : ConfigLists]

SettingPins(n, s) == GroupPins[MuxSettings[n][s].group]

\* The pins that state n claims: those of its mux settings.
MuxPins(n) ==
  UNION {Range(SettingPins(n, s)) : s \in DOMAIN MuxSettings[n]}

ASSUME ConsumerAssumption ==
  /\ Threads = Consumers \cup Shells
  /\ Consumers \cap Shells = {}
  /\ StatesOf \in [Consumers -> SUBSET States]
  /\ MuxSettings \in [States -> Seq(MuxSetting)]
  /\ ConfigSettings \in [States -> Seq(ConfigSetting)]
  /\ None \notin States \cup Consumers

\* A state names a pin once, so that the core's use count of a pin is 0 or 1
\* and the owner alone says whether the pin is claimed.
ASSUME SettingAssumption ==
  \A n \in States :
    \A s \in DOMAIN MuxSettings[n], r \in DOMAIN MuxSettings[n] :
      \A x \in DOMAIN SettingPins(n, s), y \in DOMAIN SettingPins(n, r) :
        SettingPins(n, s)[x] = SettingPins(n, r)[y] => s = r /\ x = y

VARIABLES
  owner,  \* owner[p]: the consumer that claims pin p, or None
  state,  \* state[c]: p->state of consumer c, None while it has none
  sel     \* sel[c]: the pinctrl_select_state that consumer c is in

pinctrlVars == <<regs, call, val, owner, state, sel>>

(***************************************************************************)
(* A selection: the state to go to, the state it came from, and the loop   *)
(* over the pins (i) of the settings (s) of new.  back: the first commit   *)
(* failed, and new is the old state again.                                 *)
(***************************************************************************)
Selection == [pc   : {"idle", "release", "request", "config", "undo"},
              new  : States \cup {None},
              from : States \cup {None},
              s    : Nat \ {0},
              i    : Nat \ {0},
              back : BOOLEAN]

NoSelection == [pc |-> "idle", new |-> None, from |-> None,
                s |-> 1, i |-> 1, back |-> FALSE]

Init ==
  /\ DriverInit
  /\ owner = [p \in Pins |-> None]
  /\ state = [c \in Consumers |-> None]
  /\ sel   = [c \in Consumers |-> NoSelection]

Owned(c) == {p \in Pins : owner[p] = c}
MuxOf(c) == MuxSettings[sel[c].new]
ConfigsOf(c) == ConfigSettings[sel[c].new]

-----------------------------------------------------------------------------
(***************************************************************************)
(* pinctrl_select_state                                                    *)
(***************************************************************************)

\* Consumer c selects state n, or gives its handle up (n = None).  Selecting
\* the state the core remembers does nothing.
Begin(c, n) ==
  /\ sel[c].pc = "idle"
  /\ n # state[c]
  /\ sel' = [sel EXCEPT ![c] = [NoSelection EXCEPT !.pc = "release", !.new = n,
                                                   !.from = state[c]]]
  /\ UNCHANGED <<driverVars, owner, state>>

\* The claims of the old state, or of a failed commit, are dropped pin by pin.
FreePin(c) ==
  /\ sel[c].pc \in {"release", "undo"}
  /\ \E p \in Owned(c) : owner' = [owner EXCEPT ![p] = None]
  /\ UNCHANGED <<driverVars, state, sel>>

Released(c) ==
  /\ sel[c].pc = "release"
  /\ Owned(c) = {}
  /\ state' = [state EXCEPT ![c] = None]
  /\ sel' = [sel EXCEPT ![c] =
       IF @.new = None THEN NoSelection ELSE [@ EXCEPT !.pc = "request"]]
  /\ UNCHANGED <<driverVars, owner>>

InSetting(c) ==
  /\ sel[c].pc = "request"
  /\ sel[c].s <= Len(MuxOf(c))
  /\ call[c].at = "idle"

NextPin(c) == SettingPins(sel[c].new, sel[c].s)[sel[c].i]
PinsLeft(c) == sel[c].i <= Len(SettingPins(sel[c].new, sel[c].s))

\* pin_request: a pin that another consumer claims is refused.
MayClaimAnything(c, p) == TRUE
MayClaim(c, p) == owner[p] \in {None, c}

RequestPin(c) ==
  /\ InSetting(c)
  /\ PinsLeft(c)
  /\ MayClaim(c, NextPin(c))
  /\ owner' = [owner EXCEPT ![NextPin(c)] = c]
  /\ sel' = [sel EXCEPT ![c].i = @ + 1]
  /\ UNCHANGED <<driverVars, state>>

RequestBusyWaits(c) ==
  /\ InSetting(c)
  /\ PinsLeft(c)
  /\ ~MayClaim(c, NextPin(c))
  /\ UNCHANGED pinctrlVars

RequestBusy(c) ==
  /\ InSetting(c)
  /\ PinsLeft(c)
  /\ ~MayClaim(c, NextPin(c))
  /\ sel' = [sel EXCEPT ![c].pc = "undo"]
  /\ UNCHANGED <<driverVars, owner, state>>

\* All pins of the setting are claimed: the driver is called.
CallSetMux(c) ==
  /\ InSetting(c)
  /\ ~PinsLeft(c)
  /\ SetMux(c, MuxOf(c)[sel[c].s].fn, MuxOf(c)[sel[c].s].group)
  /\ UNCHANGED <<owner, state, sel>>

\* A setting is done, or the commit fails with the driver's error.
SettingReturned(c) ==
  /\ sel[c].pc \in {"request", "config"}
  /\ Return(c)
  /\ \/ /\ call[c].ret = "ok"
        /\ sel' = [sel EXCEPT ![c].s = @ + 1, ![c].i = 1]
     \/ /\ call[c].ret # "ok"
        /\ sel' = [sel EXCEPT ![c].pc = "undo"]
  /\ UNCHANGED <<owner, state>>

AllMuxed(c) ==
  /\ sel[c].pc = "request"
  /\ sel[c].s > Len(MuxOf(c))
  /\ sel' = [sel EXCEPT ![c].pc = "config", ![c].s = 1]
  /\ UNCHANGED <<driverVars, owner, state>>

CallPinconfSet(c) ==
  /\ sel[c].pc = "config"
  /\ sel[c].s <= Len(ConfigsOf(c))
  /\ PinconfSet(c, ConfigsOf(c)[sel[c].s].pins, ConfigsOf(c)[sel[c].s].cfgs)
  /\ UNCHANGED <<owner, state, sel>>

Committed(c) ==
  /\ sel[c].pc = "config"
  /\ sel[c].s > Len(ConfigsOf(c))
  /\ state' = [state EXCEPT ![c] = sel[c].new]
  /\ sel'   = [sel EXCEPT ![c] = NoSelection]
  /\ UNCHANGED <<driverVars, owner>>

\* The claims of the failed commit are gone.  The first failure goes back to
\* the old state, if there was one; a second one gives up.
Retry(c, n) ==
  [sel[c] EXCEPT !.pc = "request", !.new = n, !.s = 1, !.i = 1, !.back = TRUE]

UndoneLeaks(c) ==
  /\ sel[c].pc = "undo"
  /\ sel' = [sel EXCEPT ![c] = IF @.from = None \/ @.back THEN NoSelection
                               ELSE Retry(c, @.from)]
  /\ UNCHANGED <<driverVars, owner, state>>

UndoneAlwaysRetries(c) ==
  /\ sel[c].pc = "undo"
  /\ Owned(c) = {}
  /\ sel' = [sel EXCEPT ![c] = IF @.back THEN NoSelection
                               ELSE Retry(c, @.from)]
  /\ UNCHANGED <<driverVars, owner, state>>

UndoneRetriesNew(c) ==
  /\ sel[c].pc = "undo"
  /\ Owned(c) = {}
  /\ sel' = [sel EXCEPT ![c] = IF @.from = None \/ @.back THEN NoSelection
                               ELSE Retry(c, @.new)]
  /\ UNCHANGED <<driverVars, owner, state>>

Undone(c) ==
  /\ sel[c].pc = "undo"
  /\ Owned(c) = {}
  /\ sel' = [sel EXCEPT ![c] =
       IF @.from = None \/ @.back THEN NoSelection ELSE Retry(c, @.from)]
  /\ UNCHANGED <<driverVars, owner, state>>

-----------------------------------------------------------------------------
\* A line "<group> <function>" written to pinmux-select.  The core checks that
\* the function has the group and calls set_mux; no pin is claimed.
PinmuxSelect(t) ==
  /\ \E f \in Functions : \E g \in DOMAIN MuxVals[f] : SetMux(t, f, g)
  /\ UNCHANGED <<owner, state, sel>>

ShellReturned(t) ==
  /\ Return(t)
  /\ UNCHANGED <<owner, state, sel>>

InDriver(t) ==
  /\ DriverStep(t)
  /\ UNCHANGED <<owner, state, sel>>

SelectStep(c) ==
  \/ FreePin(c)    \/ Released(c)
  \/ RequestPin(c) \/ RequestBusy(c) \/ CallSetMux(c) \/ SettingReturned(c)
  \/ AllMuxed(c)   \/ CallPinconfSet(c) \/ Committed(c)
  \/ Undone(c)

PinctrlNext ==
  \/ \E c \in Consumers :
       (\E n \in StatesOf[c] \cup {None} : Begin(c, n)) \/ SelectStep(c)
  \/ \E t \in Shells : PinmuxSelect(t) \/ ShellReturned(t)
  \/ \E t \in Threads : InDriver(t)

PinctrlSpec == Init /\ [][PinctrlNext]_pinctrlVars

\* A thread inside a selection or a callback waits for nobody: a busy pin is
\* an error, not a wait.  Nobody has to begin a selection or write a file.
PinctrlFairSpec ==
  /\ PinctrlSpec
  /\ \A c \in Consumers : WF_pinctrlVars(SelectStep(c))
  /\ \A t \in Threads : WF_pinctrlVars(InDriver(t))

-----------------------------------------------------------------------------
(***************************************************************************)
(* Properties                                                              *)
(***************************************************************************)

\* The bookkeeping is well typed, and a consumer is inside the driver only in
\* the two phases of a selection that call it.
PinctrlTypeOK ==
  /\ TypeOK
  /\ owner \in [Pins -> Consumers \cup {None}]
  /\ state \in [Consumers -> States \cup {None}]
  /\ sel \in [Consumers -> Selection]
  /\ \A c \in Consumers :
       /\ sel[c].pc \in {"request", "config"} => sel[c].new # None
       /\ call[c].at # "idle" => sel[c].pc \in {"request", "config"}

\* No leaked and no lost claims: between selections a consumer claims exactly
\* the pins of the state the core remembers for it, whichever way its last
\* selections ended.
SettledOwns ==
  \A c \in Consumers :
    sel[c].pc = "idle" =>
      Owned(c) = IF state[c] = None THEN {} ELSE MuxPins(state[c])

\* A consumer's set_mux call only ever works on pins that this consumer claims
\* (aximux_set_mux relies on it: it has no other protection).
MuxOnOwned ==
  \A c \in Consumers :
    call[c].op = "set_mux" /\ call[c].at # "idle" =>
      Range(call[c].pins) \subseteq Owned(c)

\* Register p carries what state n asks of it.
MuxApplied(n) ==
  \A s \in DOMAIN MuxSettings[n] :
    LET m == MuxSettings[n][s] IN
      \A x \in DOMAIN GroupPins[m.group] :
        regs[GroupPins[m.group][x]].src = MuxVals[m.fn][m.group][x]

ConfigsApplied(n) ==
  \A s \in DOMAIN ConfigSettings[n] :
    LET k == ConfigSettings[n][s] IN
      \A p \in Range(k.pins), c \in Range(k.cfgs) :
        (c.param \in regs[p].ctl) = c.arg

\* Between selections the hardware is as the remembered state says: every
\* source and every control bit of the state is programmed, whatever the other
\* consumers did meanwhile (aximux_set_mux, aximux_pinconf_set).
SettledApplied ==
  \A c \in Consumers :
    sel[c].pc = "idle" /\ state[c] # None =>
      MuxApplied(state[c]) /\ ConfigsApplied(state[c])

\* Pinmux programs SRC and pinconf the control bits, and neither the other's
\* field: the write-back of a set_mux leaves every control bit of every signal
\* as it is, and that of a pinconf_set every source.
OwnFieldOnly ==
  [][\A t \in Threads, p \in Pins :
       call[t].at = "write" /\ call'[t].at = "loop" =>
         IF call[t].op = "set_mux" THEN regs'[p].ctl = regs[p].ctl
                                   ELSE regs'[p].src = regs[p].src]_pinctrlVars

\* A consumer no other consumer shares a pin with.
Private(c) ==
  \A d \in Consumers \ {c} :
    \A n \in StatesOf[c], m \in StatesOf[d] : MuxPins(n) \cap MuxPins(m) = {}

\* A consumer that shares no pin always gets its old state back when the new
\* one fails half way: going back never fails.
FallbackHolds ==
  \A c \in Consumers :
    Private(c) /\ sel[c].back => sel[c].pc # "undo"

\* Every selection comes to an end, in the new state, the old one or none.
SelectReturns ==
  \A c \in Consumers : sel[c].pc # "idle" ~> sel[c].pc = "idle"
=============================================================================
