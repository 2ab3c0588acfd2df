--------------------------- MODULE AximuxProduction ---------------------------
(***************************************************************************)
(* AximuxPinctrl as the driver's header wants it used: "Runtime remux uses *)
(* pinctrl states", nobody writes pinmux-select, and a state configures    *)
(* only pins that it also claims.  Under these assumptions the claims of   *)
(* the core stand in for the lock that the driver does not take.           *)
(***************************************************************************)
EXTENDS AximuxPinctrl

ConfigPins(n) ==
  UNION {Range(ConfigSettings[n][s].pins) : s \in DOMAIN ConfigSettings[n]}

ASSUME ProductionAssumption ==
  /\ Shells = {}
  /\ \A n \in States : ConfigPins(n) \subseteq MuxPins(n)

\* No state gives one control bit of one pin two values.
ASSUME ConsistentConfigs ==
  \A n \in States :
    \A k \in Range(ConfigSettings[n]), l \in Range(ConfigSettings[n]) :
      \A c \in Range(k.cfgs), d \in Range(l.cfgs) :
        Range(k.pins) \cap Range(l.pins) # {} /\ c.param = d.param
          => c.arg = d.arg

-----------------------------------------------------------------------------
\* Mux setting s of state n routes pin p to source v, and so does the state.
RoutesIn(n, s, p, v) ==
  \E x \in DOMAIN SettingPins(n, s) :
    /\ SettingPins(n, s)[x] = p
    /\ MuxVals[MuxSettings[n][s].fn][MuxSettings[n][s].group][x] = v
Routes(n, p, v) == \E s \in DOMAIN MuxSettings[n] : RoutesIn(n, s, p, v)

\* Pinconf setting s of state n gives parameter b of pin p the argument v.
AsksIn(n, s, p, b, v) ==
  /\ p \in Range(ConfigSettings[n][s].pins)
  /\ [param |-> b, arg |-> v] \in Range(ConfigSettings[n][s].cfgs)
Asks(n, p, b, v) == \E s \in DOMAIN ConfigSettings[n] : AsksIn(n, s, p, b, v)

-----------------------------------------------------------------------------
(***************************************************************************)
(* Properties                                                              *)
(***************************************************************************)

\* The claims are the missing lock: at the moment of the write-back in
\* aximux_set_src or aximux_pinconf_set the register still holds the value
\* that was read, whatever ran in between.
ReadFresh ==
  \A t \in Threads : call[t].at = "write" => val[t] = regs[Pin(t)]
=============================================================================
