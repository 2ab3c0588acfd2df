------------------------- MODULE AximuxDriver_proofs -------------------------
(***************************************************************************)
(* Proofs about the callbacks of AximuxDriver, for any tables, any number  *)
(* of signals and any threads.  The lemmas speak of single actions, so     *)
(* that the modules that compose the driver with its callers reuse them.   *)
(***************************************************************************)
EXTENDS AximuxDriver, TLAPS

\* What a call has established when it is about to write back.
WriteChecked ==
  \A t \in Threads : call[t].at = "write" =>
    IF call[t].op = "set_mux" THEN MuxLegal(Pin(t), MuxVal(t))
                              ELSE Cfg(t).param \in ControlBits

DriverInv == TypeOK /\ WriteChecked

\* The words that the two modifications make are words again, and each
\* keeps the field that is not its own.
LEMMA WordOps ==
  ASSUME NEW w \in Word
  PROVE  /\ \A s \in Nat : /\ SetSrc(w, s) \in Word
                           /\ SetSrc(w, s).ctl = w.ctl
                           /\ SetSrc(w, s).src = s % 16
         /\ \A c \in Config : c.param \in ControlBits =>
              /\ SetControl(w, c) \in Word
              /\ SetControl(w, c).src = w.src
BY DEF Word, SetSrc, SetControl, Config

LEMMA DriverInitInv == DriverInit => DriverInv
BY DEF DriverInit, DriverInv, TypeOK, WriteChecked, NoCall, Call, ResetWord, Word

-----------------------------------------------------------------------------
\* Entering a callback.
LEMMA SetMuxInv ==
  ASSUME DriverInv, NEW t \in Threads, NEW f \in Functions, NEW g \in Groups,
         SetMux(t, f, g)
  PROVE  DriverInv'
<1> DEFINE new == IF Listed(f, g)
       THEN [NoCall EXCEPT !.at = "loop", !.pins = GroupPins[g],
                           !.vals = MuxVals[f][g]]
       ELSE [NoCall EXCEPT !.at = "ret", !.ret = "EINVAL"]
<1>1. call' = [call EXCEPT ![t] = new] /\ regs' = regs /\ val' = val
  BY DEF SetMux
<1>2. new \in Call /\ new.op = "set_mux" /\ Len(new.vals) = Len(new.pins)
      /\ new.at # "write"
  <2>1. NoCall \in Call
    BY DEF NoCall, Call
  <2>2. CASE Listed(f, g)
    <3>1. GroupPins[g] \in Seq(Pins) /\ MuxVals[f][g] \in Seq(Nat)
      BY <2>2, TableAssumption DEF Listed
    <3>2. QED
      BY <2>1, <2>2, <3>1 DEF Listed, NoCall, Call
  <2>3. CASE ~Listed(f, g)
    BY <2>1, <2>3 DEF NoCall, Call
  <2>4. QED
    BY <2>2, <2>3
<1> HIDE DEF new
<1>3. QED
  BY <1>1, <1>2 DEF DriverInv, TypeOK, WriteChecked, Pin, MuxVal, Cfg

LEMMA PinconfSetInv ==
  ASSUME DriverInv, NEW t \in Threads, NEW ps \in Seq(Pins),
         NEW cl \in ConfigLists, PinconfSet(t, ps, cl)
  PROVE  DriverInv'
<1> DEFINE new == [NoCall EXCEPT !.op = "pinconf_set", !.at = "loop",
                                 !.pins = ps, !.cfgs = cl]
<1>1. call' = [call EXCEPT ![t] = new] /\ regs' = regs /\ val' = val
  BY DEF PinconfSet
<1>2. cl \in Seq(Config) /\ 1 <= Len(cl)
  BY TableAssumption
<1>3. new \in Call /\ new.op = "pinconf_set" /\ new.j <= Len(new.cfgs)
      /\ new.at # "write"
  <2>1. NoCall \in Call
    BY DEF NoCall, Call
  <2>2. QED
    BY <1>2, <2>1 DEF NoCall, Call
<1> HIDE DEF new
<1>4. QED
  BY <1>1, <1>3 DEF DriverInv, TypeOK, WriteChecked, Pin, MuxVal, Cfg

\* Leaving it.
LEMMA ReturnInv ==
  ASSUME DriverInv, NEW t \in Threads, Return(t)
  PROVE  DriverInv'
<1>1. NoCall \in Call
  BY DEF NoCall, Call
<1>2. QED
  BY <1>1 DEF Return, DriverInv, TypeOK, WriteChecked, Pin, MuxVal, Cfg, NoCall

-----------------------------------------------------------------------------
\* The steps inside.

\* The three ways a loop index moves.
LEMMA NextIndex ==
  ASSUME NEW k \in Call
  PROVE  /\ LET n == [k EXCEPT !.at = "loop", !.i = k.i + 1] IN
              /\ n \in Call /\ n.op = k.op /\ n.pins = k.pins /\ n.at = "loop"
              /\ n.vals = k.vals /\ n.cfgs = k.cfgs
         /\ LET n == [k EXCEPT !.at = "loop", !.j = k.j + 1] IN
              /\ n \in Call /\ n.op = k.op /\ n.pins = k.pins /\ n.at = "loop"
              /\ n.vals = k.vals /\ n.cfgs = k.cfgs /\ n.j = k.j + 1
         /\ LET n == [k EXCEPT !.at = "loop", !.i = k.i + 1, !.j = 1] IN
              /\ n \in Call /\ n.op = k.op /\ n.pins = k.pins /\ n.at = "loop"
              /\ n.vals = k.vals /\ n.cfgs = k.cfgs /\ n.j = 1
<1>1. k.i + 1 \in Nat \ {0} /\ k.j + 1 \in Nat \ {0} /\ 1 \in Nat \ {0}
  BY DEF Call
<1>2. QED
  BY <1>1 DEF Call

LEMMA ReadInv ==
  ASSUME DriverInv, NEW t \in Threads, MuxRead(t) \/ ConfigRead(t)
  PROVE  DriverInv'
<1>1. /\ call[t].i \in 1..Len(call[t].pins)
      /\ call' = [call EXCEPT ![t].at = "write"]
      /\ regs' = regs /\ val' = [val EXCEPT ![t] = regs[Pin(t)]]
  BY DEF MuxRead, ConfigRead, InLoop, ReadReg, DriverInv, TypeOK, Call
<1>2. Pin(t) \in Pins
  BY <1>1 DEF Pin, DriverInv, TypeOK, Call
<1>3. TypeOK'
  <2>1. regs' \in [Pins -> Word] /\ val' \in [Threads -> Word]
    BY <1>1, <1>2 DEF DriverInv, TypeOK
  <2>2. [call[t] EXCEPT !.at = "write"] \in Call
    BY DEF DriverInv, TypeOK, Call
  <2>3. call' \in [Threads -> Call]
    BY <1>1, <2>2 DEF DriverInv, TypeOK
  <2>4. \A u \in Threads :
          /\ call'[u].op = call[u].op /\ call'[u].pins = call[u].pins
          /\ call'[u].vals = call[u].vals /\ call'[u].cfgs = call[u].cfgs
          /\ call'[u].i = call[u].i /\ call'[u].j = call[u].j
          /\ u # t => call'[u].at = call[u].at
    BY <1>1 DEF DriverInv, TypeOK, Call
  <2>5. QED
    BY <1>1, <2>1, <2>3, <2>4 DEF DriverInv, TypeOK
<1>4. IF call[t].op = "set_mux" THEN MuxLegal(Pin(t), MuxVal(t))
                                ELSE Cfg(t).param \in ControlBits
  <2>1. CASE MuxRead(t)
    BY <2>1 DEF MuxRead, InLoop
  <2>2. CASE ConfigRead(t)
    <3>1. call[t].op = "pinconf_set" /\ Cfg(t).param # "GENERIC"
      BY <2>2 DEF ConfigRead, InLoop
    <3>2. Cfg(t) \in Config
      BY <3>1 DEF Cfg, DriverInv, TypeOK, Call
    <3>3. QED
      BY <3>1, <3>2 DEF Config, Params
  <2>3. QED
    BY <2>1, <2>2
<1>5. WriteChecked'
  <2> SUFFICES ASSUME NEW u \in Threads, call'[u].at = "write"
               PROVE  IF call'[u].op = "set_mux"
                      THEN MuxLegal(Pin(u), MuxVal(u))'
                      ELSE (Cfg(u).param \in ControlBits)'
    BY DEF WriteChecked
  <2>1. /\ call'[u].op = call[u].op /\ Pin(u)' = Pin(u)
        /\ MuxVal(u)' = MuxVal(u) /\ Cfg(u)' = Cfg(u)
        /\ u # t => call[u].at = "write"
    BY <1>1 DEF DriverInv, TypeOK, Call, Pin, MuxVal, Cfg
  <2>2. QED
    BY <2>1, <1>4 DEF DriverInv, WriteChecked, MuxLegal
<1>6. QED
  BY <1>3, <1>5 DEF DriverInv

LEMMA MuxWriteInv ==
  ASSUME DriverInv, NEW t \in Threads, MuxWrite(t)
  PROVE  DriverInv'
<1> DEFINE k == call[t]
           new == [k EXCEPT !.at = "loop", !.i = k.i + 1]
<1>1. /\ k \in Call /\ k.op = "set_mux" /\ k.at = "write"
      /\ k.i \in 1..Len(k.pins) /\ Len(k.vals) = Len(k.pins)
  BY DEF MuxWrite, AtWrite, DriverInv, TypeOK, Call
<1>2. Pin(t) \in Pins /\ MuxVal(t) \in Nat
  BY <1>1 DEF Pin, MuxVal, Call
<1>3. new \in Call /\ new.op = "set_mux" /\ new.vals = k.vals
      /\ new.pins = k.pins /\ new.at = "loop"
  BY <1>1, NextIndex
<1>4. call' = [call EXCEPT ![t] = new]
  BY DEF MuxWrite, DriverInv, TypeOK, Call
<1>5. regs' \in [Pins -> Word]
  BY <1>2, WordOps DEF MuxWrite, DriverInv, TypeOK
<1>6. val' \in [Threads -> Word]
  BY DEF MuxWrite, DriverInv, TypeOK, Word, ResetWord
<1> HIDE DEF new
<1>7. QED
  BY <1>1, <1>3, <1>4, <1>5, <1>6
     DEF DriverInv, TypeOK, WriteChecked, Pin, MuxVal, Cfg

LEMMA ConfigWriteInv ==
  ASSUME DriverInv, NEW t \in Threads, ConfigWrite(t)
  PROVE  DriverInv'
<1> DEFINE k == call[t]
           new == IF k.j < Len(k.cfgs)
                  THEN [k EXCEPT !.at = "loop", !.j = k.j + 1]
                  ELSE [k EXCEPT !.at = "loop", !.i = k.i + 1, !.j = 1]
<1>1. /\ k \in Call /\ k.op = "pinconf_set" /\ k.at = "write"
      /\ k.i \in 1..Len(k.pins) /\ k.j \in 1..Len(k.cfgs)
  BY DEF ConfigWrite, AtWrite, DriverInv, TypeOK, Call
<1>2. Pin(t) \in Pins /\ Cfg(t) \in Config /\ Cfg(t).param \in ControlBits
  BY <1>1 DEF Pin, Cfg, Call, DriverInv, WriteChecked
<1>3. new \in Call /\ new.op = "pinconf_set" /\ new.cfgs = k.cfgs
      /\ new.pins = k.pins /\ new.at = "loop" /\ new.j <= Len(new.cfgs)
  <2>0. k.j + 1 <= Len(k.cfgs) \/ ~(k.j < Len(k.cfgs))
    BY <1>1
  <2>1. CASE k.j < Len(k.cfgs)
    BY <1>1, <2>0, <2>1, NextIndex
  <2>2. CASE ~(k.j < Len(k.cfgs))
    <3>1. new = [k EXCEPT !.at = "loop", !.i = k.i + 1, !.j = 1]
      BY <2>2
    <3>2. 1 <= Len(k.cfgs)
      BY <1>1 DEF Call
    <3>3. QED
      BY <1>1, <3>1, <3>2, NextIndex
  <2>3. QED
    BY <2>1, <2>2
<1>4. call' = [call EXCEPT ![t] = new]
  <2>1. CASE k.j < Len(k.cfgs)
    BY <1>1, <2>1 DEF ConfigWrite, DriverInv, TypeOK, Call
  <2>2. CASE k.j >= Len(k.cfgs)
    <3>1. ~(k.j < Len(k.cfgs))
      BY <1>1, <2>2
    <3>2. call' = [call EXCEPT ![t].at = "loop", ![t].i = @ + 1, ![t].j = 1]
      BY <3>1 DEF ConfigWrite
    <3>3. QED
      BY <3>1, <3>2 DEF DriverInv, TypeOK, Call
  <2>3. QED
    BY <1>1, <2>1, <2>2 DEF Call
<1>5. regs' \in [Pins -> Word]
  BY <1>2, WordOps DEF ConfigWrite, DriverInv, TypeOK
<1>6. val' \in [Threads -> Word]
  BY DEF ConfigWrite, DriverInv, TypeOK, Word, ResetWord
<1> HIDE DEF new
<1>7. QED
  BY <1>1, <1>3, <1>4, <1>5, <1>6
     DEF DriverInv, TypeOK, WriteChecked, Pin, MuxVal, Cfg

LEMMA ReturnWithInv ==
  ASSUME DriverInv, NEW t \in Threads,
         NEW r \in {"ok", "EINVAL", "ENOTSUPP"}, ReturnWith(t, r)
  PROVE  DriverInv'
<1> DEFINE k == call[t]
           new == [k EXCEPT !.at = "ret", !.ret = r]
<1>1. k \in Call
  BY DEF DriverInv, TypeOK
<1>2. new \in Call /\ new.op = k.op /\ new.pins = k.pins /\ new.vals = k.vals
      /\ new.cfgs = k.cfgs /\ new.j = k.j /\ new.at = "ret"
  BY <1>1 DEF Call
<1>3. call' = [call EXCEPT ![t] = new]
  BY DEF ReturnWith, DriverInv, TypeOK, Call
<1> HIDE DEF new
<1>4. TypeOK'
  <2>1. regs' \in [Pins -> Word] /\ val' \in [Threads -> Word]
    BY DEF ReturnWith, DriverInv, TypeOK
  <2>2. call' \in [Threads -> Call]
    BY <1>2, <1>3 DEF DriverInv, TypeOK
  <2>3. \A u \in Threads : call'[u] = IF u = t THEN new ELSE call[u]
    BY <1>3 DEF DriverInv, TypeOK
  <2>4. \A u \in Threads :
          /\ call[u].op = "set_mux" => Len(call[u].vals) = Len(call[u].pins)
          /\ call[u].op = "pinconf_set" => call[u].j <= Len(call[u].cfgs)
          /\ call[u].at = "write" => call[u].i <= Len(call[u].pins)
    BY DEF DriverInv, TypeOK
  <2>5. ASSUME NEW u \in Threads
        PROVE  /\ call'[u].op = "set_mux" => Len(call'[u].vals) = Len(call'[u].pins)
               /\ call'[u].op = "pinconf_set" => call'[u].j <= Len(call'[u].cfgs)
               /\ call'[u].at = "write" => call'[u].i <= Len(call'[u].pins)
    <3>1. CASE u = t
      BY <1>2, <2>3, <2>4, <3>1
    <3>2. CASE u # t
      BY <2>3, <2>4, <3>2
    <3>3. QED
      BY <3>1, <3>2
  <2>6. QED
    BY <2>1, <2>2, <2>5 DEF TypeOK
<1>5. WriteChecked'
  <2>1. \A u \in Threads : call'[u] = IF u = t THEN new ELSE call[u]
    BY <1>3 DEF DriverInv, TypeOK
  <2>2. QED
    BY <1>2, <2>1 DEF DriverInv, WriteChecked, Pin, MuxVal, Cfg
<1>6. QED
  BY <1>4, <1>5 DEF DriverInv

LEMMA DriverStepInv ==
  ASSUME DriverInv, NEW t \in Threads, DriverStep(t)
  PROVE  DriverInv'
<1>1. CASE MuxReject(t)
  BY <1>1, ReturnWithInv DEF MuxReject
<1>2. CASE MuxRead(t) \/ ConfigRead(t)
  BY <1>2, ReadInv
<1>3. CASE MuxWrite(t)
  BY <1>3, MuxWriteInv
<1>4. CASE ConfigReject(t)
  BY <1>4, ReturnWithInv DEF ConfigReject
<1>5. CASE ConfigWrite(t)
  BY <1>5, ConfigWriteInv
<1>6. CASE CallDone(t)
  BY <1>6, ReturnWithInv DEF CallDone
<1>7. QED
  BY <1>1, <1>2, <1>3, <1>4, <1>5, <1>6 DEF DriverStep

-----------------------------------------------------------------------------
LEMMA DriverNextInv == DriverInv /\ [Next]_driverVars => DriverInv'
<1> SUFFICES ASSUME DriverInv, [Next]_driverVars PROVE DriverInv'
  OBVIOUS
<1>1. CASE UNCHANGED driverVars
  BY <1>1 DEF driverVars, DriverInv, TypeOK, WriteChecked, Pin, MuxVal, Cfg
<1>2. ASSUME NEW t \in Threads, Enter(t) PROVE DriverInv'
  <2>1. CASE \E f \in Functions, g \in Groups : SetMux(t, f, g)
    BY <2>1, SetMuxInv
  <2>2. CASE \E p \in Pins, cl \in ConfigLists : PinconfSet(t, <<p>>, cl)
    <3>1. \A p \in Pins : <<p>> \in Seq(Pins)
      OBVIOUS
    <3>2. QED
      BY <2>2, <3>1, PinconfSetInv
  <2>3. CASE \E g \in Groups, cl \in ConfigLists :
               PinconfSet(t, GroupPins[g], cl)
    BY <2>3, PinconfSetInv, TableAssumption
  <2>4. QED
    BY <1>2, <2>1, <2>2, <2>3 DEF Enter
<1>3. ASSUME NEW t \in Threads, DriverStep(t) PROVE DriverInv'
  BY <1>3, DriverStepInv
<1>4. ASSUME NEW t \in Threads, Return(t) PROVE DriverInv'
  BY <1>4, ReturnInv
<1>5. QED
  BY <1>1, <1>2, <1>3, <1>4 DEF Next

\* Type correctness: for any tables and any callers, the registers hold words
\* and no call runs off the end of its pins, values or configs.
THEOREM TypeCorrect == Spec => []TypeOK
<1>1. DriverInit => DriverInv
  BY DriverInitInv
<1>2. DriverInv => TypeOK
  BY DEF DriverInv
<1>3. QED
  BY <1>1, <1>2, DriverNextInv, PTL DEF Spec

-----------------------------------------------------------------------------
(***************************************************************************)
(* SrcLegal.  A stale value that is written back carries a source, so the  *)
(* invariant must also speak of the values that threads hold, and of the   *)
(* table rows that calls in progress work from.                            *)
(***************************************************************************)
LegalSrc(p, s) == s = 0 \/ (s <= NAlts /\ Declared(p, s))

FromTables(k) ==
  \E f \in Functions : \E g \in DOMAIN MuxVals[f] :
    Listed(f, g) /\ k.pins = GroupPins[g] /\ k.vals = MuxVals[f][g]

SrcInv ==
  /\ SrcLegal
  /\ \A t \in Threads :
       /\ call[t].at = "write" => LegalSrc(Pin(t), val[t].src)
       /\ call[t].op = "set_mux" /\ call[t].at \in {"loop", "write"}
            => FromTables(call[t])

\* The source that a checked set_mux writes is declared for its pin.
LEMMA DeclaredByTables ==
  ASSUME NEW k \in Call, FromTables(k), NEW x \in 1..Len(k.pins)
  PROVE  Declared(k.pins[x], k.vals[x])
<1>1. PICK f \in Functions : \E g \in DOMAIN MuxVals[f] :
        Listed(f, g) /\ k.pins = GroupPins[g] /\ k.vals = MuxVals[f][g]
  BY DEF FromTables
<1>2. PICK g \in DOMAIN MuxVals[f] :
        Listed(f, g) /\ k.pins = GroupPins[g] /\ k.vals = MuxVals[f][g]
  BY <1>1
<1>3. QED
  BY <1>2 DEF Declared

\* What a step must establish when it changes only the call of thread t.
LEMMA SrcInvOfCall ==
  ASSUME DriverInv, SrcInv, NEW t \in Threads, NEW new \in Call,
         call' = [call EXCEPT ![t] = new], regs' = regs, val' = val,
         new.at # "write",
         new.op = "set_mux" /\ new.at = "loop" => FromTables(new)
  PROVE  SrcInv'
<1>1. \A u \in Threads : call'[u] = IF u = t THEN new ELSE call[u]
  BY DEF DriverInv, TypeOK
<1>2. SrcLegal'
  BY DEF SrcInv, SrcLegal
<1>3. QED
  BY <1>1, <1>2 DEF SrcInv, Pin

LEMMA SetMuxSrc ==
  ASSUME DriverInv, SrcInv, NEW t \in Threads, NEW f \in Functions,
         NEW g \in Groups, SetMux(t, f, g)
  PROVE  SrcInv'
<1>1. NoCall \in Call
  BY DEF NoCall, Call
<1>2. CASE Listed(f, g)
  <2> DEFINE new == [NoCall EXCEPT !.at = "loop", !.pins = GroupPins[g],
                                   !.vals = MuxVals[f][g]]
  <2>1. GroupPins[g] \in Seq(Pins) /\ MuxVals[f][g] \in Seq(Nat)
        /\ g \in DOMAIN MuxVals[f]
    BY <1>2, TableAssumption DEF Listed
  <2>2. new \in Call /\ new.at = "loop" /\ new.pins = GroupPins[g]
        /\ new.vals = MuxVals[f][g]
    BY <1>1, <2>1 DEF NoCall, Call
  <2>3. call' = [call EXCEPT ![t] = new] /\ regs' = regs /\ val' = val
    BY <1>2 DEF SetMux
  <2> HIDE DEF new
  <2>4. FromTables(new)
    BY <1>2, <2>1, <2>2 DEF FromTables
  <2>5. QED
    BY <2>2, <2>3, <2>4, SrcInvOfCall
<1>3. CASE ~Listed(f, g)
  <2> DEFINE new == [NoCall EXCEPT !.at = "ret", !.ret = "EINVAL"]
  <2>1. new \in Call /\ new.at = "ret"
    BY <1>1 DEF NoCall, Call
  <2>2. call' = [call EXCEPT ![t] = new] /\ regs' = regs /\ val' = val
    BY <1>3 DEF SetMux
  <2> HIDE DEF new
  <2>3. QED
    BY <2>1, <2>2, SrcInvOfCall
<1>4. QED
  BY <1>2, <1>3

LEMMA PinconfSetSrc ==
  ASSUME DriverInv, SrcInv, NEW t \in Threads, NEW ps \in Seq(Pins),
         NEW cl \in ConfigLists, PinconfSet(t, ps, cl)
  PROVE  SrcInv'
<1> DEFINE new == [NoCall EXCEPT !.op = "pinconf_set", !.at = "loop",
                                 !.pins = ps, !.cfgs = cl]
<1>1. cl \in Seq(Config) /\ NoCall \in Call
  BY TableAssumption DEF NoCall, Call
<1>2. new \in Call /\ new.op = "pinconf_set" /\ new.at = "loop"
  BY <1>1 DEF NoCall, Call
<1>3. call' = [call EXCEPT ![t] = new] /\ regs' = regs /\ val' = val
  BY DEF PinconfSet
<1> HIDE DEF new
<1>4. QED
  BY <1>2, <1>3, SrcInvOfCall

LEMMA ReturnSrc ==
  ASSUME DriverInv, SrcInv, NEW t \in Threads, Return(t)
  PROVE  SrcInv'
<1>1. NoCall \in Call /\ NoCall.at = "idle"
  BY DEF NoCall, Call
<1>2. QED
  BY <1>1, SrcInvOfCall DEF Return

LEMMA ReturnWithSrc ==
  ASSUME DriverInv, SrcInv, NEW t \in Threads,
         NEW r \in {"ok", "EINVAL", "ENOTSUPP"}, ReturnWith(t, r)
  PROVE  SrcInv'
<1> DEFINE new == [call[t] EXCEPT !.at = "ret", !.ret = r]
<1>1. new \in Call /\ new.at = "ret"
  BY DEF DriverInv, TypeOK, Call
<1>2. call' = [call EXCEPT ![t] = new] /\ regs' = regs /\ val' = val
  BY DEF ReturnWith, DriverInv, TypeOK, Call
<1> HIDE DEF new
<1>3. QED
  BY <1>1, <1>2, SrcInvOfCall

LEMMA ReadSrc ==
  ASSUME DriverInv, SrcInv, NEW t \in Threads, MuxRead(t) \/ ConfigRead(t)
  PROVE  SrcInv'
<1>1. /\ call[t].at = "loop" /\ call[t].i \in 1..Len(call[t].pins)
      /\ call' = [call EXCEPT ![t].at = "write"]
      /\ regs' = regs /\ val' = [val EXCEPT ![t] = regs[Pin(t)]]
  BY DEF MuxRead, ConfigRead, InLoop, ReadReg, DriverInv, TypeOK, Call
<1>2. Pin(t) \in Pins
  BY <1>1 DEF Pin, DriverInv, TypeOK, Call
<1>3. \A u \in Threads :
        /\ call'[u].op = call[u].op /\ call'[u].pins = call[u].pins
        /\ call'[u].vals = call[u].vals /\ call'[u].i = call[u].i
        /\ u # t => call'[u].at = call[u].at
  BY <1>1 DEF DriverInv, TypeOK, Call
<1>4. SrcLegal'
  BY <1>1 DEF SrcInv, SrcLegal
<1>5. ASSUME NEW u \in Threads, call'[u].at = "write"
      PROVE  LegalSrc(Pin(u)', val'[u].src)
  <2>1. CASE u = t
    <3>1. val'[t] = regs[Pin(t)] /\ Pin(t)' = Pin(t)
      BY <1>1, <1>3 DEF DriverInv, TypeOK, Pin
    <3>2. QED
      BY <1>2, <2>1, <3>1 DEF SrcInv, SrcLegal, LegalSrc
  <2>2. CASE u # t
    <3>1. val'[u] = val[u] /\ Pin(u)' = Pin(u) /\ call[u].at = "write"
      BY <1>1, <1>3, <1>5, <2>2 DEF DriverInv, TypeOK, Pin
    <3>2. QED
      BY <3>1 DEF SrcInv
  <2>3. QED
    BY <2>1, <2>2
<1>6. ASSUME NEW u \in Threads, call'[u].op = "set_mux",
             call'[u].at \in {"loop", "write"}
      PROVE  FromTables(call'[u])
  <2>1. call[u].op = "set_mux" /\ call[u].at \in {"loop", "write"}
    BY <1>1, <1>3, <1>6
  <2>2. FromTables(call[u])
    BY <2>1 DEF SrcInv
  <2>3. QED
    BY <1>3, <2>2 DEF FromTables
<1>7. QED
  BY <1>4, <1>5, <1>6 DEF SrcInv, LegalSrc, Declared

\* What the two write-backs have in common.
LEMMA WriteSrc ==
  ASSUME DriverInv, SrcInv, NEW t \in Threads, NEW w \in Word, NEW new \in Call,
         call[t].at = "write",
         LegalSrc(Pin(t), w.src),
         regs' = [regs EXCEPT ![Pin(t)] = w],
         val' = [val EXCEPT ![t] = ResetWord],
         call' = [call EXCEPT ![t] = new],
         new.at = "loop", new.op = call[t].op, new.pins = call[t].pins,
         new.vals = call[t].vals
  PROVE  SrcInv'
<1>1. Pin(t) \in Pins
  BY DEF DriverInv, TypeOK, Pin, Call
<1>2. SrcLegal'
  <2>1. \A p \in Pins : regs'[p] = IF p = Pin(t) THEN w ELSE regs[p]
    BY <1>1 DEF DriverInv, TypeOK
  <2>2. \A p \in Pins : LegalSrc(p, regs'[p].src)
    BY <2>1 DEF SrcInv, SrcLegal, LegalSrc
  <2>3. QED
    BY <2>2 DEF SrcLegal, LegalSrc, Declared
<1>3. \A u \in Threads : call'[u] = IF u = t THEN new ELSE call[u]
  BY DEF DriverInv, TypeOK
<1>4. ASSUME NEW u \in Threads, call'[u].at = "write"
      PROVE  LegalSrc(Pin(u)', val'[u].src)
  <2>1. u # t
    BY <1>3, <1>4
  <2>2. call[u].at = "write" /\ Pin(u)' = Pin(u) /\ val'[u] = val[u]
    BY <1>3, <1>4, <2>1 DEF Pin, DriverInv, TypeOK
  <2>3. QED
    BY <2>2 DEF SrcInv
<1>5. ASSUME NEW u \in Threads, call'[u].op = "set_mux",
             call'[u].at \in {"loop", "write"}
      PROVE  FromTables(call'[u])
  <2>1. call[u].op = "set_mux" /\ call[u].at \in {"loop", "write"}
        /\ call'[u].pins = call[u].pins /\ call'[u].vals = call[u].vals
    BY <1>3, <1>5
  <2>2. QED
    BY <2>1 DEF SrcInv, FromTables
<1>6. QED
  BY <1>2, <1>4, <1>5 DEF SrcInv, LegalSrc, Declared

LEMMA MuxWriteSrc ==
  ASSUME DriverInv, SrcInv, NEW t \in Threads, MuxWrite(t)
  PROVE  SrcInv'
<1> DEFINE k == call[t]
           w == SetSrc(val[t], MuxVal(t))
           new == [k EXCEPT !.at = "loop", !.i = k.i + 1]
<1>1. /\ k \in Call /\ k.op = "set_mux" /\ k.at = "write" /\ val[t] \in Word
      /\ k.i \in 1..Len(k.pins) /\ Len(k.vals) = Len(k.pins)
  BY DEF MuxWrite, AtWrite, DriverInv, TypeOK, Call
<1>2. MuxVal(t) \in Nat /\ MuxVal(t) <= NAlts /\ NAlts \in 1..15
  <2>1. MuxVal(t) \in Nat
    BY <1>1 DEF MuxVal, Call
  <2>2. MuxVal(t) <= NAlts
    BY <1>1 DEF DriverInv, WriteChecked, MuxLegal
  <2>3. QED
    BY <2>1, <2>2, TableAssumption DEF AXIMUX_MAX_ALTS
<1>3. w \in Word /\ w.src = MuxVal(t)
  <2>1. w \in Word /\ w.src = MuxVal(t) % 16
    BY <1>1, <1>2, WordOps
  <2>2. QED
    BY <1>2, <2>1
<1>4. LegalSrc(Pin(t), w.src)
  <2>1. FromTables(k)
    BY <1>1 DEF SrcInv
  <2>2. Declared(Pin(t), MuxVal(t))
    BY <1>1, <2>1, DeclaredByTables DEF Pin, MuxVal
  <2>3. QED
    BY <1>2, <1>3, <2>2 DEF LegalSrc
<1>5. new \in Call /\ new.at = "loop" /\ new.op = k.op /\ new.pins = k.pins
      /\ new.vals = k.vals
  BY <1>1, NextIndex
<1>6. call' = [call EXCEPT ![t] = new] /\ regs' = [regs EXCEPT ![Pin(t)] = w]
      /\ val' = [val EXCEPT ![t] = ResetWord]
  BY DEF MuxWrite, DriverInv, TypeOK, Call
<1> HIDE DEF w, new
<1>7. QED
  BY <1>1, <1>3, <1>4, <1>5, <1>6, WriteSrc

LEMMA ConfigWriteSrc ==
  ASSUME DriverInv, SrcInv, NEW t \in Threads, ConfigWrite(t)
  PROVE  SrcInv'
<1> DEFINE k == call[t]
           w == SetControl(val[t], Cfg(t))
           nextCfg == [k EXCEPT !.at = "loop", !.j = k.j + 1]
           nextPin == [k EXCEPT !.at = "loop", !.i = k.i + 1, !.j = 1]
<1>1. /\ k \in Call /\ k.op = "pinconf_set" /\ k.at = "write"
      /\ val[t] \in Word /\ k.j \in 1..Len(k.cfgs)
  BY DEF ConfigWrite, AtWrite, DriverInv, TypeOK, Call
<1>2. Cfg(t) \in Config /\ Cfg(t).param \in ControlBits
  BY <1>1 DEF Cfg, Call, DriverInv, WriteChecked
<1>3. w \in Word /\ w.src = val[t].src
  BY <1>1, <1>2, WordOps
<1>4. LegalSrc(Pin(t), w.src)
  BY <1>1, <1>3 DEF SrcInv
<1>5. regs' = [regs EXCEPT ![Pin(t)] = w] /\ val' = [val EXCEPT ![t] = ResetWord]
  BY DEF ConfigWrite
<1>6. CASE call' = [call EXCEPT ![t].at = "loop", ![t].j = @ + 1]
  <2>1. call' = [call EXCEPT ![t] = nextCfg]
    BY <1>6 DEF DriverInv, TypeOK, Call
  <2>2. nextCfg \in Call /\ nextCfg.at = "loop" /\ nextCfg.op = k.op
        /\ nextCfg.pins = k.pins /\ nextCfg.vals = k.vals
    BY <1>1, NextIndex
  <2> HIDE DEF nextCfg, w
  <2>3. QED
    BY <1>1, <1>3, <1>4, <1>5, <2>1, <2>2, WriteSrc
<1>7. CASE call' = [call EXCEPT ![t].at = "loop", ![t].i = @ + 1, ![t].j = 1]
  <2>1. call' = [call EXCEPT ![t] = nextPin]
    BY <1>7 DEF DriverInv, TypeOK, Call
  <2>2. nextPin \in Call /\ nextPin.at = "loop" /\ nextPin.op = k.op
        /\ nextPin.pins = k.pins /\ nextPin.vals = k.vals
    BY <1>1, NextIndex
  <2> HIDE DEF nextPin, w
  <2>3. QED
    BY <1>1, <1>3, <1>4, <1>5, <2>1, <2>2, WriteSrc
<1>8. QED
  BY <1>6, <1>7 DEF ConfigWrite

LEMMA DriverStepSrc ==
  ASSUME DriverInv, SrcInv, NEW t \in Threads, DriverStep(t)
  PROVE  SrcInv'
<1>1. CASE MuxReject(t)
  BY <1>1, ReturnWithSrc DEF MuxReject
<1>2. CASE MuxRead(t) \/ ConfigRead(t)
  BY <1>2, ReadSrc
<1>3. CASE MuxWrite(t)
  BY <1>3, MuxWriteSrc
<1>4. CASE ConfigReject(t)
  BY <1>4, ReturnWithSrc DEF ConfigReject
<1>5. CASE ConfigWrite(t)
  BY <1>5, ConfigWriteSrc
<1>6. CASE CallDone(t)
  BY <1>6, ReturnWithSrc DEF CallDone
<1>7. QED
  BY <1>1, <1>2, <1>3, <1>4, <1>5, <1>6 DEF DriverStep

LEMMA InitSrc == DriverInit => SrcInv
BY DEF DriverInit, SrcInv, SrcLegal, NoCall, ResetWord

LEMMA SrcNextInv ==
  ASSUME DriverInv, SrcInv, [Next]_driverVars
  PROVE  SrcInv'
<1>1. CASE UNCHANGED driverVars
  BY <1>1 DEF driverVars, SrcInv, SrcLegal, Pin
<1>2. ASSUME NEW t \in Threads, Enter(t) PROVE SrcInv'
  <2>1. CASE \E f \in Functions, g \in Groups : SetMux(t, f, g)
    BY <2>1, SetMuxSrc
  <2>2. CASE \E p \in Pins, cl \in ConfigLists : PinconfSet(t, <<p>>, cl)
    <3>1. \A p \in Pins : <<p>> \in Seq(Pins)
      OBVIOUS
    <3>2. QED
      BY <2>2, <3>1, PinconfSetSrc
  <2>3. CASE \E g \in Groups, cl \in ConfigLists : PinconfSet(t, GroupPins[g], cl)
    BY <2>3, PinconfSetSrc, TableAssumption
  <2>4. QED
    BY <1>2, <2>1, <2>2, <2>3 DEF Enter
<1>3. ASSUME NEW t \in Threads, DriverStep(t) PROVE SrcInv'
  BY <1>3, DriverStepSrc
<1>4. ASSUME NEW t \in Threads, Return(t) PROVE SrcInv'
  BY <1>4, ReturnSrc
<1>5. QED
  BY <1>1, <1>2, <1>3, <1>4 DEF Next

\* For any tables and any callers: a signal is only ever routed to its reset
\* source or to a source that the tables declare for it and that the hardware
\* has, lost updates of the unlocked read-modify-writes included.
THEOREM SourcesLegal == Spec => []SrcLegal
<1>1. DriverInit => DriverInv /\ SrcInv
  BY DriverInitInv, InitSrc
<1>2. DriverInv /\ SrcInv /\ [Next]_driverVars => SrcInv'
  BY SrcNextInv
<1>3. DriverInv /\ [Next]_driverVars => DriverInv'
  BY DriverNextInv
<1>4. SrcInv => SrcLegal
  BY DEF SrcInv
<1>5. QED
  BY <1>1, <1>2, <1>3, <1>4, PTL DEF Spec
=============================================================================
