------------------------------ MODULE Ch36xSpi_proofs ------------------------------
(***************************************************************************)
(* Proofs about SPI transfers, for any number of threads, any bound on     *)
(* the lengths and any set of modes, whenever the device disappears.       *)
(***************************************************************************)
EXTENDS Ch36xSpi, TLAPS

\* io_mutex is held from mutex_lock to mutex_unlock.
Outside == {"idle", "lock_stream", "lock_mode", "lock_port"}
Exclusive == \A t \in Threads : pc[t] \notin Outside => mutex = t

\* What start_spi has read from GPOR is good until stop_spi has used it.
Reading == {"deselect", "select", "check", "out", "in", "stop_ctrl", "stop_gpor"}

\* How far t's transfer has come, as long as the device answers.
Transfer(t) ==
  /\ pc[t] \in Reading => ("keep" \in regGPOR[t]) = kept
  /\ pc[t] \in {"gpor", "deselect", "select", "check", "out", "in"}
       => spicr = {"newtran"} \union spimode
  /\ pc[t] = "select" => "scs" \in gpor
  /\ pc[t] = "check" => frame = [by |-> t, outs |-> 0, ins |-> 0]
  /\ pc[t] = "out" => /\ frame = [by |-> t, outs |-> moved[t], ins |-> 0]
                      /\ moved[t] <= len[t].out
  /\ pc[t] = "in"  => /\ frame = [by |-> t, outs |-> len[t].out, ins |-> moved[t]]
                      /\ moved[t] <= len[t].in
  /\ pc[t] = "stop_ctrl" => frame = [by |-> t, outs |-> len[t].out, ins |-> len[t].in]
  /\ pc[t] \in {"stop_gpor", "copy_out"} => "newtran" \notin spicr
  /\ pc[t] = "copy_out" => "scs" \in gpor

\* The inductive invariant.
SpiInv ==
  /\ TypeOK
  /\ Exclusive
  /\ alive => ("keep" \in gpor) = kept
  /\ alive => \A t \in Threads : Transfer(t)

-----------------------------------------------------------------------------
\* The mutex excludes: whoever is inside is alone there.
LEMMA Alone ==
  ASSUME Exclusive, NEW t \in Threads, pc[t] \notin Outside, NEW u \in Threads, u # t
  PROVE  pc[u] \in Outside
BY DEF Exclusive

\* A thread outside has no transfer under way.
LEMMA OutsideTransfer ==
  ASSUME NEW t \in Threads, pc[t] \in Outside
  PROVE  Transfer(t)
BY DEF Outside, Transfer, Reading

\* So a step of a thread that is inside, or gets inside, only has to keep its own transfer.
LEMMA OthersTransfer ==
  ASSUME TypeOK, Exclusive, NEW t \in Threads, pc[t] \notin Outside,
         \A u \in Threads \ {t} : pc'[u] = pc[u]
  PROVE  \A u \in Threads \ {t} : Transfer(u)'
<1> TAKE u \in Threads \ {t}
<1>1. pc'[u] \in Outside
  BY Alone
<1> QED BY <1>1 DEF Outside, Transfer, Reading

\* Probe leaves the mutex free and nobody inside.
LEMMA InitInv == Init => SpiInv
BY MaxLenAssumption, NoThreadAssumption
DEF Init, SpiInv, TypeOK, Exclusive, Transfer, Reading, Outside, PCs, NoFrame,
    GporBits, SpicrBits, ModeBits

\* A write to GPOR leaves GPOR and the frame well typed.
LEMMA WriteGporType ==
  ASSUME TypeOK, NEW t \in Threads, NEW bits \in SUBSET GporBits, WriteGpor(t, bits)
  PROVE  /\ gpor' \in SUBSET GporBits
         /\ frame' \in [by : Threads \union {NoThread}, outs : 0..MaxLen, ins : 0..MaxLen]
BY MaxLenAssumption DEF WriteGpor, TypeOK, NoFrame

-----------------------------------------------------------------------------
\* The start of a call, and the wait for the mutex, do nothing to a transfer.
LEMMA EntryStep ==
  ASSUME SpiInv, NEW t \in Threads, Call(t) \/ Locking(t)
  PROVE  SpiInv'
<1> USE DEF SpiInv, TypeOK, PCs, Goto, chipVars, threadVars, history
<1>1. /\ UNCHANGED <<chipVars, spimode, len, moved, regGPOR, retval, history>>
      /\ pc[t] \in Outside
      /\ \E to \in {"lock_stream", "lock_mode", "lock_port", "copy_in", "mode", "port"} :
           pc' = [pc EXCEPT ![t] = to]
      /\ \/ mutex' = mutex /\ pc'[t] \in Outside
         \/ mutex = NoThread /\ mutex' = t
  BY DEF Call, Locking, CallStream, CallSetStream, CallWriteGpor, LockStream, LockMode,
         LockPort, Lock, Outside
<1>2. TypeOK'
  BY <1>1
<1>3. Exclusive'
  BY <1>1, NoThreadAssumption DEF Exclusive
<1>4. alive' => \A u \in Threads : Transfer(u)'
  BY <1>1 DEF Transfer, Reading, Outside
<1> QED BY <1>1, <1>2, <1>3, <1>4

\* The end of a call, SET_STREAM, and a client's own write to GPOR.
LEMMA PlainStep ==
  ASSUME SpiInv, NEW t \in Threads, Unlock(t) \/ SetStream(t) \/ PortWrite(t)
  PROVE  SpiInv'
<1> USE DEF SpiInv, TypeOK, PCs, Goto, chipVars, threadVars, history
<1>1. /\ pc[t] \notin Outside
      /\ \A u \in Threads \ {t} : pc'[u] = pc[u]
  BY DEF Unlock, SetStream, PortWrite, Outside
<1>2. \A u \in Threads \ {t} : Transfer(u)'
  BY <1>1, OthersTransfer
<1>3. CASE Unlock(t)
  BY <1>1, <1>2, <1>3, MaxLenAssumption, NoThreadAssumption, Alone
  DEF Unlock, Exclusive, Outside, Transfer, Reading
<1>4. CASE SetStream(t)
  BY <1>1, <1>2, <1>4, ModesAssumption DEF SetStream, Exclusive, Outside, Transfer, Reading
<1>5. CASE PortWrite(t)
  <2> PICK bits \in SUBSET GporBits : WriteGpor(t, bits)
    BY <1>5 DEF PortWrite
  <2>1. TypeOK'
    BY <1>5, WriteGporType DEF PortWrite
  <2> QED
    BY <1>1, <1>2, <1>5, <2>1 DEF PortWrite, Exclusive, Outside, Transfer, Reading
<1> QED BY <1>3, <1>4, <1>5

\* A step of start_spi: it ends with the peripheral selected anew, or gives up.
LEMMA StartingStep ==
  ASSUME SpiInv, NEW t \in Threads, Starting(t)
  PROVE  SpiInv'
<1> USE DEF SpiInv, PCs, Goto, chipVars, threadVars, history
<1>1. /\ pc[t] \notin Outside
      /\ \A u \in Threads \ {t} : pc'[u] = pc[u]
      /\ mutex' = mutex
  BY DEF Starting, CopyIn, StartCtrl, StartGpor, StartDeselect, StartSelect, StartCheck,
         Outside, TypeOK
<1>2. \A u \in Threads \ {t} : Transfer(u)'
  BY <1>1, OthersTransfer
<1>3. Exclusive'
  BY <1>1 DEF Exclusive
<1> USE DEF TypeOK
<1>4. CASE CopyIn(t)
  <2>1. len' \in [Threads -> [out : 0..MaxLen, in : 0..MaxLen]]
    BY <1>4 DEF CopyIn
  <2>2. pc'[t] \in {"ctrl", "unlock"} /\ pc' \in [Threads -> PCs]
    BY <1>4 DEF CopyIn
  <2>3. retval' \in [Threads -> {"ok", "fail"}]
    BY <1>4 DEF CopyIn
  <2>4. Transfer(t)'
    BY <2>2 DEF Transfer, Reading
  <2> QED BY <1>2, <1>3, <1>4, <2>1, <2>2, <2>3, <2>4 DEF CopyIn
<1>5. CASE StartCtrl(t)
  BY <1>2, <1>3, <1>5 DEF StartCtrl, WriteSpicr, Transfer, Reading, SpicrBits, ModeBits
<1>6. CASE StartGpor(t)
  BY <1>2, <1>3, <1>6 DEF StartGpor, Gpor, Transfer, Reading
<1>7. CASE StartDeselect(t)
  <2>1. TypeOK'
    BY <1>7, WriteGporType DEF StartDeselect, GporBits
  <2>2. ASSUME alive PROVE gpor' = regGPOR[t] \union {"scs"}
    BY <1>7, <2>2 DEF StartDeselect, WriteGpor
  <2>3. ASSUME alive PROVE ("keep" \in gpor') = kept' /\ Transfer(t)'
    BY <1>7, <2>2, <2>3 DEF StartDeselect, Transfer, Reading
  <2> QED
    BY <1>2, <1>3, <1>7, <2>1, <2>2, <2>3 DEF StartDeselect
<1>8. CASE StartSelect(t)
  <2>1. TypeOK'
    BY <1>8, WriteGporType DEF StartSelect, GporBits
  <2>2. ASSUME alive
        PROVE  /\ gpor' = regGPOR[t] \intersect {"keep"}
               /\ frame' = [by |-> t, outs |-> 0, ins |-> 0]
    BY <1>8, <2>2 DEF StartSelect, WriteGpor, Transfer
  <2>3. ASSUME alive PROVE ("keep" \in gpor') = kept' /\ Transfer(t)'
    BY <1>8, <2>2, <2>3 DEF StartSelect, Transfer, Reading
  <2> QED
    BY <1>2, <1>3, <1>8, <2>1, <2>2, <2>3 DEF StartSelect
<1>9. CASE StartCheck(t)
  BY <1>2, <1>3, <1>9, MaxLenAssumption DEF StartCheck, Gpor, GporBits, Transfer, Reading
<1> QED BY <1>4, <1>5, <1>6, <1>7, <1>8, <1>9 DEF Starting

\* A step of the two loops: the frame grows as the loop variable does.
LEMMA MovingStep ==
  ASSUME SpiInv, NEW t \in Threads, Moving(t)
  PROVE  SpiInv'
<1> USE DEF SpiInv, PCs, Goto, chipVars, threadVars, history
<1>1. /\ pc[t] \notin Outside
      /\ \A u \in Threads \ {t} : pc'[u] = pc[u]
      /\ UNCHANGED <<mutex, chipVars, spimode, len, regGPOR, retval, kept>>
  BY DEF Moving, ShiftOut, ShiftIn, Shift, OutDone, InDone, Outside, TypeOK
<1>2. \A u \in Threads \ {t} : Transfer(u)'
  BY <1>1, OthersTransfer
<1>3. Exclusive'
  BY <1>1 DEF Exclusive
<1>4. len[t].out \in 0..MaxLen /\ len[t].in \in 0..MaxLen /\ moved[t] \in 0..MaxLen
  BY DEF TypeOK
<1> USE DEF TypeOK
<1>5. CASE ShiftOut(t)
  <2>1. moved'[t] = moved[t] + 1 /\ moved'[t] <= len[t].out
    BY <1>4, <1>5 DEF ShiftOut, Shift
  <2>2. moved' \in [Threads -> 0..MaxLen]
    BY <1>4, <1>5, <2>1, MaxLenAssumption DEF ShiftOut, Shift
  <2>3. CASE alive
    <3>1. frame = [by |-> t, outs |-> moved[t], ins |-> 0]
      BY <1>5, <2>3 DEF ShiftOut, Transfer
    <3>2. frame' = [by |-> t, outs |-> moved'[t], ins |-> 0]
      BY <1>5, <2>1, <2>3, <3>1, NoThreadAssumption DEF ShiftOut, Shift
    <3>3. TypeOK'
      BY <1>1, <1>4, <1>5, <2>1, <2>2, <3>2, MaxLenAssumption DEF ShiftOut, Shift
    <3>4. Transfer(t)'
      BY <1>1, <1>5, <2>1, <2>3, <3>2 DEF ShiftOut, Shift, Transfer, Reading
    <3> QED BY <1>1, <1>2, <1>3, <3>3, <3>4
  <2>4. CASE ~alive
    BY <1>1, <1>3, <1>5, <2>2, <2>4 DEF ShiftOut, Shift
  <2> QED BY <2>3, <2>4
<1>6. CASE ShiftIn(t)
  <2>1. moved'[t] = moved[t] + 1 /\ moved'[t] <= len[t].in
    BY <1>4, <1>6 DEF ShiftIn, Shift
  <2>2. moved' \in [Threads -> 0..MaxLen]
    BY <1>4, <1>6, <2>1, MaxLenAssumption DEF ShiftIn, Shift
  <2>3. CASE alive
    <3>1. frame = [by |-> t, outs |-> len[t].out, ins |-> moved[t]]
      BY <1>6, <2>3 DEF ShiftIn, Transfer
    <3>2. frame' = [by |-> t, outs |-> len[t].out, ins |-> moved'[t]]
      BY <1>6, <2>1, <2>3, <3>1, NoThreadAssumption DEF ShiftIn, Shift
    <3>3. TypeOK'
      BY <1>1, <1>4, <1>6, <2>1, <2>2, <3>2, MaxLenAssumption DEF ShiftIn, Shift
    <3>4. Transfer(t)'
      BY <1>1, <1>6, <2>1, <2>3, <3>2 DEF ShiftIn, Shift, Transfer, Reading
    <3> QED BY <1>1, <1>2, <1>3, <3>3, <3>4
  <2>4. CASE ~alive
    BY <1>1, <1>3, <1>6, <2>2, <2>4 DEF ShiftIn, Shift
  <2> QED BY <2>3, <2>4
<1>7. CASE OutDone(t)
  BY <1>1, <1>2, <1>3, <1>4, <1>7, MaxLenAssumption DEF OutDone, Transfer, Reading
<1>8. CASE InDone(t)
  BY <1>1, <1>2, <1>3, <1>4, <1>8, MaxLenAssumption DEF InDone, Transfer, Reading
<1> QED BY <1>5, <1>6, <1>7, <1>8 DEF Moving

\* A step of stop_spi, and the copy back.
LEMMA StoppingStep ==
  ASSUME SpiInv, NEW t \in Threads, Stopping(t)
  PROVE  SpiInv'
<1> USE DEF SpiInv, PCs, Goto, chipVars, threadVars, history
<1>1. /\ pc[t] \notin Outside
      /\ \A u \in Threads \ {t} : pc'[u] = pc[u]
      /\ mutex' = mutex
  BY DEF Stopping, StopCtrl, StopGpor, CopyOut, Outside, TypeOK
<1>2. \A u \in Threads \ {t} : Transfer(u)'
  BY <1>1, OthersTransfer
<1>3. Exclusive'
  BY <1>1 DEF Exclusive
<1> USE DEF TypeOK
<1>4. CASE StopCtrl(t)
  BY <1>2, <1>3, <1>4 DEF StopCtrl, WriteSpicr, Transfer, Reading
<1>5. CASE StopGpor(t)
  <2>1. TypeOK'
    BY <1>5, WriteGporType DEF StopGpor, GporBits
  <2>2. ASSUME alive PROVE gpor' = (regGPOR[t] \intersect {"keep"}) \union {"scs"}
    BY <1>5, <2>2 DEF StopGpor, WriteGpor
  <2>3. ASSUME alive PROVE ("keep" \in gpor') = kept' /\ Transfer(t)'
    BY <1>5, <2>2, <2>3 DEF StopGpor, Transfer, Reading
  <2> QED
    BY <1>2, <1>3, <1>5, <2>1, <2>2, <2>3 DEF StopGpor
<1>6. CASE CopyOut(t)
  BY <1>2, <1>3, <1>6 DEF CopyOut, Transfer, Reading
<1> QED BY <1>4, <1>5, <1>6 DEF Stopping

\* The invariant survives every step.
LEMMA StepInv == SpiInv /\ [Next]_vars => SpiInv'
<1> SUFFICES ASSUME SpiInv, [Next]_vars PROVE SpiInv'
  OBVIOUS
<1>1. CASE UNCHANGED vars
  BY <1>1 DEF vars, chipVars, threadVars, history, SpiInv, TypeOK, Exclusive, Transfer
<1>2. CASE Vanish
  BY <1>2 DEF Vanish, threadVars, history, SpiInv, TypeOK, Exclusive
<1> QED
  BY <1>1, <1>2, EntryStep, PlainStep, StartingStep, MovingStep, StoppingStep DEF Next, Running

-----------------------------------------------------------------------------
\* The mutex excludes and each transfer is where its thread believes it is.
THEOREM SpiInvariant == Spec => []SpiInv
BY InitInv, StepInv, PTL DEF Spec

\* Every variable keeps its type; the loop counters and what the peripheral
\* sees never pass the lengths the client asked for.
THEOREM SpiTypeCorrect == Spec => []TypeOK
<1>1. SpiInv => TypeOK
  BY DEF SpiInv
<1> QED BY <1>1, SpiInvariant, PTL

\* A transfer on a device that is there is one frame of its own, whatever the
\* other clients do and however they left GPOR.
THEOREM SpiFrameIntact == Spec => []FrameIntact
<1>1. SpiInv => FrameIntact
  BY DEF SpiInv, FrameIntact, Transfer
<1> QED BY <1>1, SpiInvariant, PTL

\* The clock and the pinout stay what SET_STREAM asked for while bytes move.
THEOREM SpiModeSteady == Spec => []ModeSteady
<1>1. SpiInv => ModeSteady
  BY DEF SpiInv, ModeSteady, Transfer
<1> QED BY <1>1, SpiInvariant, PTL

\* A transfer gives back the pins as it found them, deselected.
THEOREM SpiPinsRestored == Spec => []PinsRestored
<1>1. SpiInv => PinsRestored
  BY DEF SpiInv, PinsRestored, Transfer
<1> QED BY <1>1, SpiInvariant, PTL

===============================================================================
