------------------------- MODULE Ch36xInterrupt_proofs -------------------------
(***************************************************************************)
(* Proofs about the interrupt path, for any number of threads and, where   *)
(* the statement does not say otherwise, any number of open files.         *)
(***************************************************************************)
EXTENDS Ch36xInterrupt, TLAPS

\* The mode an ENABLE_INT call carries has trigger bits that INTCR can hold.
LEMMA TriggerBitsType ==
  ASSUME NEW m PROVE TriggerBits(m) \subseteq CtrlBits
BY DEF TriggerBits, CtrlBits

\* A thread's step of enabling, disabling, locking or leaving keeps the types.
LEMMA ThreadTypeOK ==
  ASSUME TypeOK, NEW t \in Threads, Locking(t) \/ Running(t)
  PROVE  TypeOK'
<1> USE DEF TypeOK, PCs, Goto, devVars, threadVars, fileVars, isrVars, history
<1>1. CASE LockEnable(t)   BY <1>1 DEF LockEnable
<1>2. CASE LockDisable(t)  BY <1>2 DEF LockDisable
<1>3. CASE Release(t)      BY <1>3 DEF Release
<1>4. CASE TriggerRead(t)  BY <1>4 DEF TriggerRead, ReadCtrl
<1>5. CASE TriggerWrite(t)
  BY <1>5, TriggerBitsType DEF TriggerWrite, WriteCtrl
<1>6. CASE EnableRead(t)   BY <1>6 DEF EnableRead, ReadCtrl
<1>7. CASE EnableWrite(t)  BY <1>7 DEF EnableWrite, WriteCtrl, CtrlBits
<1>8. CASE EnableAck(t)    BY <1>8 DEF EnableAck, AckStatus
<1>9. CASE SetMode(t)      BY <1>9 DEF SetMode, AssignMode
<1>10. CASE DisableRead(t)  BY <1>10 DEF DisableRead, ReadCtrl
<1>11. CASE DisableWrite(t) BY <1>11 DEF DisableWrite, WriteCtrl
<1>12. CASE DisableAck(t)   BY <1>12 DEF DisableAck, AckStatus
<1>13. CASE ClearMode(t)    BY <1>13 DEF ClearMode, AssignMode
<1>14. CASE Unlock(t)       BY <1>14 DEF Unlock
<1> QED
  BY <1>1, <1>2, <1>3, <1>4, <1>5, <1>6, <1>7, <1>8, <1>9, <1>10, <1>11, <1>12, <1>13, <1>14
  DEF Locking, Running, Enabling, Disabling

\* So does the start of a call, a change of the files, and the device's side.
LEMMA CallTypeOK ==
  ASSUME TypeOK, NEW t \in Threads, Call(t)
  PROVE  TypeOK'
<1> USE DEF TypeOK, PCs, Goto, devVars, threadVars, fileVars, isrVars, history
<1> PICK f \in Files : (\E m \in Modes : CallEnable(t, f, m)) \/ CallDisable(t, f) \/ CallClose(t, f)
  BY DEF Call
<1>1. CASE \E m \in Modes : CallEnable(t, f, m)  BY <1>1 DEF CallEnable
<1>2. CASE CallDisable(t, f)  BY <1>2 DEF CallDisable
<1>3. CASE CallClose(t, f)    BY <1>3 DEF CallClose
<1> QED BY <1>1, <1>2, <1>3

\* The pin, the handler, fasync, open and the delivery of signals keep the types.
LEMMA OtherTypeOK ==
  ASSUME TypeOK,
         PinFlips \/ Isr \/ \E f \in Files : Open(f) \/ Fasync(f) \/ HandleSignal(f)
  PROVE  TypeOK'
<1> USE DEF TypeOK, devVars, threadVars, fileVars, isrVars, history
<1>1. CASE PinFlips  BY <1>1 DEF PinFlips
<1>2. CASE IsrRead   BY <1>2 DEF IsrRead, Status
<1>3. CASE IsrDecide BY <1>3 DEF IsrDecide
<1>4. CASE IsrPost   BY <1>4 DEF IsrPost
<1>5. CASE IsrAck    BY <1>5 DEF IsrAck
<1>6. CASE \E f \in Files : Open(f)   BY <1>6 DEF Open
<1>7. CASE \E f \in Files : Fasync(f) BY <1>7 DEF Fasync
<1>8. CASE \E f \in Files : HandleSignal(f) BY <1>8 DEF HandleSignal
<1> QED BY <1>1, <1>2, <1>3, <1>4, <1>5, <1>6, <1>7, <1>8 DEF Isr

\* The state probe leaves behind is well typed.
LEMMA InitTypeOK == Init => TypeOK
<1> SUFFICES ASSUME Init PROVE TypeOK
  OBVIOUS
<1>1. AnyFile \in Files
  BY FilesAssumption DEF AnyFile
<1> QED BY <1>1 DEF Init, TypeOK, PCs

\* Types survive every step.
LEMMA StepTypeOK == TypeOK /\ [Next]_vars => TypeOK'
<1> SUFFICES ASSUME TypeOK, [Next]_vars PROVE TypeOK'
  OBVIOUS
<1>1. CASE UNCHANGED vars
  BY <1>1 DEF vars, devVars, threadVars, fileVars, isrVars, history, TypeOK
<1>2. CASE Next
  BY <1>2, ThreadTypeOK, CallTypeOK, OtherTypeOK DEF Next
<1> QED BY <1>1, <1>2

\* Every variable keeps its type, whatever the threads, files and modes.
THEOREM TypeCorrect == Spec => []TypeOK
BY InitTypeOK, StepTypeOK, PTL DEF Spec

-----------------------------------------------------------------------------
(* The signal gate *)

\* A handler only claims an interrupt while the gate is open.
LEMMA ClaimNeedsMode ==
  ASSUME NEW status, Claims(intmode, status)
  PROVE  chip = "CH365" \/ intmode # "NONE"
BY DEF Claims

\* The driver implements SignalGate: every round of SIGIO is paid for by one
\* claim, made while the mode authorised it, for any number of files and
\* threads, with release racing the ioctls as the code lets it.
THEOREM ImplementsGate == Spec => GatedSignals
<1>1. Init => Gate!GateInit
  BY DEF Init, Gate!GateInit
<1>2. TypeOK /\ [Next]_vars => [Gate!GateNext]_(Gate!gateVars)
  <2> SUFFICES ASSUME TypeOK, [Next]_vars
               PROVE  Gate!GateNext \/ UNCHANGED Gate!gateVars
    OBVIOUS
  <2> USE DEF Gate!gateVars, Gate!GateNext, devVars, threadVars, fileVars, isrVars, history
  <2>1. CASE UNCHANGED vars
    BY <2>1 DEF vars
  <2>2. CASE \E t \in Threads : SetMode(t) \/ ClearMode(t)
    BY <2>2 DEF SetMode, ClearMode, AssignMode, Gate!Authorise
  <2>3. CASE IsrDecide
    <3>1. CASE Claims(intmode, intval)
      BY <2>3, <3>1, ClaimNeedsMode DEF IsrDecide, Gate!Grant
    <3>2. CASE ~Claims(intmode, intval)
      BY <2>3, <3>2 DEF IsrDecide
    <3> QED BY <3>1, <3>2
  <2>4. CASE IsrPost
    BY <2>4 DEF IsrPost, Gate!Deliver, TypeOK
  <2>5. CASE \E f \in Files : HandleSignal(f)
    BY <2>5 DEF HandleSignal, Gate!Handle
  <2>6. CASE IsrRead \/ IsrAck \/ PinFlips
    BY <2>6 DEF IsrRead, IsrAck, PinFlips
  <2>7. CASE \E f \in Files : Open(f) \/ Fasync(f)
    BY <2>7 DEF Open, Fasync
  <2>8. CASE \E t \in Threads : Call(t)
    BY <2>8 DEF Call, CallEnable, CallDisable, CallClose
  <2>9. CASE \E t \in Threads : Locking(t) \/ Release(t) \/ Unlock(t)
    BY <2>9 DEF Locking, LockEnable, LockDisable, Release, Unlock
  <2>10. CASE \E t \in Threads : \/ TriggerRead(t) \/ TriggerWrite(t) \/ EnableRead(t)
                                 \/ EnableWrite(t) \/ EnableAck(t)
    BY <2>10 DEF TriggerRead, TriggerWrite, EnableRead, EnableWrite, EnableAck,
                 ReadCtrl, WriteCtrl, AckStatus
  <2>11. CASE \E t \in Threads : DisableRead(t) \/ DisableWrite(t) \/ DisableAck(t)
    BY <2>11 DEF DisableRead, DisableWrite, DisableAck, ReadCtrl, WriteCtrl, AckStatus
  <2> QED
    BY <2>1, <2>2, <2>3, <2>4, <2>5, <2>6, <2>7, <2>8, <2>9, <2>10, <2>11
    DEF Next, Running, Enabling, Disabling, Isr
<1> QED
  BY <1>1, <1>2, TypeCorrect, PTL DEF Spec, GatedSignals, Gate!GateSpec

-----------------------------------------------------------------------------
(* One open file: the driver's record and the chip agree *)

OneFile == (\E f : Files = {f}) /\ "NONE" \notin Modes

\* The steps of another context leave a thread's call and the mutex alone.
OtherStep ==
  PinFlips \/ Isr \/ \E f \in Files : Fasync(f) \/ HandleSignal(f)

\* The pin, the handler, fasync and signals touch neither INTCR nor intmode nor a thread.
LEMMA OtherStepFrame ==
  ASSUME OtherStep
  PROVE  UNCHANGED <<chip, intctr, intmode, threadVars, opened>>
BY DEF OtherStep, PinFlips, Isr, IsrRead, IsrDecide, IsrPost, IsrAck, Fasync,
       HandleSignal, devVars, threadVars, fileVars

\* ENABLE_INT holds io_mutex from lock to unlock, and nothing else does
\* between calls; release never takes it.
LEMMA MutexGuardsStep ==
  ASSUME TypeOK, MutexGuards, [Next]_vars
  PROVE  MutexGuards'
<1> USE DEF MutexGuards, EnableSteps, DisableSteps, Goto, TypeOK
<1>1. CASE UNCHANGED vars
  BY <1>1 DEF vars, threadVars
<1>2. CASE OtherStep
  BY <1>2, OtherStepFrame DEF threadVars
<1>3. CASE \E f \in Files : Open(f)
  BY <1>3 DEF Open, threadVars
<1>4. ASSUME NEW t \in Threads, Call(t) PROVE MutexGuards'
  BY <1>4 DEF Call, CallEnable, CallDisable, CallClose
<1>5. ASSUME NEW t \in Threads, Locking(t) PROVE MutexGuards'
  BY <1>5, NoThreadAssumption DEF Locking, LockEnable, LockDisable
<1>6. ASSUME NEW t \in Threads, Release(t) \/ Unlock(t) PROVE MutexGuards'
  BY <1>6, NoThreadAssumption DEF Release, Unlock
<1>7. ASSUME NEW t \in Threads, Enabling(t) PROVE MutexGuards'
  BY <1>7 DEF Enabling, TriggerRead, TriggerWrite, EnableRead, EnableWrite, EnableAck,
              SetMode, ReadCtrl, WriteCtrl, AckStatus, AssignMode
<1>8. ASSUME NEW t \in Threads, Disabling(t) PROVE MutexGuards'
  BY <1>8 DEF Disabling, DisableRead, DisableWrite, DisableAck, ClearMode,
              ReadCtrl, WriteCtrl, AckStatus, AssignMode
<1> QED
  BY <1>1, <1>2, <1>3, <1>4, <1>5, <1>6, <1>7, <1>8 DEF Next, OtherStep, Running

\* With one file, no call is in flight when release runs: the file was closed
\* because nobody used it, and until release returns nobody can.
LEMMA ReleaseIsAloneStep ==
  ASSUME OneFile, TypeOK, MutexGuards, ReleaseIsAlone, [Next]_vars
  PROVE  ReleaseIsAlone'
<1> USE DEF ReleaseIsAlone, Releasing, DisableSteps, Goto, TypeOK
<1>1. CASE UNCHANGED vars
  BY <1>1 DEF vars, threadVars, fileVars
<1>2. CASE OtherStep
  BY <1>2, OtherStepFrame DEF threadVars
<1>3. CASE \E f \in Files : Open(f)
  BY <1>3 DEF Open, threadVars, Busy, OneFile
<1>4. ASSUME NEW t \in Threads, Call(t) PROVE ReleaseIsAlone'
  <2>1. CASE \E f \in Files : CallClose(t, f)
    BY <2>1 DEF CallClose, Busy, OneFile
  <2>2. CASE \E f \in Files : CallDisable(t, f) \/ \E m \in Modes : CallEnable(t, f, m)
    BY <2>2 DEF CallEnable, CallDisable, fileVars
  <2> QED BY <1>4, <2>1, <2>2 DEF Call
<1>5. ASSUME NEW t \in Threads, Locking(t) PROVE ReleaseIsAlone'
  BY <1>5, NoThreadAssumption DEF Locking, LockEnable, LockDisable, fileVars
<1>6. ASSUME NEW t \in Threads, Release(t) \/ Unlock(t) PROVE ReleaseIsAlone'
  <2>1. CASE Release(t)
    <3>1. mutex # t
      BY <2>1 DEF Release, MutexGuards, EnableSteps
    <3> QED BY <2>1, <3>1 DEF Release, fileVars
  <2>2. CASE Unlock(t)
    <3>1. mutex = t
      BY <2>2 DEF Unlock, MutexGuards
    <3>2. \A u \in Threads \ {t} : Releasing(u)' <=> Releasing(u)
      BY <2>2, <3>1, NoThreadAssumption DEF Unlock
    <3> QED BY <2>2, <3>1, <3>2 DEF Unlock, fileVars
  <2> QED BY <1>6, <2>1, <2>2
<1>7. ASSUME NEW t \in Threads, Enabling(t) PROVE ReleaseIsAlone'
  BY <1>7 DEF Enabling, TriggerRead, TriggerWrite, EnableRead, EnableWrite, EnableAck,
              SetMode, ReadCtrl, WriteCtrl, AckStatus, AssignMode, fileVars
<1>8. ASSUME NEW t \in Threads, Disabling(t) PROVE ReleaseIsAlone'
  BY <1>8 DEF Disabling, DisableRead, DisableWrite, DisableAck, ClearMode,
              ReadCtrl, WriteCtrl, AckStatus, AssignMode, fileVars
<1> QED
  BY <1>1, <1>2, <1>3, <1>4, <1>5, <1>6, <1>7, <1>8 DEF Next, OtherStep, Running

\* While a thread works on the registers no other thread does: the others in
\* an ioctl wait for the mutex, and in release there are no others.
LEMMA SectionIsAlone ==
  ASSUME TypeOK, MutexGuards, ReleaseIsAlone, NEW t \in Threads,
         pc[t] \in EnableSteps \union DisableSteps \union {"unlock"},
         NEW u \in Threads, u # t
  PROVE  pc[u] \in {"idle", "lock_enable", "lock_disable"}
<1>1. CASE Releasing(t)
  BY <1>1 DEF ReleaseIsAlone
<1>2. CASE ~Releasing(t)
  <2>1. mutex = t
    BY <1>2 DEF MutexGuards, Releasing
  <2>2. opened # {}
    BY <1>2 DEF ReleaseIsAlone, EnableSteps, DisableSteps
  <2>3. ~Releasing(u)
    BY <2>2 DEF ReleaseIsAlone
  <2> QED
    BY <2>1, <2>3 DEF MutexGuards, Releasing, TypeOK, PCs, EnableSteps, DisableSteps
<1> QED BY <1>1, <1>2

\* The part of OneFileInv about the registers.
RegisterInv ==
  /\ (\A t \in Threads : pc[t] \in Untouched) => Matched
  /\ \A t \in Threads : Progress(t)
  /\ \A t \in Threads : pc[t] = "lock_enable" => arg[t] # "NONE"
  /\ (opened = {} /\ \A t \in Threads : pc[t] = "idle") => intmode = "NONE"

\* A step of ENABLE_INT keeps it.
LEMMA EnablingStep ==
  ASSUME TypeOK, MutexGuards, ReleaseIsAlone, RegisterInv,
         NEW t \in Threads, Enabling(t)
  PROVE  RegisterInv'
<1> USE DEF RegisterInv, Progress, Matched, Untouched, EnableSteps, Goto, TypeOK
<1>1. pc[t] \in EnableSteps
  BY DEF Enabling, TriggerRead, TriggerWrite, EnableRead, EnableWrite, EnableAck, SetMode,
         ReadCtrl, WriteCtrl, AckStatus, AssignMode
<1>2. \A u \in Threads \ {t} : pc[u] \in {"idle", "lock_enable", "lock_disable"}
  BY <1>1, SectionIsAlone
<1>3. opened # {}
  BY <1>1 DEF ReleaseIsAlone, Releasing, DisableSteps
<1>4. CASE TriggerRead(t)
  BY <1>2, <1>3, <1>4 DEF TriggerRead, ReadCtrl, devVars, fileVars
<1>5. CASE TriggerWrite(t)
  BY <1>2, <1>3, <1>5 DEF TriggerWrite, WriteCtrl, fileVars
<1>6. CASE EnableRead(t)
  BY <1>2, <1>3, <1>6 DEF EnableRead, ReadCtrl, devVars, fileVars
<1>7. CASE EnableWrite(t)
  BY <1>2, <1>3, <1>7 DEF EnableWrite, WriteCtrl, fileVars
<1>8. CASE EnableAck(t)
  BY <1>2, <1>3, <1>8 DEF EnableAck, AckStatus, fileVars
<1>9. CASE SetMode(t)
  BY <1>2, <1>3, <1>9 DEF SetMode, AssignMode, fileVars
<1> QED BY <1>4, <1>5, <1>6, <1>7, <1>8, <1>9 DEF Enabling

\* A step of disabling, from DISABLE_INT or from release, keeps it.
LEMMA DisablingStep ==
  ASSUME TypeOK, MutexGuards, ReleaseIsAlone, RegisterInv,
         NEW t \in Threads, Disabling(t)
  PROVE  RegisterInv'
<1> USE DEF RegisterInv, Progress, Matched, Untouched, EnableSteps, Goto, TypeOK
<1>1. pc[t] \in DisableSteps
  BY DEF Disabling, DisableRead, DisableWrite, DisableAck, ClearMode, DisableSteps,
         ReadCtrl, WriteCtrl, AckStatus, AssignMode
<1>2. \A u \in Threads \ {t} : pc[u] \in {"idle", "lock_enable", "lock_disable"}
  BY <1>1, SectionIsAlone
<1>3. CASE DisableRead(t)
  BY <1>2, <1>3 DEF DisableRead, ReadCtrl, devVars, fileVars
<1>4. CASE DisableWrite(t)
  BY <1>2, <1>4 DEF DisableWrite, WriteCtrl, fileVars, CtrlBits
<1>5. CASE DisableAck(t)
  BY <1>2, <1>5 DEF DisableAck, AckStatus, fileVars
<1>6. CASE ClearMode(t)
  BY <1>2, <1>6 DEF ClearMode, AssignMode, fileVars
<1> QED BY <1>3, <1>4, <1>5, <1>6 DEF Disabling

\* What INTCR holds at each step of each call survives every step.
LEMMA RegisterStep ==
  ASSUME OneFile, TypeOK, MutexGuards, ReleaseIsAlone, RegisterInv, [Next]_vars
  PROVE  RegisterInv'
<1> USE DEF RegisterInv, Progress, Matched, Untouched, EnableSteps, Goto, TypeOK
<1>1. CASE UNCHANGED vars
  BY <1>1 DEF vars, devVars, threadVars, fileVars
<1>2. CASE OtherStep
  BY <1>2, OtherStepFrame DEF threadVars
<1>3. CASE \E f \in Files : Open(f)
  BY <1>3 DEF Open, devVars, threadVars
<1>4. ASSUME NEW t \in Threads, Call(t) PROVE RegisterInv'
  BY <1>4 DEF Call, CallEnable, CallDisable, CallClose, devVars, OneFile
<1>5. ASSUME NEW t \in Threads, Locking(t) PROVE RegisterInv'
  BY <1>5 DEF Locking, LockEnable, LockDisable, devVars, fileVars
<1>6. ASSUME NEW t \in Threads, Release(t) PROVE RegisterInv'
  BY <1>6 DEF Release, devVars, fileVars
<1>7. ASSUME NEW t \in Threads, Unlock(t) PROVE RegisterInv'
  BY <1>7 DEF Unlock, devVars, fileVars, ReleaseIsAlone, Releasing, DisableSteps
<1> QED
  BY <1>1, <1>2, <1>3, <1>4, <1>5, <1>6, <1>7, EnablingStep, DisablingStep
  DEF Next, OtherStep, Running

\* The inductive invariant holds whenever one file is open at a time.
THEOREM OneFileInvariant == ASSUME OneFile PROVE Spec => []OneFileInv
<1>1. Init => OneFileInv
  BY NoThreadAssumption
  DEF Init, OneFileInv, MutexGuards, ReleaseIsAlone, Releasing, Matched, Untouched,
      Progress, EnableSteps, DisableSteps
<1>2. TypeOK /\ OneFileInv /\ [Next]_vars => OneFileInv'
  BY MutexGuardsStep, ReleaseIsAloneStep, RegisterStep DEF OneFileInv, RegisterInv
<1> QED BY <1>1, <1>2, TypeCorrect, PTL DEF Spec

\* With one file open, intmode and the chip agree whenever no thread is
\* mid-way, so ISR and release, which look only at intmode, decide rightly.
THEOREM OneFileModeMatches == ASSUME OneFile PROVE Spec => []ModeMatchesChip
<1>1. TypeOK /\ OneFileInv => ModeMatchesChip
  BY DEF OneFileInv, ModeMatchesChip, Quiescent, Matched, Untouched, TriggerBits
<1> QED BY <1>1, TypeCorrect, OneFileInvariant, PTL

\* With one file, a closed device is disabled.
THEOREM OneFileClosedDisabled == ASSUME OneFile PROVE Spec => []ClosedMeansDisabled
<1>1. TypeOK /\ OneFileInv => ClosedMeansDisabled
  BY DEF OneFileInv, ClosedMeansDisabled, Matched, Untouched, IrqAsserted
<1> QED BY <1>1, TypeCorrect, OneFileInvariant, PTL

-----------------------------------------------------------------------------
(* Any number of open files: an edge stays in the latch until it is signalled *)

\* Between kill_fasync and its ack the handler owes the subscribers nothing; an
\* edge that comes meanwhile counts as absorbed.
PostedOwesNothing == isr = "ack" => ~owed

\* The device's side and the handler keep it: an edge sets the latch it owes for,
\* and the handler acks only what it has posted.
LEMMA DeviceKeepsLatch ==
  ASSUME TypeOK, EdgeStaysLatched, PostedOwesNothing, PinFlips \/ Isr
  PROVE  EdgeStaysLatched' /\ PostedOwesNothing'
<1> USE DEF EdgeStaysLatched, PostedOwesNothing, TypeOK, devVars, threadVars, history
<1>1. CASE PinFlips  BY <1>1 DEF PinFlips, isrVars
<1>2. CASE IsrRead   BY <1>2 DEF IsrRead
<1>3. CASE IsrDecide BY <1>3 DEF IsrDecide
<1>4. CASE IsrPost   BY <1>4 DEF IsrPost
<1>5. CASE IsrAck    BY <1>5 DEF IsrAck
<1> QED BY <1>1, <1>2, <1>3, <1>4, <1>5 DEF Isr

\* A thread keeps it: the acks of enabling and disabling are followed at once by
\* the recording of the mode, and that ends every claim to an older edge.
LEMMA ThreadKeepsLatch ==
  ASSUME TypeOK, EdgeStaysLatched, PostedOwesNothing,
         NEW t \in Threads, Call(t) \/ Locking(t) \/ Running(t)
  PROVE  EdgeStaysLatched' /\ PostedOwesNothing'
<1> USE DEF EdgeStaysLatched, PostedOwesNothing, TypeOK, Goto, devVars, isrVars, history
<1>1. CASE SetMode(t) \/ ClearMode(t)
  BY <1>1 DEF SetMode, ClearMode, AssignMode
<1>2. CASE EnableAck(t) \/ DisableAck(t)
  <2>1. pc'[t] \in {"set_mode", "clear_mode"}
    BY <1>2 DEF EnableAck, DisableAck, AckStatus
  <2> QED BY <1>2, <2>1 DEF EnableAck, DisableAck, AckStatus
<1>3. CASE Call(t)
  BY <1>3 DEF Call, CallEnable, CallDisable, CallClose
<1>4. CASE Locking(t) \/ Release(t) \/ Unlock(t)
  BY <1>4 DEF Locking, LockEnable, LockDisable, Release, Unlock
<1>5. CASE TriggerRead(t) \/ EnableRead(t) \/ DisableRead(t)
  BY <1>5 DEF TriggerRead, EnableRead, DisableRead, ReadCtrl
<1>6. CASE TriggerWrite(t) \/ EnableWrite(t) \/ DisableWrite(t)
  BY <1>6 DEF TriggerWrite, EnableWrite, DisableWrite, WriteCtrl
<1> QED
  BY <1>1, <1>2, <1>3, <1>4, <1>5, <1>6 DEF Running, Enabling, Disabling

\* An edge that came while interrupts were armed is signalled, or still latched,
\* or a client is about to record a new mode: for any number of files and
\* threads, any chip and mode, switches and shared lines included.
THEOREM NoLatchedEdgeDropped == Spec => []EdgeStaysLatched
<1>1. Init => EdgeStaysLatched /\ PostedOwesNothing
  BY DEF Init, EdgeStaysLatched, PostedOwesNothing
<1>2. TypeOK /\ EdgeStaysLatched /\ PostedOwesNothing /\ [Next]_vars
        => EdgeStaysLatched' /\ PostedOwesNothing'
  <2> SUFFICES ASSUME TypeOK, EdgeStaysLatched, PostedOwesNothing, [Next]_vars
               PROVE  EdgeStaysLatched' /\ PostedOwesNothing'
    OBVIOUS
  <2> USE DEF EdgeStaysLatched, PostedOwesNothing
  <2>1. CASE UNCHANGED vars
    BY <2>1 DEF vars, devVars, threadVars, isrVars, history
  <2>2. CASE \E f \in Files : Open(f) \/ Fasync(f) \/ HandleSignal(f)
    BY <2>2 DEF Open, Fasync, HandleSignal, devVars, threadVars, isrVars, history
  <2> QED BY <2>1, <2>2, DeviceKeepsLatch, ThreadKeepsLatch DEF Next
<1> QED BY <1>1, <1>2, TypeCorrect, PTL DEF Spec

-----------------------------------------------------------------------------
(* One file and no switch of mode: no interrupt goes unclaimed *)

\* Clients that agree on a mode before they enable, and disable before they change
\* it, never name two modes at once.
LEMMA OneModeStep ==
  ASSUME TypeOK, OneMode, Switching = FALSE, [Next]_vars
  PROVE  OneMode'
<1> USE DEF OneMode, TypeOK, devVars, threadVars
<1>1. CASE UNCHANGED vars
  BY <1>1 DEF vars
<1>2. CASE OtherStep
  BY <1>2, OtherStepFrame
<1>3. CASE \E f \in Files : Open(f)
  BY <1>3 DEF Open
<1>4. ASSUME NEW t \in Threads, Call(t) PROVE OneMode'
  <2>1. CASE \E f \in Files, m \in Modes : CallEnable(t, f, m)
    BY <2>1 DEF CallEnable, Agreed
  <2>2. CASE \E f \in Files : CallDisable(t, f) \/ CallClose(t, f)
    BY <2>2 DEF CallDisable, CallClose
  <2> QED BY <1>4, <2>1, <2>2 DEF Call
<1>5. ASSUME NEW t \in Threads, Locking(t) \/ Release(t) \/ Unlock(t) PROVE OneMode'
  BY <1>5 DEF Locking, LockEnable, LockDisable, Release, Unlock
<1>6. ASSUME NEW t \in Threads, SetMode(t) \/ ClearMode(t) PROVE OneMode'
  BY <1>6 DEF SetMode, ClearMode, AssignMode
<1>7. ASSUME NEW t \in Threads,
             \/ TriggerRead(t) \/ TriggerWrite(t) \/ EnableRead(t) \/ EnableWrite(t)
             \/ EnableAck(t) \/ DisableRead(t) \/ DisableWrite(t) \/ DisableAck(t)
      PROVE  OneMode'
  BY <1>7 DEF TriggerRead, TriggerWrite, EnableRead, EnableWrite, EnableAck, DisableRead,
              DisableWrite, DisableAck, ReadCtrl, WriteCtrl, AckStatus
<1> QED
  BY <1>1, <1>2, <1>3, <1>4, <1>5, <1>6, <1>7
  DEF Next, OtherStep, Running, Enabling, Disabling

\* The trigger that ENABLE_INT ORs into INTCR meets either no trigger or its own.
LEMMA ExactTriggerStep ==
  ASSUME OneFile, TypeOK, MutexGuards, ReleaseIsAlone, RegisterInv, OneMode, ExactTrigger,
         [Next]_vars
  PROVE  ExactTrigger'
<1> USE DEF ExactTrigger, Untouched, Goto, TypeOK
<1>1. CASE UNCHANGED vars
  BY <1>1 DEF vars, devVars, threadVars
<1>2. CASE OtherStep
  BY <1>2, OtherStepFrame DEF threadVars
<1>3. CASE \E f \in Files : Open(f)
  BY <1>3 DEF Open, devVars, threadVars
<1>4. ASSUME NEW t \in Threads, Call(t) PROVE ExactTrigger'
  BY <1>4 DEF Call, CallEnable, CallDisable, CallClose, devVars
<1>5. ASSUME NEW t \in Threads, Locking(t) \/ Release(t) PROVE ExactTrigger'
  BY <1>5 DEF Locking, LockEnable, LockDisable, Release, devVars
<1>6. ASSUME NEW t \in Threads, Unlock(t) PROVE ExactTrigger'
  BY <1>6 DEF Unlock, devVars
<1>7. ASSUME NEW t \in Threads, Enabling(t) PROVE ExactTrigger'
  <2>1. pc[t] \in EnableSteps
    BY <1>7 DEF Enabling, TriggerRead, TriggerWrite, EnableRead, EnableWrite, EnableAck,
                SetMode, ReadCtrl, WriteCtrl, AckStatus, AssignMode, EnableSteps
  <2>2. \A u \in Threads \ {t} : pc[u] \in {"idle", "lock_enable", "lock_disable"}
    BY <2>1, SectionIsAlone
  <2>3. Progress(t) /\ arg[t] # "NONE"
    BY <2>1 DEF RegisterInv, Progress
  <2>4. CASE TriggerWrite(t)
    <3> SUFFICES ASSUME chip # "CH365" PROVE ExactTrigger'
      BY <2>4 DEF TriggerWrite, WriteCtrl
    <3>1. \A u \in Threads : pc[u] \in Untouched
      BY <2>2, <2>4 DEF TriggerWrite, WriteCtrl
    <3>2. intmode = "NONE" => intctr = {}
      BY <3>1 DEF RegisterInv, Matched
    <3>3. intmode # "NONE" => intctr \ {"enable"} = TriggerBits(arg[t])
      BY <3>1, <2>3 DEF OneMode
    <3>4. ctrlval[t] = intctr
      BY <2>3, <2>4 DEF Progress, TriggerWrite, WriteCtrl
    <3>5. "enable" \notin TriggerBits(arg[t])
      BY DEF TriggerBits
    <3>6. intctr' \ {"enable"} = TriggerBits(arg[t])
      BY <2>4, <3>2, <3>3, <3>4, <3>5 DEF TriggerWrite, WriteCtrl
    <3>7. arg' = arg /\ pc' = [pc EXCEPT ![t] = "enable_rd"]
      BY <2>4 DEF TriggerWrite, WriteCtrl
    <3> QED BY <2>2, <3>6, <3>7
  <2>5. CASE EnableWrite(t)
    <3>1. chip' = chip /\ arg' = arg /\ intctr' = intctr \union {"enable"}
      BY <2>3, <2>5 DEF Progress, EnableWrite, WriteCtrl
    <3>2. pc' = [pc EXCEPT ![t] = IF chip = "CH365" THEN "set_mode" ELSE "enable_ack"]
      BY <2>5 DEF EnableWrite, WriteCtrl
    <3>3. pc[t] = "enable_wr"
      BY <2>5 DEF EnableWrite, WriteCtrl
    <3> QED BY <2>2, <3>1, <3>2, <3>3
  <2>6. CASE SetMode(t)
    BY <2>2, <2>6 DEF SetMode, AssignMode
  <2>7. CASE EnableAck(t)
    BY <2>7 DEF EnableAck, AckStatus
  <2>8. CASE TriggerRead(t) \/ EnableRead(t)
    BY <2>8 DEF TriggerRead, EnableRead, ReadCtrl, devVars
  <2> QED BY <1>7, <2>4, <2>5, <2>6, <2>7, <2>8 DEF Enabling
<1>8. ASSUME NEW t \in Threads, Disabling(t) PROVE ExactTrigger'
  <2>1. pc[t] \in DisableSteps
    BY <1>8 DEF Disabling, DisableRead, DisableWrite, DisableAck, ClearMode, DisableSteps,
                ReadCtrl, WriteCtrl, AckStatus, AssignMode
  <2>2. \A u \in Threads \ {t} : pc[u] \in {"idle", "lock_enable", "lock_disable"}
    BY <2>1, SectionIsAlone
  <2>3. CASE DisableRead(t)
    BY <2>3 DEF DisableRead, ReadCtrl, devVars
  <2>4. CASE DisableWrite(t)
    BY <2>2, <2>4 DEF DisableWrite, WriteCtrl
  <2>5. CASE DisableAck(t)
    BY <2>2, <2>5 DEF DisableAck, AckStatus
  <2>6. CASE ClearMode(t)
    BY <2>2, <2>6 DEF ClearMode, AssignMode
  <2> QED BY <1>8, <2>3, <2>4, <2>5, <2>6 DEF Disabling
<1> QED
  BY <1>1, <1>2, <1>3, <1>4, <1>5, <1>6, <1>7, <1>8 DEF Next, OtherStep, Running

\* With one file open and no switch of mode, an interrupt that the chip asserts
\* while no thread is mid-way is one the handler claims: no interrupt storm, on
\* any chip, in any mode, with any number of threads.
THEOREM OneFileAssertedIsClaimed ==
  ASSUME OneFile, Switching = FALSE
  PROVE  Spec => []AssertedIsClaimed
<1>1. Init => OneMode /\ ExactTrigger
  BY DEF Init, OneMode, ExactTrigger
<1>2. TypeOK /\ OneFileInv /\ OneMode /\ ExactTrigger /\ [Next]_vars
        => OneMode' /\ ExactTrigger'
  BY OneModeStep, ExactTriggerStep DEF OneFileInv, RegisterInv
<1>3. TypeOK /\ OneFileInv /\ ExactTrigger => AssertedIsClaimed
  <2> SUFFICES ASSUME TypeOK, OneFileInv, ExactTrigger, Quiescent, IrqAsserted
               PROVE  Claims(intmode, Status)
    BY DEF AssertedIsClaimed
  <2>1. CASE chip = "CH365"
    BY <2>1 DEF IrqAsserted, OnEdge, Claims, Status
  <2>2. CASE chip # "CH365"
    <3>1. \A t \in Threads : pc[t] \in Untouched
      BY DEF Quiescent, Untouched
    <3>2. intmode # "NONE"
      BY <3>1 DEF OneFileInv, Matched, IrqAsserted
    <3>3. intctr \ {"enable"} = TriggerBits(intmode)
      BY <2>2, <3>1, <3>2 DEF ExactTrigger
    <3>4. intmode \in {"LOW", "HIGH", "RISING", "FALLING"}
      BY <3>2, ModesAssumption DEF TypeOK, IntModes
    <3>5. /\ "type" \in intctr <=> intmode \in {"RISING", "FALLING"}
          /\ "polar" \in intctr <=> intmode \in {"HIGH", "FALLING"}
      BY <3>3, <3>4 DEF TriggerBits
    <3>6. CASE intmode \in {"RISING", "FALLING"}
      BY <2>2, <3>5, <3>6 DEF IrqAsserted, OnEdge, Claims, Status
    <3>7. intmode \in {"LOW", "HIGH"} => pin = ActiveLevel(intctr)
      BY <2>2, <3>5 DEF IrqAsserted, OnEdge
    <3>8. CASE intmode = "HIGH"
      <4>1. ActiveLevel(intctr)
        BY <2>2, <3>5, <3>8 DEF ActiveLevel
      <4> QED BY <2>2, <3>7, <3>8, <4>1 DEF Claims, Status
    <3>9. CASE intmode = "LOW"
      <4>1. ~ActiveLevel(intctr)
        BY <2>2, <3>5, <3>9 DEF ActiveLevel
      <4>2. ~pin
        BY <3>7, <3>9, <4>1
      <4> QED BY <2>2, <3>9, <4>2 DEF Claims, Status
    <3> QED BY <3>4, <3>6, <3>8, <3>9
  <2> QED BY <2>1, <2>2
<1> QED BY <1>1, <1>2, <1>3, TypeCorrect, OneFileInvariant, PTL DEF Spec

===============================================================================
