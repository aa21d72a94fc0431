---------------------------- MODULE Ch36xInterrupt ----------------------------
(***************************************************************************)
(* The interrupt path of one CH36x device under the V1.21 driver           *)
(* (src/pcie/ch36x_linux-main/drv/ch36x.c): ENABLE_INT and DISABLE_INT     *)
(* ioctls, which run under the device's io_mutex; release, which takes no  *)
(* lock; and the interrupt handler, which runs beside all of them.  Every  *)
(* port access that another context can come between is a step of its own. *)
(*                                                                         *)
(* Abstracted: the bits of INTCR and of the status register no handler     *)
(* here tests, and the status value that is read only to be written back   *)
(* without INTA (read and write are then one step).  External, modelled    *)
(* from how the driver uses it: the chip's trigger and latch, the VFS's    *)
(* fput, the SIGIO machinery.                                              *)
(***************************************************************************)
EXTENDS Naturals

CONSTANTS Threads,      \* the contexts that execute system calls
          Files,        \* open file descriptions of the device node
          Chips,        \* the chip types the device may be
          Modes,        \* the modes clients pass to ENABLE_INT
          Switching,    \* may a client change mode without DISABLE_INT first?
          SharedLine,   \* does another device interrupt on the same line?
          LatchWhenOff, \* does the chip latch INTA while the enable bit is 0?
          NoThread      \* the owner of a free mutex

IntModes == {"NONE", "LOW", "HIGH", "RISING", "FALLING"}
CtrlBits == {"enable", "polar", "type"}

ASSUME ChipsAssumption == Chips \subseteq {"CH365", "CH367", "CH368"}
ASSUME ModesAssumption == Modes \subseteq IntModes
ASSUME FilesAssumption == Files # {}
ASSUME FlagsAssumption == /\ Switching \in BOOLEAN
                          /\ SharedLine \in BOOLEAN
                          /\ LatchWhenOff \in BOOLEAN
ASSUME NoThreadAssumption == NoThread \notin Threads

VARIABLES
  chip,       \* chiptype, fixed by probe
  intctr,     \* INTCR as a set of bits; on a CH365, bit 7 of config 0x42
  inta,       \* the status register's INTA latch
  pin,        \* level of the interrupt pin, which INTS mirrors
  intmode,    \* ch36x_dev->intmode
  mutex,      \* ch36x_dev->io_mutex: its holder
  opened,     \* files on which open succeeded and release has not begun
  async,      \* files on ch36x_dev->fasync
  sig,        \* files whose owner has an unhandled SIGIO
  pc,         \* where each thread is
  file,       \* the file each thread's call is on
  arg,        \* the mode an ENABLE_INT call carries
  ctrlval,    \* the local ctrlval: the INTCR value a thread read
  isr,        \* where the handler is
  intval,     \* the local intval of the handler: the INTA and INTS it read
  owed,       \* history: an edge came while armed and is not posted yet
  absorbed    \* history: one came between the handler's post and its ack

devVars    == <<chip, intctr, inta, pin, intmode>>
threadVars == <<pc, file, arg, ctrlval, mutex>>
fileVars   == <<opened, async, sig>>
isrVars    == <<isr, intval>>
history    == <<owed, absorbed>>
vars == <<devVars, threadVars, fileVars, isrVars, history>>

PCs == {"idle", "lock_enable", "lock_disable",
        "trigger_rd", "trigger_wr", "enable_rd", "enable_wr", "enable_ack", "set_mode",
        "disable_rd", "disable_wr", "disable_ack", "clear_mode",
        "unlock", "release"}

AnyFile == CHOOSE f \in Files : TRUE

Init ==
  /\ chip \in Chips
  /\ intctr = {} /\ inta = FALSE /\ pin = TRUE
  /\ intmode = "NONE"
  /\ mutex = NoThread
  /\ opened = {} /\ async = {} /\ sig = {}
  /\ pc = [t \in Threads |-> "idle"]
  /\ file = [t \in Threads |-> AnyFile]
  /\ arg = [t \in Threads |-> "NONE"]
  /\ ctrlval = [t \in Threads |-> {}]
  /\ isr = "idle"
  /\ intval = [inta |-> FALSE, ints |-> FALSE]
  /\ owed = FALSE /\ absorbed = FALSE

-----------------------------------------------------------------------------
(* The chip *)

\* TRIGGER_LOW 0xe0, TRIGGER_HIGH 0xe4, TRIGGER_RISING 0xe8, TRIGGER_FALLING 0xec
TriggerBits(m) == CASE m = "HIGH"    -> {"polar"}
                    [] m = "RISING"  -> {"type"}
                    [] m = "FALLING" -> {"type", "polar"}
                    [] OTHER         -> {}

OnEdge(ctr) == chip = "CH365" \/ "type" \in ctr

\* The pin level that fires: RISING and HIGH fire on high, FALLING and LOW on low.
ActiveLevel(ctr) == /\ chip # "CH365"
                    /\ ("type" \in ctr) # ("polar" \in ctr)

IrqAsserted ==
  /\ "enable" \in intctr
  /\ IF OnEdge(intctr) THEN inta ELSE pin = ActiveLevel(intctr)

Armed == "enable" \in intctr /\ intmode # "NONE"

\* The peripheral moves the pin; reaching the active level sets the latch.
PinFlips ==
  LET fires == pin' = ActiveLevel(intctr) /\ (LatchWhenOff \/ "enable" \in intctr)
      event == fires /\ Armed /\ OnEdge(intctr)
  IN /\ pin' = ~pin
     /\ inta' = (inta \/ fires)
     /\ owed' = (owed \/ (event /\ isr # "ack"))
     /\ absorbed' = (absorbed \/ (event /\ isr = "ack"))
     /\ UNCHANGED <<chip, intctr, intmode, threadVars, fileVars, isrVars>>

-----------------------------------------------------------------------------
(* Threads.  Goto names the next step of a thread's call. *)

Goto(t, from, to) == pc[t] = from /\ pc' = [pc EXCEPT ![t] = to]

Busy(f) == \E t \in Threads : pc[t] # "idle" /\ file[t] = f

\* What clients do when they follow the demo: agree on a mode, and issue
\* DISABLE_INT before changing it.
Agreed(m) ==
  /\ intmode \in {"NONE", m}
  /\ \A u \in Threads : arg[u] \in {"NONE", m}

Open(f) ==
  /\ f \notin opened /\ ~Busy(f)
  /\ opened' = opened \union {f}
  /\ UNCHANGED <<devVars, threadVars, async, sig, isrVars, history>>

Fasync(f) ==
  /\ f \in opened
  /\ \E on \in BOOLEAN : async' = IF on THEN async \union {f} ELSE async \ {f}
  /\ UNCHANGED <<devVars, threadVars, opened, sig, isrVars, history>>

\* ioctl(ENABLE_INT, m) and ioctl(DISABLE_INT), up to mutex_lock
CallEnable(t, f, m) ==
  /\ f \in opened
  /\ Switching \/ Agreed(m)
  /\ Goto(t, "idle", "lock_enable")
  /\ file' = [file EXCEPT ![t] = f]
  /\ arg' = [arg EXCEPT ![t] = m]
  /\ UNCHANGED <<devVars, ctrlval, mutex, fileVars, isrVars, history>>

CallDisable(t, f) ==
  /\ f \in opened
  /\ Goto(t, "idle", "lock_disable")
  /\ file' = [file EXCEPT ![t] = f]
  /\ UNCHANGED <<devVars, arg, ctrlval, mutex, fileVars, isrVars, history>>

\* The last reference to f goes: fput takes it off the fasync list, then
\* calls release.
CallClose(t, f) ==
  /\ f \in opened /\ ~Busy(f)
  /\ Goto(t, "idle", "release")
  /\ file' = [file EXCEPT ![t] = f]
  /\ opened' = opened \ {f}
  /\ async' = async \ {f}
  /\ UNCHANGED <<devVars, arg, ctrlval, mutex, sig, isrVars, history>>

\* Mutant: ENABLE_INT runs without taking io_mutex first.
LockEnableUnlocked(t) ==
  /\ Goto(t, "lock_enable", IF chip = "CH365" THEN "enable_rd" ELSE "trigger_rd")
  /\ mutex' = t
  /\ UNCHANGED <<devVars, file, arg, ctrlval, fileVars, isrVars, history>>

LockEnable(t) ==
  /\ mutex = NoThread
  /\ Goto(t, "lock_enable", IF chip = "CH365" THEN "enable_rd" ELSE "trigger_rd")
  /\ mutex' = t
  /\ UNCHANGED <<devVars, file, arg, ctrlval, fileVars, isrVars, history>>

LockDisable(t) ==
  /\ mutex = NoThread
  /\ Goto(t, "lock_disable", "disable_rd")
  /\ mutex' = t
  /\ UNCHANGED <<devVars, file, arg, ctrlval, fileVars, isrVars, history>>

\* Mutant: release leaves the interrupt as it is.
ReleaseKeeps(t) ==
  /\ Goto(t, "release", "idle")
  /\ UNCHANGED <<devVars, file, arg, ctrlval, mutex, fileVars, isrVars, history>>

\* ch36x_fops_release: no mutex, and nothing to do when intmode is INT_NONE
Release(t) ==
  /\ Goto(t, "release", IF intmode = "NONE" THEN "idle" ELSE "disable_rd")
  /\ UNCHANGED <<devVars, file, arg, ctrlval, mutex, fileVars, isrVars, history>>

Unlock(t) ==
  /\ Goto(t, "unlock", "idle")
  /\ mutex' = NoThread
  /\ arg' = [arg EXCEPT ![t] = "NONE"]
  /\ UNCHANGED <<devVars, file, ctrlval, fileVars, isrVars, history>>

-----------------------------------------------------------------------------
(* ch36x_enable_interrupts and ch36x_disable_interrupts *)

\* inb(INTCR) or pci_read_config_byte, into ctrlval
ReadCtrl(t, from, to) ==
  /\ Goto(t, from, to)
  /\ ctrlval' = [ctrlval EXCEPT ![t] = intctr]
  /\ UNCHANGED <<devVars, file, arg, mutex, fileVars, isrVars, history>>

\* outb(INTCR) or pci_write_config_byte
WriteCtrl(t, from, to, bits) ==
  /\ Goto(t, from, to)
  /\ intctr' = bits
  /\ ctrlval' = [ctrlval EXCEPT ![t] = {}]
  /\ UNCHANGED <<chip, inta, pin, intmode, file, arg, mutex, fileVars, isrVars, history>>

\* inb(Status), then outb without INTA
AckStatus(t, from, to) ==
  /\ Goto(t, from, to)
  /\ inta' = FALSE
  /\ UNCHANGED <<chip, intctr, pin, intmode, file, arg, ctrlval, mutex, fileVars, isrVars, history>>

\* The assignment to intmode that ends both functions.
AssignMode(t, from, to, m) ==
  /\ Goto(t, from, to)
  /\ intmode' = m
  /\ owed' = FALSE /\ absorbed' = FALSE
  /\ UNCHANGED <<chip, intctr, inta, pin, file, arg, ctrlval, mutex, fileVars, isrVars>>

\* Mutants: the recorded mode is one off in the enumeration; the error path's missing
\* unlock; disable clears the enable bit and leaves the trigger.
SetModeOff(t)      == AssignMode(t, "set_mode", "unlock",
                                 IF arg[t] = "FALLING" THEN "RISING" ELSE arg[t])
SetModeNoUnlock(t) == AssignMode(t, "set_mode", "idle", arg[t])
DisableOnlyBit(t)  == WriteCtrl(t, "disable_wr",
                                IF chip = "CH365" THEN "clear_mode" ELSE "disable_ack",
                                ctrlval[t] \ {"enable"})

TriggerRead(t)  == ReadCtrl(t, "trigger_rd", "trigger_wr")
TriggerWrite(t) == WriteCtrl(t, "trigger_wr", "enable_rd", ctrlval[t] \union TriggerBits(arg[t]))
EnableRead(t)   == ReadCtrl(t, "enable_rd", "enable_wr")
EnableWrite(t)  == WriteCtrl(t, "enable_wr",
                             IF chip = "CH365" THEN "set_mode" ELSE "enable_ack",
                             ctrlval[t] \union {"enable"})
EnableAck(t)    == AckStatus(t, "enable_ack", "set_mode")
SetMode(t)      == AssignMode(t, "set_mode", "unlock", arg[t])

DisableRead(t)  == ReadCtrl(t, "disable_rd", "disable_wr")
DisableWrite(t) == WriteCtrl(t, "disable_wr",
                             IF chip = "CH365" THEN "clear_mode" ELSE "disable_ack",
                             ctrlval[t] \ CtrlBits)
DisableAck(t)   == AckStatus(t, "disable_ack", "clear_mode")
ClearMode(t)    == AssignMode(t, "clear_mode", IF mutex = t THEN "unlock" ELSE "idle", "NONE")

-----------------------------------------------------------------------------
(* ch36x_isr *)

\* Mutant: a default case that claims on the latch, whatever the mode.
ClaimsLatch(mode, status) ==
  CASE mode = "HIGH" -> status.ints
    [] mode = "LOW"  -> ~status.ints
    [] OTHER         -> status.inta

\* Does the handler take the interrupt as its own, given what it read?
Claims(mode, status) ==
  CASE chip = "CH365" \/ mode \in {"RISING", "FALLING"} -> status.inta
    [] chip # "CH365" /\ mode = "HIGH"                  -> status.ints
    [] chip # "CH365" /\ mode = "LOW"                   -> ~status.ints
    [] OTHER                                            -> FALSE

Status == [inta |-> inta, ints |-> pin]

\* The handler is called, for this device or for one that shares its line.
IsrRead ==
  /\ isr = "idle"
  /\ IrqAsserted \/ SharedLine
  /\ isr' = "decide"
  /\ intval' = Status
  /\ UNCHANGED <<devVars, threadVars, fileVars, history>>

\* Mutant: an interrupt that is not ours is acknowledged all the same.
IsrDecideAcks ==
  /\ isr = "decide"
  /\ isr' = IF Claims(intmode, intval) THEN "post" ELSE "ack"
  /\ UNCHANGED <<devVars, threadVars, fileVars, intval, history>>

IsrDecide ==
  /\ isr = "decide"
  /\ isr' = IF Claims(intmode, intval) THEN "post" ELSE "idle"
  /\ UNCHANGED <<devVars, threadVars, fileVars, intval, history>>

\* kill_fasync
IsrPost ==
  /\ isr = "post"
  /\ isr' = "ack"
  /\ sig' = sig \union async
  /\ owed' = FALSE /\ absorbed' = FALSE
  /\ UNCHANGED <<devVars, threadVars, opened, async, intval>>

\* outb(intval & ~INTA)
IsrAck ==
  /\ isr = "ack"
  /\ isr' = "idle"
  /\ inta' = FALSE
  /\ UNCHANGED <<chip, intctr, pin, intmode, threadVars, fileVars, intval, history>>

\* The owner of f runs its SIGIO handler.
HandleSignal(f) ==
  /\ f \in sig
  /\ sig' = sig \ {f}
  /\ UNCHANGED <<devVars, threadVars, opened, async, isrVars, history>>

-----------------------------------------------------------------------------
Call(t) == \E f \in Files : \/ \E m \in Modes : CallEnable(t, f, m)
                            \/ CallDisable(t, f)
                            \/ CallClose(t, f)

Enabling(t)  == TriggerRead(t) \/ TriggerWrite(t) \/ EnableRead(t) \/ EnableWrite(t)
                  \/ EnableAck(t) \/ SetMode(t)
Disabling(t) == DisableRead(t) \/ DisableWrite(t) \/ DisableAck(t) \/ ClearMode(t)

Locking(t)   == LockEnable(t) \/ LockDisable(t)
Running(t)   == Release(t) \/ Enabling(t) \/ Disabling(t) \/ Unlock(t)

Isr == IsrRead \/ IsrDecide \/ IsrPost \/ IsrAck

Next ==
  \/ PinFlips
  \/ \E f \in Files : Open(f) \/ Fasync(f) \/ HandleSignal(f)
  \/ \E t \in Threads : Call(t) \/ Locking(t) \/ Running(t)
  \/ Isr

\* A thread inside a call keeps running, a mutex that is released again and
\* again is eventually granted to each waiter (the kernel's mutex hands off to
\* a waiter it has bypassed), and the CPU serves a line that stays asserted.
Fairness ==
  /\ \A t \in Threads : WF_vars(Running(t)) /\ SF_vars(Locking(t))
  /\ WF_vars(IrqAsserted /\ IsrRead)
  /\ WF_vars(IsrDecide \/ IsrPost \/ IsrAck)

Spec     == Init /\ [][Next]_vars
FairSpec == Spec /\ Fairness

-----------------------------------------------------------------------------
(* Properties *)

\* The type of every variable.
TypeOK ==
  /\ chip \in Chips /\ intctr \in SUBSET CtrlBits
  /\ inta \in BOOLEAN /\ pin \in BOOLEAN
  /\ intmode \in Modes \union {"NONE"}
  /\ mutex \in Threads \union {NoThread}
  /\ opened \in SUBSET Files /\ async \in SUBSET Files /\ sig \in SUBSET Files
  /\ pc \in [Threads -> PCs]
  /\ file \in [Threads -> Files]
  /\ arg \in [Threads -> Modes \union {"NONE"}]
  /\ ctrlval \in [Threads -> SUBSET CtrlBits]
  /\ isr \in {"idle", "decide", "post", "ack"}
  /\ intval \in [inta : BOOLEAN, ints : BOOLEAN]
  /\ owed \in BOOLEAN /\ absorbed \in BOOLEAN

Quiescent == \A t \in Threads : pc[t] \in {"idle", "lock_enable", "lock_disable", "unlock", "release"}

\* Whenever no thread is half-way through enabling or disabling, the driver's
\* record and the chip agree on whether interrupts are on: intmode is set
\* exactly when the enable bit is, and the trigger asked for is programmed.
\* ISR and release both decide by intmode alone (ch36x_isr, ch36x_fops_release).
ModeMatchesChip ==
  Quiescent => /\ (intmode # "NONE") <=> ("enable" \in intctr)
               /\ chip # "CH365" => TriggerBits(intmode) \subseteq intctr

\* Once the last file is closed and its release has run, the chip does not
\* interrupt any more: nobody is left to whom a signal could go.
ClosedMeansDisabled ==
  (opened = {} /\ \A t \in Threads : pc[t] = "idle")
    => intmode = "NONE" /\ intctr = {} /\ ~IrqAsserted

\* No interrupt storm: with no thread mid-way, an interrupt the chip asserts
\* is one the handler would claim (an unclaimed level interrupt fires for ever).
AssertedIsClaimed == Quiescent /\ IrqAsserted => Claims(intmode, Status)

\* The chip triggers exactly as intmode says (the driver ORs a new trigger
\* into INTCR without clearing the old one, so a switch of mode breaks this).
TriggerIsMode ==
  Quiescent /\ intmode # "NONE" /\ chip # "CH365"
    => intctr = TriggerBits(intmode) \union {"enable"}

\* An edge that arrives after the subscribers were signalled for the previous
\* one leaves the latch set, so that the handler runs for it too.
NoEdgeLost == Quiescent /\ absorbed /\ isr = "idle" => inta

\* After DISABLE_INT has run, a handler that is newly called claims nothing.
DisabledIsQuiet ==
  Quiescent /\ intmode = "NONE" => ~Claims(intmode, Status)

\* Signals are sent as the abstract gate says: each round on a grant of its
\* own, and a grant only while intmode (on a CH365 the latch) authorises it.
Gate == INSTANCE SignalGate WITH
          authorised <- chip = "CH365" \/ intmode # "NONE",
          granted    <- isr = "post",
          delivered  <- sig
GatedSignals == Gate!GateSpec

\* An edge that comes while interrupts are armed, and not in the handler's
\* window between kill_fasync and the ack, is posted to the subscribers, or a
\* client reprograms the interrupt first.
EdgeIsServed == owed ~> ~owed

\* An edge that has come while interrupts are armed and is not signalled yet is
\* still in the latch, however the handler, which read the status before or after
\* it, and the acks of ENABLE_INT and DISABLE_INT interleave; only a client that
\* is about to record its new mode may have cleared it.
EdgeStaysLatched ==
  owed => inta \/ \E t \in Threads : pc[t] \in {"set_mode", "clear_mode"}

\* Every system call returns.
CallsReturn == \A t \in Threads : pc[t] # "idle" ~> pc[t] = "idle"

-----------------------------------------------------------------------------
(* Why the driver's record and the chip agree, when one file is open *)

EnableSteps  == {"trigger_rd", "trigger_wr", "enable_rd", "enable_wr", "enable_ack", "set_mode"}
DisableSteps == {"disable_rd", "disable_wr", "disable_ack", "clear_mode"}

\* A thread in release: no mutex.
Releasing(t) == pc[t] = "release" \/ (pc[t] \in DisableSteps /\ mutex # t)

\* The mutex is held through ENABLE_INT, and only inside an ioctl.
MutexGuards ==
  \A t \in Threads :
    /\ pc[t] \in EnableSteps \union {"unlock"} => mutex = t
    /\ mutex = t => pc[t] \in EnableSteps \union DisableSteps \union {"unlock"}

\* release runs when the only file is gone, so no other call is in flight.
ReleaseIsAlone ==
  \A t \in Threads :
    /\ Releasing(t) => opened = {} /\ \A u \in Threads \ {t} : pc[u] = "idle"
    /\ pc[t] # "idle" /\ ~Releasing(t) => opened # {}

\* The chip is as intmode says.
Matched ==
  /\ intmode = "NONE" => intctr = {}
  /\ intmode # "NONE" => /\ "enable" \in intctr
                         /\ chip # "CH365" => TriggerBits(intmode) \subseteq intctr

\* INTCR has been left as it was found so far.
Untouched == {"idle", "lock_enable", "lock_disable", "unlock", "release",
              "trigger_rd", "trigger_wr", "disable_rd", "disable_wr"}

\* What a thread in mid-call has done to INTCR.
Progress(t) ==
  /\ pc[t] \in EnableSteps => arg[t] # "NONE"
  /\ pc[t] \in {"trigger_rd", "trigger_wr", "enable_ack"} => chip # "CH365"
  /\ pc[t] = "trigger_wr" => ctrlval[t] = intctr
  /\ pc[t] \in {"enable_rd", "enable_wr", "enable_ack", "set_mode"} /\ chip # "CH365"
       => TriggerBits(arg[t]) \subseteq intctr
  /\ pc[t] = "enable_wr" => ctrlval[t] = intctr
  /\ pc[t] \in {"enable_ack", "set_mode"} => "enable" \in intctr
  /\ pc[t] = "disable_wr" => ctrlval[t] = intctr
  /\ pc[t] \in {"disable_ack", "clear_mode"} => intctr = {}

OneFileInv ==
  /\ MutexGuards
  /\ ReleaseIsAlone
  /\ (\A t \in Threads : pc[t] \in Untouched) => Matched
  /\ \A t \in Threads : Progress(t)
  /\ \A t \in Threads : pc[t] = "lock_enable" => arg[t] # "NONE"
  /\ (opened = {} /\ \A t \in Threads : pc[t] = "idle") => intmode = "NONE"

\* Without a switch of mode all clients that have named a mode name the same one.
OneMode ==
  \A t \in Threads : arg[t] # "NONE" =>
    /\ \A u \in Threads : arg[u] \in {"NONE", arg[t]}
    /\ intmode \in {"NONE", arg[t]}

\* INTCR's trigger bits are those of one mode: the recorded one at rest, the
\* caller's once ENABLE_INT has written them.
ExactTrigger ==
  chip # "CH365" =>
    /\ (\A t \in Threads : pc[t] \in Untouched) /\ intmode # "NONE" =>
         intctr \ {"enable"} = TriggerBits(intmode)
    /\ \A t \in Threads : pc[t] \in {"enable_rd", "enable_wr", "enable_ack", "set_mode"} =>
         intctr \ {"enable"} = TriggerBits(arg[t])

===============================================================================
