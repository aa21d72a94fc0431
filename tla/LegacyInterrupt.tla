---------------------------- MODULE LegacyInterrupt ----------------------------
(***************************************************************************)
(* The interrupt path of the older CH36x driver (CH36X_LINUX/drv) and of   *)
(* its library.  open, ENABLE_INT, DISABLE_INT and release each touch the  *)
(* enable bit of INTCR and the registered handlers a little differently:   *)
(* open clears the bit, ENABLE_INT sets it and requests the irq once more, *)
(* DISABLE_INT touches neither, release frees one handler if the bit is    *)
(* set.  The handler posts poll_flag for pollers, and the library's        *)
(* "interrupt routine" is a forked child that shares the open file.        *)
(*                                                                         *)
(* External: fork, kill, the VFS count of an open file's holders, poll(2), *)
(* and the interrupt line.  The trigger bits of INTCR are left out.        *)
(***************************************************************************)
EXTENDS Naturals, FiniteSets

CONSTANTS Client,   \* processes that use the library, or the driver directly
          Kid,      \* bound: the children they may fork
          File,     \* bound: open files at a time
          MaxIrq,   \* bound: handlers registered at a time
          None      \* no file, no child

ASSUME LegacyIrqAssumption == /\ MaxIrq \in Nat \ {0}
                              /\ None \notin File \union Kid \union Client
                              /\ Client \intersect Kid = {}

VARIABLES
  chip,       \* the kind of the device
  on,         \* the enable bit of INTCR; config byte 42h of a CH365
  latch,      \* the status bit the handler tests
  actions,    \* handlers request_irq has registered and free_irq has not freed
  poll_flag,
  isrAt,      \* where the handler is
  ioctlLock,  \* ch36x_fops_ioctl_mutex: the client that holds it
  callAt,     \* where each client is in its call
  openFiles,  \* files that are not yet released
  holders,    \* the processes that have each file open
  fd,         \* dev_fd of each client
  child_pid,  \* each client's child, None is 0, "failed" is -1
  alive,      \* the children that live
  woken,      \* the sleepers on ch36x_poll_queue that have been woken
  badFree,    \* has free_irq been called for a handler that is not registered?
  clean       \* history: one user, one enable, one routine at a time, and no failure

chipVars == <<chip, on, latch>>
fileVars == <<openFiles, holders, fd>>
kidVars  == <<child_pid, alive>>
irqVars  == <<chipVars, actions, poll_flag, isrAt, ioctlLock, callAt, fileVars, kidVars,
              woken, badFree, clean>>

NoFiles == [f \in File |-> {}]
IrqInit ==
  /\ chip \in {"CH365", "CH367", "CH368"} /\ on = FALSE /\ latch = FALSE
  /\ actions = 0 /\ poll_flag = 0 /\ isrAt = "idle"
  /\ ioctlLock = None /\ callAt = [c \in Client |-> "idle"]
  /\ openFiles = {} /\ holders = NoFiles /\ fd = [c \in Client |-> None]
  /\ child_pid = [c \in Client |-> None] /\ alive = {}
  /\ woken = {} /\ badFree = FALSE /\ clean = TRUE

Goes(c, to) == callAt' = [callAt EXCEPT ![c] = to]
Idle(c)     == callAt[c] = "idle"

--------------------------------------------------------------------------------
(* open(2): the write to INTCR clears the enable bit, whoever has set it.  *)
ch36x_fops_open(c) ==
  /\ Idle(c) /\ fd[c] = None /\ openFiles # File
  /\ on' = FALSE
  /\ LET f == CHOOSE f \in File : f \notin openFiles IN
     /\ openFiles' = openFiles \union {f}
     /\ holders' = [holders EXCEPT ![f] = {c}] /\ fd' = [fd EXCEPT ![c] = f]
  /\ clean' = (clean /\ openFiles = {})
  /\ UNCHANGED <<chip, latch, actions, poll_flag, isrAt, ioctlLock, kidVars, woken, badFree>>

(* CH36xOpenDevice may go on to ENABLE_INT with a trigger mode of NULL, on *)
(* which a CH367 returns -EINVAL; the file stays open.                     *)
CH36xOpenDevice(c, iEnableInterrupt) ==
  /\ ch36x_fops_open(c)
  /\ Goes(c, IF iEnableInterrupt THEN "enable0" ELSE "idle")

CallEnable(c) ==
  /\ Idle(c) /\ fd[c] # None /\ Goes(c, "enable")
  /\ UNCHANGED <<chipVars, actions, poll_flag, isrAt, ioctlLock, fileVars, kidVars,
                 woken, badFree, clean>>

(* Mutant: the enable bit is not set. *)
LockEnableNoBit(c) ==
  /\ callAt[c] \in {"enable", "enable0"} /\ ioctlLock = None
  /\ IF chip = "CH365" \/ (chip = "CH367" /\ callAt[c] = "enable0")
     THEN Goes(c, "idle") /\ UNCHANGED <<ioctlLock, on, clean>>
     ELSE /\ ioctlLock' = c /\ Goes(c, "request")
          /\ clean' = (clean /\ ~on) /\ UNCHANGED on
  /\ UNCHANGED <<chip, latch, actions, poll_flag, isrAt, fileVars, kidVars, woken, badFree>>

LockEnable(c) ==
  /\ callAt[c] \in {"enable", "enable0"} /\ ioctlLock = None
  /\ IF chip = "CH365" \/ (chip = "CH367" /\ callAt[c] = "enable0")
     THEN Goes(c, "idle") /\ UNCHANGED <<ioctlLock, on, clean>>
     ELSE /\ ioctlLock' = c /\ Goes(c, "request")
          /\ on' = TRUE /\ clean' = (clean /\ ~on)
  /\ UNCHANGED <<chip, latch, actions, poll_flag, isrAt, fileVars, kidVars, woken, badFree>>

(* request_irq again registers the handler again; it may fail, for memory  *)
(* or because the trigger differs, and then the bit stays set.             *)
RequestIrq(c) ==
  /\ callAt[c] = "request"
  /\ \/ actions < MaxIrq /\ actions' = actions + 1 /\ UNCHANGED clean
     \/ clean' = FALSE /\ UNCHANGED actions
  /\ ioctlLock' = None /\ Goes(c, "idle")
  /\ UNCHANGED <<chipVars, poll_flag, isrAt, fileVars, kidVars, woken, badFree>>

(* DISABLE_INT clears bit 2 and leaves the enable bit, bit 1, as it is: it *)
(* changes nothing here.  close(2) and what follows the last close:        *)
CH36xCloseDevice(c) ==
  /\ Idle(c) /\ fd[c] # None
  /\ holders' = [holders EXCEPT ![fd[c]] = @ \ {c}] /\ fd' = [fd EXCEPT ![c] = None]
  /\ UNCHANGED <<chipVars, actions, poll_flag, isrAt, ioctlLock, callAt, openFiles, kidVars,
                 woken, badFree, clean>>

(* Mutant: release frees the handler without a look at the enable bit. *)
ReleaseAlways(f) ==
  /\ f \in openFiles /\ holders[f] = {}
  /\ actions > 0 => isrAt = "idle"
  /\ openFiles' = openFiles \ {f}
  /\ actions' = actions - 1 /\ badFree' = (badFree \/ actions = 0)
  /\ UNCHANGED <<chipVars, poll_flag, isrAt, ioctlLock, callAt, holders, fd, kidVars,
                 woken, clean>>

(* free_irq waits for a running handler.                                   *)
ch36x_fops_release(f) ==
  /\ f \in openFiles /\ holders[f] = {}
  /\ on /\ actions > 0 => isrAt = "idle"
  /\ openFiles' = openFiles \ {f}
  /\ actions' = IF on /\ actions > 0 THEN actions - 1 ELSE actions
  /\ badFree' = (badFree \/ (on /\ actions = 0))
  /\ UNCHANGED <<chipVars, poll_flag, isrAt, ioctlLock, callAt, holders, fd, kidVars,
                 woken, clean>>

--------------------------------------------------------------------------------
(* CH36xSetIntRoutine(routine) forks; the child inherits the open file and *)
(* calls the routine for ever.  It has no look at the child it had before. *)
InstallRoutine(c) ==
  /\ Idle(c) /\ fd[c] # None /\ alive # Kid
  /\ LET k == CHOOSE k \in Kid : k \notin alive IN
     /\ alive' = alive \union {k} /\ child_pid' = [child_pid EXCEPT ![c] = k]
     /\ holders' = [f \in File |-> IF c \in holders[f] THEN holders[f] \union {k} ELSE holders[f]]
  /\ clean' = (clean /\ child_pid[c] \notin alive)
  /\ UNCHANGED <<chipVars, actions, poll_flag, isrAt, ioctlLock, callAt, openFiles, fd,
                 woken, badFree>>

InstallFails(c) ==
  /\ Idle(c) /\ fd[c] # None
  /\ child_pid' = [child_pid EXCEPT ![c] = "failed"] /\ clean' = FALSE
  /\ UNCHANGED <<chipVars, actions, poll_flag, isrAt, ioctlLock, callAt, fileVars, alive,
                 woken, badFree>>

(* CH36xSetIntRoutine(NULL) kills child_pid, and with -1 every process of  *)
(* the user, here the children; child_pid keeps its value.                 *)
RemoveRoutine(c) ==
  /\ Idle(c) /\ child_pid[c] # None
  /\ LET killed == IF child_pid[c] = "failed" THEN Kid ELSE {child_pid[c]} IN
     /\ alive' = alive \ killed
     /\ holders' = [f \in File |-> holders[f] \ killed]
  /\ UNCHANGED <<chipVars, actions, poll_flag, isrAt, ioctlLock, callAt, openFiles, fd,
                 child_pid, woken, badFree, clean>>

--------------------------------------------------------------------------------
(* The chip interrupts; the handlers of the three chips differ only in     *)
(* where the status register is.                                           *)
Interrupt ==
  /\ on /\ ~latch /\ latch' = TRUE
  /\ UNCHANGED <<chip, on, actions, poll_flag, isrAt, ioctlLock, callAt, fileVars, kidVars,
                 woken, badFree, clean>>

IsrFlag ==
  /\ isrAt = "idle" /\ actions > 0 /\ latch
  /\ poll_flag' = 1 /\ isrAt' = "wake"
  /\ UNCHANGED <<chipVars, actions, ioctlLock, callAt, fileVars, kidVars, woken, badFree, clean>>

(* Mutant: the handler sets the flag and wakes nobody. *)
IsrWakeNot ==
  /\ isrAt = "wake" /\ isrAt' = "ack"
  /\ UNCHANGED <<chipVars, actions, poll_flag, ioctlLock, callAt, fileVars, kidVars,
                 woken, badFree, clean>>

IsrWake ==
  /\ isrAt = "wake" /\ isrAt' = "ack"
  /\ woken' = {c \in Client : callAt[c] \in {"poll", "sleep"}}
  /\ UNCHANGED <<chipVars, actions, poll_flag, ioctlLock, callAt, fileVars, kidVars,
                 badFree, clean>>

IsrAck ==
  /\ isrAt = "ack" /\ isrAt' = "idle" /\ latch' = FALSE
  /\ UNCHANGED <<chip, on, actions, poll_flag, ioctlLock, callAt, fileVars, kidVars, woken,
                 badFree, clean>>

(* poll(2): poll_wait queues the caller, then ch36x_fops_poll tests and    *)
(* clears the flag; with nothing to report the caller sleeps until woken.  *)
PollWait(c) ==
  /\ Idle(c) /\ fd[c] # None /\ Goes(c, "poll") /\ woken' = woken \ {c}
  /\ UNCHANGED <<chipVars, actions, poll_flag, isrAt, ioctlLock, fileVars, kidVars, badFree, clean>>

PollTest(c) ==
  /\ callAt[c] = "poll"
  /\ Goes(c, IF poll_flag = 1 THEN "idle" ELSE "sleep") /\ poll_flag' = 0
  /\ UNCHANGED <<chipVars, actions, isrAt, ioctlLock, fileVars, kidVars, woken, badFree, clean>>

PollWoken(c) ==
  /\ callAt[c] = "sleep" /\ c \in woken
  /\ Goes(c, "poll") /\ woken' = woken \ {c}
  /\ UNCHANGED <<chipVars, actions, poll_flag, isrAt, ioctlLock, fileVars, kidVars, badFree, clean>>

Poll(c) == PollTest(c) \/ PollWoken(c)
Isr     == IsrFlag \/ IsrWake \/ IsrAck

Driving(c) == \/ \E int \in BOOLEAN : CH36xOpenDevice(c, int)
              \/ CallEnable(c) \/ LockEnable(c) \/ RequestIrq(c) \/ CH36xCloseDevice(c)
Routine(c) == InstallRoutine(c) \/ InstallFails(c) \/ RemoveRoutine(c)
Polling(c) == PollWait(c) \/ Poll(c)
Device     == Interrupt \/ Isr \/ \E f \in File : ch36x_fops_release(f)

IrqNext == Device \/ \E c \in Client : Driving(c) \/ Routine(c) \/ Polling(c)

IrqSpec == IrqInit /\ [][IrqNext]_irqVars

--------------------------------------------------------------------------------
IrqTypeOK ==
  /\ chip \in {"CH365", "CH367", "CH368"} /\ {on, latch, badFree, clean} \subseteq BOOLEAN
  /\ actions \in 0 .. MaxIrq /\ poll_flag \in {0, 1} /\ isrAt \in {"idle", "wake", "ack"}
  /\ ioctlLock \in Client \union {None}
  /\ callAt \in [Client -> {"idle", "enable", "enable0", "request", "poll", "sleep"}]
  /\ openFiles \subseteq File /\ holders \in [File -> SUBSET (Client \union Kid)]
  /\ fd \in [Client -> File \union {None}]
  /\ child_pid \in [Client -> Kid \union {None, "failed"}]
  /\ alive \subseteq Kid /\ woken \subseteq Client

(* A user who has the device to himself, enables once and installs one     *)
(* routine at a time loses nothing: every child is one that removing the   *)
(* routine kills, and the last close, be it the child's, frees the one     *)
(* handler there is, though release decides by a bit that open clears and  *)
(* DISABLE_INT does not.                                                   *)
SoleUserFreesIrq ==
  clean => /\ ~badFree
           /\ alive \subseteq {child_pid[c] : c \in Client}
           /\ openFiles = {} => actions = 0

(* No wake-up is lost: while an event is posted, whoever sleeps in poll(2) *)
(* has been woken for it or is about to be, because a poller queues before *)
(* it tests the flag and the handler sets the flag before it wakes.        *)
NoSleeperMissed ==
  poll_flag = 1 =>
    \A c \in Client : callAt[c] = "sleep" => c \in woken \/ isrAt = "wake"

(* A posted event is taken by some poller if there is one: the flag is set *)
(* before the wake-up and tested after queueing, so nobody sleeps past it. *)
PostedIsSeen ==
  poll_flag = 1 /\ (\E c \in Client : callAt[c] \in {"poll", "sleep"})
    ~> poll_flag = 0
===============================================================================
