------------------------------- MODULE LegacyProbe -------------------------------
(***************************************************************************)
(* The life of the older CH36x driver and of its devices: probe with its   *)
(* ladder of labels, ch36x_register_chrdev with the class and the device   *)
(* numbers that all devices share, and the module's exit, which does the   *)
(* work the empty remove function leaves undone, while the driver is still *)
(* registered: a device may be probed beside it.                           *)
(*                                                                         *)
(* External: the PCI core and the calls of the driver model.  A class is   *)
(* an object in sysfs; ch36x_class may point to it, hold an error, or      *)
(* point to one that is gone.  Assumed: no two probes overlap (they would  *)
(* share probe's static variable too), and each device is probed once.     *)
(***************************************************************************)
EXTENDS Naturals, Sequences, FiniteSets

CONSTANTS Dev, NoDev

ASSUME LegacyProbeAssumption == NoDev \notin Dev /\ IsFiniteSet(Dev)

Steps == <<"enabled", "memory", "flags", "regions", "ioport", "iomem", "region",
           "class", "cdev", "node">>
Held  == {"enabled", "memory", "regions", "ioport", "iomem", "cdev", "node"}

VARIABLES
  stage,      \* of the module: loaded, exit's loop, closing, unregister, gone
  probing,    \* the device in probe, or in exit's loop
  step,       \* what probe is about to acquire
  has,        \* what is held for each device
  endedAt,    \* where each device's probe has ended: "new", "listed", or the step that failed
  stored,     \* are the mapped addresses in the device's structure yet?
  list,       \* g_private_head
  count,      \* g_dev_count
  major,      \* is CH36x_MAJOR set?
  numbers,    \* the range of CH36x_DEV_NUM device numbers is allocated
  class,      \* ch36x_class: null, ok, error or gone
  classObj,   \* the class is in sysfs
  crashed,    \* has a class been used that is not there?
  late        \* history: has a device entered the list after exit had begun?

probeVars == <<stage, probing, step, has, endedAt, stored, list, count, major, numbers,
               class, classObj, crashed, late>>

(* ch36x_init; if pci_register_driver fails it says so, and returns 0.     *)
ProbeInit ==
  /\ stage = "loaded" /\ probing = NoDev /\ step = 1
  /\ has = [d \in Dev |-> {}] /\ endedAt = [d \in Dev |-> "new"] /\ stored = FALSE
  /\ list = << >> /\ count = 0 /\ major = FALSE /\ numbers = FALSE
  /\ class = "null" /\ classObj = FALSE /\ crashed = FALSE /\ late = FALSE

Listed == {list[i] : i \in 1 .. Len(list)}
At(d, what) == stage # "gone" /\ probing = d /\ Steps[step] = what

(* The driver can be given a device until pci_unregister_driver, the last  *)
(* call of exit.                                                           *)
BeginProbe(d) ==
  /\ stage # "gone" /\ probing = NoDev /\ endedAt[d] = "new"
  /\ probing' = d /\ step' = 1 /\ stored' = FALSE
  /\ UNCHANGED <<stage, has, endedAt, list, count, major, numbers, class, classObj, crashed,
                 late>>

TakeNext(d) ==
  /\ \E what \in {"enabled", "memory", "flags", "regions", "ioport", "iomem"} :
       /\ At(d, what)
       /\ has' = [has EXCEPT ![d] = @ \union ({what} \intersect Held)]
       /\ stored' = (what = "iomem")
  /\ step' = step + 1
  /\ UNCHANGED <<stage, probing, endedAt, list, count, major, numbers, class, classObj, crashed,
                 late>>

(* What the label a failed step jumps to gives back.  The maps are undone  *)
(* through the addresses in the structure, which are still 0 when ioremap  *)
(* fails, and out of memory returns without a label.                       *)
Maps == IF stored THEN {"iomem", "ioport"} ELSE {}
GivenBack(what) ==
  CASE what \in {"enabled", "memory"} -> {}
    [] what = "flags"                 -> {"memory", "enabled"}
    [] what = "regions"               -> {"regions", "memory", "enabled"}
    [] what = "ioport"                -> (Maps \ {"iomem"}) \union {"regions", "memory", "enabled"}
    [] OTHER                          -> Maps \union {"regions", "memory", "enabled"}

EndProbe(d, what) ==
  /\ probing' = NoDev /\ endedAt' = [endedAt EXCEPT ![d] = what]
  /\ UNCHANGED <<stage, step, stored, list, count, late>>

FailTake(d) ==
  \E what \in {"enabled", "memory", "flags", "regions", "ioport", "iomem"} :
     /\ At(d, what)
     /\ has' = [has EXCEPT ![d] = @ \ GivenBack(what)]
     /\ EndProbe(d, what)
     /\ UNCHANGED <<major, numbers, class, classObj, crashed>>

(* class_destroy does nothing for NULL and for an error.                   *)
DestroyClass ==
  /\ class' = IF class = "ok" THEN "gone" ELSE class
  /\ classObj' = (classObj /\ class # "ok")
  /\ crashed' = (crashed \/ class = "gone")

(* ch36x_register_chrdev.  Only the first device allocates the numbers and *)
(* creates the class; if that allocation fails, the class is created all   *)
(* the same, and left.                                                     *)
SkipNumbers(d) ==
  /\ At(d, "region") /\ major /\ step' = step + 2
  /\ UNCHANGED <<stage, probing, has, endedAt, stored, list, count, major, numbers,
                 class, classObj, crashed, late>>

AllocNumbers(d) ==
  /\ At(d, "region") /\ ~major
  /\ major' = TRUE /\ numbers' = TRUE /\ step' = step + 1
  /\ UNCHANGED <<stage, probing, has, endedAt, stored, list, count, class, classObj, crashed,
                 late>>

AllocFails(d) ==
  /\ At(d, "region") /\ ~major
  /\ \/ ~classObj /\ class' = "ok" /\ classObj' = TRUE
     \/ class' = "error" /\ UNCHANGED classObj
  /\ has' = [has EXCEPT ![d] = @ \ GivenBack("region")]
  /\ EndProbe(d, "region")
  /\ UNCHANGED <<major, numbers, crashed>>

CreateClass(d) ==
  /\ At(d, "class") /\ ~classObj
  /\ class' = "ok" /\ classObj' = TRUE /\ step' = step + 1
  /\ UNCHANGED <<stage, probing, has, endedAt, stored, list, count, major, numbers, crashed,
                 late>>

ClassFails(d) ==
  /\ At(d, "class")
  /\ class' = "error" /\ numbers' = FALSE
  /\ has' = [has EXCEPT ![d] = @ \ GivenBack("class")]
  /\ EndProbe(d, "class")
  /\ UNCHANGED <<major, classObj, crashed>>

AddCdev(d) ==
  /\ At(d, "cdev")
  /\ has' = [has EXCEPT ![d] = @ \union {"cdev"}] /\ step' = step + 1
  /\ UNCHANGED <<stage, probing, endedAt, stored, list, count, major, numbers, class,
                 classObj, crashed, late>>

(* The class is destroyed though other devices use it, and the range is    *)
(* unregistered, which works from its first number only.                   *)
CdevFails(d) ==
  /\ At(d, "cdev")
  /\ DestroyClass /\ numbers' = (numbers /\ count # 0)
  /\ has' = [has EXCEPT ![d] = @ \ GivenBack("cdev")]
  /\ EndProbe(d, "cdev")
  /\ UNCHANGED major

(* device_create's result is ignored.  Then probe enters the device in the *)
(* list and returns.                                                       *)
CreateNode(d) ==
  /\ At(d, "node")
  /\ \/ class = "ok" /\ has' = [has EXCEPT ![d] = @ \union {"node"}]
     \/ UNCHANGED has
  /\ crashed' = (crashed \/ class = "gone")
  /\ list' = Append(list, d) /\ count' = count + 1
  /\ probing' = NoDev /\ endedAt' = [endedAt EXCEPT ![d] = "listed"]
  /\ late' = (late \/ stage # "loaded")
  /\ UNCHANGED <<stage, step, stored, major, numbers, class, classObj>>

--------------------------------------------------------------------------------
(* ch36x_exit: everything of each listed device, in one loop.  The loop    *)
(* looks up the next device before it starts on one; a device that enters  *)
(* too late for that is left as if it entered after the loop.  The range   *)
(* of numbers is not matched by the single one unregistered here, and the  *)
(* structure is read for pci_disable_device after it is freed: whether the *)
(* device is disabled is open.                                             *)
ExitLoop(devices) == IF devices = << >> THEN "closing" ELSE "exit"

BeginExit ==
  /\ stage = "loaded" /\ stage' = ExitLoop(list)
  /\ UNCHANGED <<probing, step, has, endedAt, stored, list, count, major, numbers, class,
                 classObj, crashed, late>>

ExitDevice ==
  /\ stage = "exit" /\ ~crashed
  /\ crashed' = (class \in {"error", "gone"})     \* device_destroy looks into the class
  /\ list' = Tail(list) /\ stage' = ExitLoop(list')
  /\ \E left \in SUBSET {"enabled"} :
       has' = [has EXCEPT ![Head(list)] =
                 @ \ ({"node", "cdev", "iomem", "ioport", "regions", "memory", "enabled"} \ left)]
  /\ UNCHANGED <<probing, step, endedAt, stored, count, major, numbers, class, classObj, late>>

(* Mutant: exit does not destroy the class. *)
CloseClassKeeps ==
  /\ stage = "closing" /\ ~crashed
  /\ stage' = "unregister" /\ count' = 0
  /\ UNCHANGED <<probing, step, has, endedAt, stored, list, major, numbers, class, classObj,
                 crashed, late>>

(* The class goes if the list is empty, as it is unless a probe filled it. *)
CloseClass ==
  /\ stage = "closing" /\ ~crashed
  /\ stage' = "unregister" /\ count' = 0
  /\ \/ list = << >> /\ DestroyClass
     \/ list # << >> /\ UNCHANGED <<class, classObj, crashed>>
  /\ UNCHANGED <<probing, step, has, endedAt, stored, list, major, numbers, late>>

(* pci_unregister_driver waits for a probe, and removes what is bound: for *)
(* which the driver does nothing.                                          *)
EndExit ==
  /\ stage = "unregister" /\ probing = NoDev /\ ~crashed
  /\ stage' = "gone"
  /\ UNCHANGED <<probing, step, has, endedAt, stored, list, count, major, numbers, class,
                 classObj, crashed, late>>

ProbeNext == \/ \E d \in Dev : \/ BeginProbe(d) \/ TakeNext(d) \/ FailTake(d)
                               \/ SkipNumbers(d) \/ AllocNumbers(d) \/ AllocFails(d)
                               \/ CreateClass(d) \/ ClassFails(d)
                               \/ AddCdev(d) \/ CdevFails(d) \/ CreateNode(d)
             \/ BeginExit \/ ExitDevice \/ CloseClass \/ EndExit

ProbeSpec == ProbeInit /\ [][ProbeNext]_probeVars

--------------------------------------------------------------------------------
ProbeTypeOK ==
  /\ stage \in {"loaded", "exit", "closing", "unregister", "gone"}
  /\ probing \in Dev \union {NoDev}
  /\ step \in 1 .. Len(Steps) /\ has \in [Dev -> SUBSET Held]
  /\ endedAt \in [Dev -> {"new", "listed"} \union {Steps[i] : i \in 1 .. Len(Steps)}]
  /\ Listed \subseteq Dev /\ count \in 0 .. Cardinality(Dev)
  /\ class \in {"null", "ok", "error", "gone"}
  /\ {stored, major, numbers, classObj, crashed, late} \subseteq BOOLEAN

(* What the module can leave behind: a device that ran out of memory stays *)
(* enabled, one whose memory could not be mapped keeps its ports mapped, a *)
(* listed one may stay enabled; and the numbers, once a device is listed.  *)
(* Everything else is given back by probe's labels or by exit, and no      *)
(* class is used that is not there, unless the registration of some device *)
(* failed or one entered the list after exit had begun; a device that      *)
(* fails before that, beside exit or not, harms no other.                  *)
KnownLeft(d) == CASE endedAt[d] = "memory" -> {"enabled"}
                  [] endedAt[d] = "iomem"  -> {"ioport"}
                  [] endedAt[d] = "listed" -> {"enabled"}
                  [] OTHER                 -> {}
RegistrationFailed == \E d \in Dev : endedAt[d] \in {"region", "class", "cdev"}
ExitReleasesListed ==
  ~RegistrationFailed /\ ~late =>
    /\ ~crashed
    /\ \A d \in Dev : "node" \in has[d] => classObj
    /\ stage = "gone" => /\ ~classObj
                         /\ \A d \in Dev : has[d] \subseteq KnownLeft(d)
                         /\ numbers => \E d \in Dev : endedAt[d] = "listed"
===============================================================================
