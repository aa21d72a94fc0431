------------------------------ MODULE Ch36xDriver ------------------------------
(***************************************************************************)
(* The life of the V1.21 CH36x driver (src/pcie/ch36x_linux-main/drv/      *)
(* ch36x.c): loading and unloading the module, binding it to PCI devices   *)
(* step by step with every failure the code handles, unbinding, and the    *)
(* file operations, which find their device by walking the unlocked global *)
(* list while devices come and go.                                         *)
(*                                                                         *)
(* External, modelled from how the driver uses it: the PCI core (which     *)
(* device is probed or removed when), cdev lookup and the module reference *)
(* that .owner = THIS_MODULE makes the VFS take before it calls open.      *)
(***************************************************************************)
EXTENDS Naturals

CONSTANTS Devs,       \* PCI functions with a CH36x id
          Files,      \* open file descriptions
          CountMod,   \* g_dev_count is an unsigned char: 256
          Surprise,   \* may a device disappear while it is in use?
          MaxPlugs,   \* bound: devices plugged in per load of the module
          PrivateHead, \* &g_private_head, where a walk ends
          Freed       \* a pointer into memory that was freed or unlinked

ASSUME CountAssumption   == CountMod \in Nat \ {0} /\ MaxPlugs \in Nat
ASSUME SurpriseAssumption == Surprise \in BOOLEAN
ASSUME PointerAssumption  == PrivateHead # Freed /\ {PrivateHead, Freed} \intersect Devs = {}

VARIABLES
  mod,        \* where module init or exit is
  class,      \* does ch36x_class exist?
  region,     \* are the char device numbers registered?
  registered, \* is the driver on the PCI bus?
  fresh,      \* devices the bus still has to offer to the driver
  plugged,    \* devices on the bus
  gDevCount,  \* g_dev_count
  plugs,      \* plug-ins since load (for the bound)
  next,       \* the ->next pointers of g_private_head and of each ch36x_dev
  dpc,        \* where the probe or remove of each device is
  held,       \* what each device's ch36x_dev stands for and has acquired
  left,       \* what a struct still stood for when it was freed, and nobody gave back
  minor,      \* MINOR(ch36x_dev->ch36x_dev)
  op,         \* what each file is doing
  kind,       \* the file operation that is running
  node,       \* the minor of the file's inode
  cur,        \* pos of the operation's list walk, then its ch36x_dev
  ahead,      \* pos_tmp of the walk
  removed,    \* history: devices on which a removal has come to its end
  miscounted, \* history: g_dev_count was read by two probes at once, or came round
  tangled,    \* history: two list operations ran at once, with no lock
  overtaken   \* history: what a walk stood on or was going to was unlinked under it

modVars  == <<mod, class, region, registered>>
busVars  == <<fresh, plugged, plugs>>
heldVars == <<held, left, removed>>
numVars  == <<minor, gDevCount, miscounted>>
listVars == <<next, tangled>>
devVars  == <<dpc, heldVars, numVars, listVars>>
fileVars == <<op, kind, node, cur, ahead, overtaken>>
vars == <<modVars, busVars, devVars, fileVars>>

Kinds == {"open", "ioctl", "fasync", "release"}

ProbeSteps  == {"alloc", "enable", "regions", "map", "irq", "cdev", "node", "list", "count"}
UnwindSteps == {"undo_irq", "undo_map", "undo_regions", "undo_enable", "undo_alloc"}
RemoveSteps == {"rm_node", "rm_cdev", "rm_irq", "rm_map", "rm_regions", "rm_list", "rm_free"}

Binding(d)  == dpc[d] \in ProbeSteps \union UnwindSteps
Removing(d) == dpc[d] \in RemoveSteps

Init ==
  /\ mod = "out" /\ class = FALSE /\ region = FALSE /\ registered = FALSE
  /\ fresh = {} /\ plugged \in SUBSET Devs /\ plugs = 0
  /\ gDevCount = 0
  /\ next = [n \in Devs \union {PrivateHead} |-> IF n = PrivateHead THEN PrivateHead ELSE Freed]
  /\ dpc = [d \in Devs |-> "unbound"]
  /\ held = [d \in Devs |-> {}]
  /\ left = [d \in Devs |-> {}]
  /\ removed = {} /\ miscounted = FALSE /\ tangled = FALSE
  /\ minor = [d \in Devs |-> 0]
  /\ op = [f \in Files |-> "closed"]
  /\ kind = [f \in Files |-> "open"]
  /\ node = [f \in Files |-> 0]
  /\ cur = [f \in Files |-> PrivateHead]
  /\ ahead = [f \in Files |-> PrivateHead]
  /\ overtaken = [f \in Files |-> FALSE]

-----------------------------------------------------------------------------
(* ch36x_init and ch36x_exit *)

ModGoto(from, to) == mod = from /\ mod' = to

\* insmod: fresh module data, class_create
Load ==
  /\ mod = "out"
  /\ \/ mod' = "class" /\ class' = TRUE
     \/ UNCHANGED <<mod, class>>          \* IS_ERR: return the error
  /\ gDevCount' = 0 /\ miscounted' = FALSE /\ plugs' = 0
  /\ next' = [next EXCEPT ![PrivateHead] = PrivateHead] /\ tangled' = FALSE
  /\ UNCHANGED <<region, registered, fresh, plugged, dpc, heldVars, minor, fileVars>>

AllocRegion ==
  /\ \/ ModGoto("class", "region") /\ region' = TRUE
     \/ ModGoto("class", "undo_class") /\ UNCHANGED region
  /\ UNCHANGED <<class, registered, busVars, devVars, fileVars>>

\* pci_register_driver offers the driver every device on the bus
Register ==
  /\ \/ ModGoto("region", "attach") /\ registered' = TRUE /\ fresh' = plugged
     \/ ModGoto("region", "undo_region") /\ UNCHANGED <<registered, fresh>>
  /\ UNCHANGED <<class, region, plugged, plugs, devVars, fileVars>>

Attached ==
  /\ ModGoto("attach", "live")
  /\ fresh = {} /\ \A d \in Devs : ~Binding(d)
  /\ UNCHANGED <<class, region, registered, busVars, devVars, fileVars>>

\* rmmod: only when no file holds a reference to the module
Unload ==
  /\ ModGoto("live", "exit")
  /\ \A f \in Files : op[f] = "closed"
  /\ gDevCount' = 0
  /\ UNCHANGED <<class, region, registered, busVars, dpc, heldVars, minor, miscounted, listVars,
                 fileVars>>

\* Mutant: the device numbers are given back before the driver is unregistered.
UnregisterLate ==
  /\ ModGoto("exit", "undo_region")
  /\ registered' = FALSE /\ fresh' = {}
  /\ UNCHANGED <<class, region, plugged, plugs, devVars, fileVars>>

\* pci_unregister_driver: off the bus first, then every device is removed
Unregister ==
  /\ ModGoto("exit", "detach")
  /\ registered' = FALSE /\ fresh' = {}
  /\ UNCHANGED <<class, region, plugged, plugs, devVars, fileVars>>

Detached ==
  /\ ModGoto("detach", "undo_region")
  /\ \A d \in Devs : dpc[d] = "unbound"
  /\ UNCHANGED <<class, region, registered, busVars, devVars, fileVars>>

\* unregister_chrdev_region and class_destroy, in exit and in init's error path
UndoRegion ==
  /\ ModGoto("undo_region", "undo_class")
  /\ region' = FALSE
  /\ UNCHANGED <<class, registered, busVars, devVars, fileVars>>

UndoClass ==
  /\ ModGoto("undo_class", "out")
  /\ class' = FALSE
  /\ UNCHANGED <<region, registered, busVars, devVars, fileVars>>

ModuleStep == AllocRegion \/ Register \/ Attached \/ Unregister \/ Detached
                \/ UndoRegion \/ UndoClass

-----------------------------------------------------------------------------
(* ch36x_pci_probe *)

DevGoto(d, from, to) == dpc[d] = from /\ dpc' = [dpc EXCEPT ![d] = to]
Acquire(d, r) == held' = [held EXCEPT ![d] = @ \union {r}]
Drop(d, r)    == held' = [held EXCEPT ![d] = @ \ {r}]

\* The bus offers a device under that device's lock, and only while the module is
\* in; nothing keeps the probes and removals of two devices apart.  The record of
\* what the last struct left starts anew.
Probe(d) ==
  /\ registered /\ d \in fresh
  /\ DevGoto(d, "unbound", "alloc")
  /\ fresh' = fresh \ {d}
  /\ left' = [left EXCEPT ![d] = {}] /\ removed' = removed \ {d}
  /\ UNCHANGED <<modVars, plugged, plugs, held, numVars, listVars, fileVars>>

\* A step that acquires r or fails into the error path.
Try(d, step, r, onSuccess, onFailure) ==
  /\ \/ DevGoto(d, step, onSuccess) /\ Acquire(d, r)
     \/ DevGoto(d, step, onFailure) /\ UNCHANGED held
  /\ UNCHANGED <<modVars, busVars, left, removed, numVars, listVars, fileVars>>

\* Mutant: the error path jumps one label too far down.
MapKeepsRegions(d) == Try(d, "map", "iomap", "irq", "undo_enable")
Alloc(d)      == Try(d, "alloc", "mem", "enable", "unbound")
EnableDevice(d) == Try(d, "enable", "enabled", "regions", "undo_alloc")
ReqRegions(d) == Try(d, "regions", "regions", "map", "undo_enable")
MapDevice(d)  == Try(d, "map", "iomap", "irq", "undo_regions")
RequestIrq(d) == Try(d, "irq", "irq", "cdev", "undo_map")

\* Another probe has read g_dev_count and not yet incremented it.
Counting(d) == \E e \in Devs \ {d} : dpc[e] \in {"node", "list", "count"}

\* cdev_add under MKDEV(ch36x_major, g_dev_count): the device can be opened from here on
AddCdev(d) ==
  /\ minor' = [minor EXCEPT ![d] = gDevCount]
  /\ \/ DevGoto(d, "cdev", "node") /\ Acquire(d, "cdev")
        /\ miscounted' = (miscounted \/ Counting(d))
     \/ DevGoto(d, "cdev", "undo_irq") /\ UNCHANGED <<held, miscounted>>
  /\ UNCHANGED <<modVars, busVars, left, removed, gDevCount, listVars, fileVars>>

\* The devices with a node for d's number; a node is found by its number alone.
NodesOf(d) == {e \in Devs : "node" \in held[e] /\ minor[e] = minor[d]}

\* device_create: it fails when the number has a node; a failure is logged and
\* the probe goes on
CreateNode(d) ==
  /\ DevGoto(d, "node", "list")
  /\ \/ NodesOf(d) = {} /\ Acquire(d, "node")
     \/ UNCHANGED held
  /\ UNCHANGED <<modVars, busVars, left, removed, numVars, listVars, fileVars>>

\* Another device is at its list_add_tail or list_del.
Crossing(d) == \E e \in Devs \ {d} : dpc[e] \in {"list", "rm_list"}

\* Mutant: the new entry is linked to itself.
ListAddSelf(d) ==
  /\ DevGoto(d, "list", "count")
  /\ tangled' = (tangled \/ Crossing(d))
  /\ \/ \E last \in DOMAIN next :
          next[last] = PrivateHead /\ next' = [next EXCEPT ![last] = d, ![d] = d]
     \/ tangled' /\ next' = [next EXCEPT ![d] = PrivateHead]
  /\ UNCHANGED <<modVars, busVars, heldVars, numVars, fileVars>>

\* Once list operations have crossed, the prev pointers may be wrong: an entry
\* may be linked where no walk comes by.
ListAddTail(d) ==
  /\ DevGoto(d, "list", "count")
  /\ tangled' = (tangled \/ Crossing(d))
  /\ \/ \E last \in DOMAIN next :
          next[last] = PrivateHead /\ next' = [next EXCEPT ![last] = d, ![d] = PrivateHead]
     \/ tangled' /\ next' = [next EXCEPT ![d] = PrivateHead]
  /\ UNCHANGED <<modVars, busVars, heldVars, numVars, fileVars>>

\* Mutant: the count is not an unsigned char.
CountDevWide(d) ==
  /\ DevGoto(d, "count", "bound")
  /\ gDevCount' = gDevCount + 1
  /\ UNCHANGED <<modVars, busVars, heldVars, minor, miscounted, listVars, fileVars>>

\* g_dev_count++, which loses a count to another device's at the same time
CountDev(d) ==
  /\ DevGoto(d, "count", "bound")
  /\ \/ gDevCount' = (gDevCount + 1) % CountMod
     \/ (\E e \in Devs \ {d} : dpc[e] = "count") /\ UNCHANGED gDevCount
  /\ miscounted' = (miscounted \/ gDevCount' = 0)
  /\ UNCHANGED <<modVars, busVars, heldVars, minor, listVars, fileVars>>

\* The labels remove_isr, unmap, free_regions, disable and free, falling through.
Undo(d, step, r, then) ==
  /\ DevGoto(d, step, then)
  /\ Drop(d, r)
  /\ UNCHANGED <<modVars, busVars, left, removed, numVars, listVars, fileVars>>

\* Mutant: a probe that could not get its regions tries them again.
UndoRegionsRetry(d) == Undo(d, "undo_regions", "regions", "regions")

UndoIrq(d)     == Undo(d, "undo_irq", "irq", "undo_map")
UndoMap(d)     == Undo(d, "undo_map", "iomap", "undo_regions")
UndoRegions(d) == Undo(d, "undo_regions", "regions", "undo_enable")
UndoEnable(d)  == Undo(d, "undo_enable", "enabled", "undo_alloc")

\* kfree: every pointer to the struct dangles; of what it stood for beside the
\* memory, nobody knows any more
Kfree(d) ==
  /\ left' = [left EXCEPT ![d] = @ \union (held[d] \ {"mem"})]
  /\ held' = [held EXCEPT ![d] = {}]
  /\ minor' = [minor EXCEPT ![d] = 0]
  /\ next' = [n \in DOMAIN next |-> IF next[n] = d THEN Freed ELSE next[n]]
  /\ cur' = [f \in Files |-> IF cur[f] = d THEN Freed ELSE cur[f]]
  /\ ahead' = [f \in Files |-> IF ahead[f] = d THEN Freed ELSE ahead[f]]
  /\ UNCHANGED <<modVars, busVars, tangled, op, kind, node, overtaken>>

UndoAlloc(d) ==
  /\ DevGoto(d, "undo_alloc", "unbound")
  /\ Kfree(d)
  /\ UNCHANGED <<removed, gDevCount, miscounted>>

ProbeStep(d) == Alloc(d) \/ EnableDevice(d) \/ ReqRegions(d) \/ MapDevice(d) \/ RequestIrq(d)
                  \/ AddCdev(d) \/ CreateNode(d) \/ ListAddTail(d) \/ CountDev(d)
UndoStep(d)  == UndoIrq(d) \/ UndoMap(d) \/ UndoRegions(d) \/ UndoEnable(d) \/ UndoAlloc(d)

-----------------------------------------------------------------------------
(* ch36x_pci_remove: no pci_disable_device *)

Remove(d) ==
  /\ mod = "detach" \/ (registered /\ d \notin plugged)
  /\ DevGoto(d, "bound", "rm_node")
  /\ UNCHANGED <<modVars, busVars, heldVars, numVars, listVars, fileVars>>

\* Mutant: list_del is forgotten.
RelRegionsKeepsLink(d) == Undo(d, "rm_regions", "regions", "rm_free")

\* Mutant: free_irq is forgotten.
DelCdevKeepsIrq(d) == Undo(d, "rm_cdev", "cdev", "rm_map")

\* device_destroy takes down the node with d's number, whosever it is
DestroyNode(d) ==
  /\ DevGoto(d, "rm_node", "rm_cdev")
  /\ held' = [e \in Devs |-> IF e \in NodesOf(d) THEN held[e] \ {"node"} ELSE held[e]]
  /\ UNCHANGED <<modVars, busVars, left, removed, numVars, listVars, fileVars>>

DelCdev(d)     == Undo(d, "rm_cdev", "cdev", "rm_irq")
FreeIrq(d)     == Undo(d, "rm_irq", "irq", "rm_map")
Unmap(d)       == Undo(d, "rm_map", "iomap", "rm_regions")
RelRegions(d)  == Undo(d, "rm_regions", "regions", "rm_list")

\* What list_del(d) makes of the list: d's pointers are poisoned.
Without(d) ==
  [n \in DOMAIN next |-> IF n = d THEN Freed ELSE IF next[n] = d THEN next[d] ELSE next[n]]

\* list_del; with a wrong prev pointer, the entry before d goes on pointing to it
ListDel(d) ==
  /\ DevGoto(d, "rm_list", "rm_free")
  /\ tangled' = (tangled \/ Crossing(d))
  /\ \/ next' = Without(d)
     \/ tangled' /\ next' = [next EXCEPT ![d] = Freed]
  /\ overtaken' = [f \in Files |->
       overtaken[f] \/ (op[f] = "walk" /\ d \in {cur[f], ahead[f]})]
  /\ UNCHANGED <<modVars, busVars, heldVars, numVars, op, kind, node, cur, ahead>>

\* Mutant: g_dev_count is decremented when a device goes.
FreeDevCounts(d) ==
  /\ DevGoto(d, "rm_free", "unbound")
  /\ Kfree(d)
  /\ removed' = removed \union {d}
  /\ gDevCount' = IF gDevCount = 0 THEN CountMod - 1 ELSE gDevCount - 1
  /\ UNCHANGED miscounted

FreeDev(d) ==
  /\ DevGoto(d, "rm_free", "unbound")
  /\ Kfree(d)
  /\ removed' = removed \union {d}
  /\ UNCHANGED <<gDevCount, miscounted>>

RemoveStep(d) == DestroyNode(d) \/ DelCdev(d) \/ FreeIrq(d) \/ Unmap(d) \/ RelRegions(d)
                   \/ ListDel(d) \/ FreeDev(d)

-----------------------------------------------------------------------------
(* The bus: a device appears, or disappears *)

\* A device in a slot is another one, that no driver has touched.
Plug(d) ==
  /\ plugs < MaxPlugs /\ d \notin plugged /\ dpc[d] = "unbound"
  /\ plugged' = plugged \union {d}
  /\ plugs' = plugs + 1
  /\ fresh' = IF registered THEN fresh \union {d} ELSE fresh
  /\ left' = [left EXCEPT ![d] = {}] /\ removed' = removed \ {d}
  /\ UNCHANGED <<modVars, dpc, held, numVars, listVars, fileVars>>

\* A file that is open, or being opened or released, has d's number.
InUse(d) == dpc[d] = "bound" /\ \E f \in Files : op[f] # "closed" /\ node[f] = minor[d]

\* Under the device's lock.  Nothing in the driver makes an unplug wait for the
\* users of the device; without Surprise it is assumed that the operator does.
\* The users of other devices are no matter to anyone.
Unplug(d) ==
  /\ d \in plugged /\ dpc[d] \in {"unbound", "bound"}
  /\ Surprise \/ ~InUse(d)
  /\ plugged' = plugged \ {d}
  /\ fresh' = fresh \ {d}
  /\ UNCHANGED <<modVars, plugs, devVars, fileVars>>

Leaving(d) == Removing(d) \/ (dpc[d] = "bound" /\ d \notin plugged)

-----------------------------------------------------------------------------
(* File operations *)

\* Some device answers to minor m.  The VFS takes the module reference, which
\* fails once the module is on its way out.
Openable(m) ==
  /\ mod \in {"attach", "live"}
  /\ \E d \in Devs : "cdev" \in held[d] /\ minor[d] = m
  /\ Surprise \/ \A d \in Devs : Leaving(d) => minor[d] # m

\* The pointer read out of an entry, if it is there to read.
Beyond(n) == IF n = Freed THEN Freed ELSE next[n]

Begin(f, from, k) ==
  /\ op[f] = from
  /\ op' = [op EXCEPT ![f] = "walk"]
  /\ kind' = [kind EXCEPT ![f] = k]
  /\ cur' = [cur EXCEPT ![f] = next[PrivateHead]]
  /\ ahead' = [ahead EXCEPT ![f] = Beyond(next[PrivateHead])]
  /\ UNCHANGED <<modVars, busVars, devVars, overtaken>>

CallOpen(f) ==
  \E d \in Devs :
    /\ Openable(minor[d])
    /\ node' = [node EXCEPT ![f] = minor[d]]
    /\ Begin(f, "closed", "open")

Call(f) == \E k \in Kinds \ {"open"} : Begin(f, "open", k) /\ UNCHANGED node

\* Mutant: open does not report that the device was not found.
AfterUnchecked(k, ok) == IF k = "release" THEN "closed" ELSE "open"

\* Where an operation leaves the file: k has ended, well or with -ENODEV.
After(k, ok) == IF k = "release" \/ (k = "open" /\ ~ok) THEN "closed" ELSE "open"

\* kind means nothing once the operation has ended, nor node once the file is closed.
Return(f, ok) ==
  /\ op' = [op EXCEPT ![f] = After(kind[f], ok)]
  /\ cur' = [cur EXCEPT ![f] = PrivateHead]
  /\ ahead' = [ahead EXCEPT ![f] = PrivateHead]
  /\ overtaken' = [overtaken EXCEPT ![f] = FALSE]
  /\ kind' = [kind EXCEPT ![f] = "open"]
  /\ node' = [node EXCEPT ![f] = IF After(kind[f], ok) = "open" THEN @ ELSE 0]

\* list_for_each_safe compares the minor of one entry and goes on to the next,
\* which it looked up before, or has reached the head.
Walk(f) ==
  /\ op[f] = "walk" /\ cur[f] # Freed
  /\ \/ cur[f] = PrivateHead /\ Return(f, FALSE)
     \/ /\ cur[f] # PrivateHead /\ minor[cur[f]] = node[f]
        /\ op' = [op EXCEPT ![f] = "use"]
        /\ ahead' = [ahead EXCEPT ![f] = PrivateHead]
        /\ UNCHANGED <<kind, node, cur, overtaken>>
     \/ /\ cur[f] # PrivateHead /\ minor[cur[f]] # node[f]
        /\ cur' = [cur EXCEPT ![f] = ahead[f]]
        /\ ahead' = [ahead EXCEPT ![f] = Beyond(ahead[f])]
        /\ UNCHANGED <<op, kind, node, overtaken>>
  /\ UNCHANGED <<modVars, busVars, devVars>>

\* What the operation does with the ch36x_dev it found.
Use(f) ==
  /\ op[f] = "use" /\ cur[f] # Freed
  /\ Return(f, TRUE)
  /\ UNCHANGED <<modVars, busVars, devVars>>

\* An operation that reads freed memory may do anything; here it does not come
\* back, or comes back without a device.
Stray(f) ==
  /\ op[f] \in {"walk", "use"} /\ cur[f] = Freed
  /\ Return(f, FALSE)
  /\ UNCHANGED <<modVars, busVars, devVars>>

-----------------------------------------------------------------------------
Next ==
  \/ Load \/ Unload \/ ModuleStep
  \/ \E d \in Devs : Probe(d) \/ ProbeStep(d) \/ UndoStep(d) \/ Remove(d) \/ RemoveStep(d)
                       \/ Plug(d) \/ Unplug(d)
  \/ \E f \in Files : CallOpen(f) \/ Call(f) \/ Walk(f) \/ Use(f) \/ Stray(f)

\* What has begun goes on: insmod and rmmod, a probe or a removal the bus
\* has to make, a system call.  Nobody has to load, open, call or unplug.
Fairness ==
  /\ WF_vars(ModuleStep)
  /\ \A d \in Devs : WF_vars(Probe(d) \/ ProbeStep(d) \/ UndoStep(d) \/ Remove(d) \/ RemoveStep(d))
  /\ \A f \in Files : WF_vars(Walk(f) \/ Use(f))

Spec     == Init /\ [][Next]_vars
FairSpec == Spec /\ Fairness

-----------------------------------------------------------------------------
(* Properties *)

\* The type of every variable.
TypeOK ==
  /\ mod \in {"out", "class", "region", "attach", "live", "exit", "detach",
              "undo_region", "undo_class"}
  /\ class \in BOOLEAN /\ region \in BOOLEAN /\ registered \in BOOLEAN
  /\ fresh \in SUBSET Devs /\ plugged \in SUBSET Devs /\ plugs \in 0..MaxPlugs
  /\ gDevCount \in 0..(CountMod - 1)
  /\ next \in [Devs \union {PrivateHead} -> Devs \union {PrivateHead, Freed}]
  /\ dpc \in [Devs -> {"unbound", "bound"} \union ProbeSteps \union UnwindSteps \union RemoveSteps]
  /\ held \in [Devs -> SUBSET {"mem", "enabled", "regions", "iomap", "irq", "cdev", "node"}]
  /\ left \in [Devs -> SUBSET {"mem", "enabled", "regions", "iomap", "irq", "cdev", "node"}]
  /\ removed \in SUBSET Devs /\ miscounted \in BOOLEAN /\ tangled \in BOOLEAN
  /\ minor \in [Devs -> 0..(CountMod - 1)]
  /\ op \in [Files -> {"closed", "open", "walk", "use"}]
  /\ kind \in [Files -> Kinds]
  /\ node \in [Files -> 0..(CountMod - 1)]
  /\ cur \in [Files -> Devs \union {PrivateHead, Freed}]
  /\ ahead \in [Files -> Devs \union {PrivateHead, Freed}]
  /\ overtaken \in [Files -> BOOLEAN]

\* As long as the handler can be called, all it touches is there: the struct,
\* the port range, an enabled device.  (Order of acquisition and release.)
HandlerHasDevice ==
  \A d \in Devs : "irq" \in held[d] =>
    {"mem", "enabled", "regions", "iomap"} \subseteq held[d]

\* Whatever a probe acquired has been given back when its struct is freed, at
\* whichever step it failed; a removal gives everything back but the enabled
\* device, for which it has no pci_disable_device.  A device that is not bound
\* is not on the list.  An unloaded module, after rmmod or a failed insmod,
\* leaves nothing behind, and an empty list unless list operations crossed.
NothingLeaks ==
  /\ \A d \in Devs : left[d] \subseteq IF d \in removed THEN {"enabled"} ELSE {}
  /\ \A d \in Devs : dpc[d] = "unbound" => next[d] = Freed
  /\ mod = "out" => /\ ~class /\ ~region /\ ~registered
                    /\ \A d \in Devs : dpc[d] = "unbound"
                    /\ tangled \/ next[PrivateHead] = PrivateHead

\* No file operation follows a pointer to an entry that was unlinked or freed,
\* and what it finally uses is a complete device with the file's number: though
\* other devices come and go under its unlocked walk, unless the very entry it
\* stands on or goes to next is unlinked, or two list operations cross.
SafeUse ==
  \A f \in Files : ~overtaken[f] /\ ~tangled =>
    /\ op[f] \in {"walk", "use"} => cur[f] # Freed
    /\ op[f] = "use" => /\ cur[f] \in Devs /\ minor[cur[f]] = node[f]
                        /\ {"mem", "regions", "iomap", "irq"} \subseteq held[cur[f]]

\* Until rmmod begins, no two devices answer to the same minor, unless a probe
\* read g_dev_count while another had read it and not yet incremented it, or
\* the counter has come round.
UniqueMinors ==
  mod \in {"attach", "live"} /\ ~miscounted =>
    \A d, e \in Devs : "cdev" \in held[d] /\ "cdev" \in held[e] /\ minor[d] = minor[e] => d = e

\* An open file's minor stays on the list, so release, which disables the
\* interrupts, never gets -ENODEV: unless list operations crossed.
OpenFindsDevice ==
  \A f \in Files :
    ~tangled /\ (op[f] = "open" \/ (op[f] = "walk" /\ kind[f] # "open"))
      => \E d \in Devs : next[d] # Freed /\ minor[d] = node[f]

\* The list comes to its end: no set of listed devices leads only into itself,
\* so a walk (list_for_each_safe, which has no other bound) that stays on the
\* list is bound to reach the head.
ListEnds ==
  ~tangled => \A S \in SUBSET Devs :
    S # {} /\ (\A d \in S : next[d] # Freed) => \E d \in S : next[d] \notin S

\* The class and the device numbers outlive every node and cdev made from them.
FrameworkOutlives ==
  \A d \in Devs : /\ "node" \in held[d] => class
                  /\ "cdev" \in held[d] => region

\* insmod and rmmod come to an end, with all they probe and remove.
LoadSettles == mod \notin {"out", "live"} ~> mod \in {"out", "live"}

\* Every file operation returns, a walk of the list ends: unless what it walks
\* on was unlinked under it.
CallsReturn ==
  \A f \in Files :
    op[f] \in {"walk", "use"} ~> op[f] \in {"open", "closed"} \/ overtaken[f] \/ tangled

===============================================================================
