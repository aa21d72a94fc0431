------------------------------ MODULE Ch36xDriver_proofs ------------------------------
(***************************************************************************)
(* Proofs about the life of the driver, for any number of devices, of      *)
(* files, of plug-ins and any width of g_dev_count.                        *)
(***************************************************************************)
EXTENDS Ch36xDriver, TLAPS

-----------------------------------------------------------------------------
(* The inductive invariant *)

Mapped == {"irq", "cdev", "node", "list", "count", "bound", "undo_irq", "undo_map",
           "rm_node", "rm_cdev", "rm_irq", "rm_map"}

\* The steps of probe and remove during which a device has each resource.
During(r) ==
  CASE r = "mem"     -> {"enable", "regions", "map", "undo_regions", "undo_enable", "undo_alloc",
                         "rm_regions", "rm_list", "rm_free"} \union Mapped
    [] r = "enabled" -> {"regions", "map", "undo_regions", "undo_enable",
                         "rm_regions", "rm_list", "rm_free"} \union Mapped
    [] r = "regions" -> {"map", "undo_regions", "rm_regions"} \union Mapped
    [] r = "iomap"   -> Mapped
    [] r = "irq"     -> Mapped \ {"irq", "undo_map", "rm_map"}
    [] r = "cdev"    -> {"node", "list", "count", "bound", "rm_node", "rm_cdev"}

\* What a device has is what its step says; the node may be missing.
Resources ==
  \A d \in Devs :
    /\ \A r \in {"mem", "enabled", "regions", "iomap", "irq", "cdev"} :
         r \in held[d] <=> dpc[d] \in During(r)
    /\ "node" \in held[d] => dpc[d] \in {"list", "count", "bound", "rm_node"}

\* The steps during which a device is on the list.
OnList == {"count", "bound", "rm_node", "rm_cdev", "rm_irq", "rm_map", "rm_regions", "rm_list"}

\* The list is a list: it holds the devices it should, leads from one to
\* another of them or to its head, and never to the same one twice.
Chain ==
  /\ \A d \in Devs : dpc[d] \in OnList => next[d] # Freed
  /\ next[PrivateHead] # Freed
  /\ \A n \in DOMAIN next : next[n] \in Devs => next[next[n]] # Freed
  /\ \A m, n \in DOMAIN next : next[m] = next[n] /\ next[m] # Freed => m = n

\* It is one until list operations cross; a device that is not on it has poisoned
\* pointers in any case.
List ==
  /\ \A d \in Devs : dpc[d] \notin OnList => next[d] = Freed
  /\ ~tangled => Chain

\* Only a removal left anything, and only the device enabled.
Orphans == \A d \in Devs : left[d] \subseteq IF d \in removed THEN {"enabled"} ELSE {}

\* What module init has set up, and exit not yet taken down.
Stages ==
  /\ class <=> mod # "out"
  /\ region <=> mod \notin {"out", "class", "undo_class"}
  /\ registered <=> mod \in {"attach", "live", "exit"}
  /\ \A d \in Devs : dpc[d] # "unbound" => mod \in {"attach", "live", "exit", "detach"}

\* The bus offers what is there, and a device stays while it is being bound.
Bus ==
  /\ fresh \subseteq plugged
  /\ \A d \in Devs : Binding(d) => d \in plugged

DriverInv == TypeOK /\ Resources /\ Orphans /\ List /\ Stages /\ Bus

-----------------------------------------------------------------------------
(* It holds in every state *)

Steps == {"unbound", "bound"} \union ProbeSteps \union UnwindSteps \union RemoveSteps
Held  == {"mem", "enabled", "regions", "iomap", "irq", "cdev", "node"}
Pointers == Devs \union {PrivateHead, Freed}

\* Before insmod there is nothing.
LEMMA InitInv == Init => DriverInv
<1> SUFFICES ASSUME Init PROVE DriverInv
  OBVIOUS
<1> USE DEF Init
<1>1. TypeOK
  <2>1. /\ gDevCount \in 0..(CountMod - 1) /\ plugs \in 0..MaxPlugs
        /\ minor \in [Devs -> 0..(CountMod - 1)] /\ node \in [Files -> 0..(CountMod - 1)]
    BY CountAssumption
  <2>2. next \in [Devs \union {PrivateHead} -> Devs \union {PrivateHead, Freed}]
    OBVIOUS
  <2>3. /\ dpc \in [Devs -> Steps] /\ held \in [Devs -> SUBSET Held]
        /\ left \in [Devs -> SUBSET Held]
        /\ op \in [Files -> {"closed", "open", "walk", "use"}] /\ kind \in [Files -> Kinds]
        /\ cur \in [Files -> Pointers] /\ ahead \in [Files -> Pointers]
        /\ overtaken \in [Files -> BOOLEAN]
    BY DEF Steps, Kinds, Pointers
  <2> QED BY <2>1, <2>2, <2>3 DEF TypeOK, Steps, Held, Pointers
<1>2. Resources /\ Orphans
  BY DEF Resources, During, Mapped, Orphans
<1>3. List
  <2>1. /\ next[PrivateHead] = PrivateHead /\ DOMAIN next = Devs \union {PrivateHead}
        /\ \A d \in Devs : next[d] = Freed /\ dpc[d] \notin OnList
    BY PointerAssumption DEF OnList
  <2> QED BY <2>1, PointerAssumption DEF List, Chain
<1>4. Stages /\ Bus
  BY DEF Stages, Bus, Binding, ProbeSteps, UnwindSteps
<1> QED BY <1>1, <1>2, <1>3, <1>4 DEF DriverInv

\* While no device is on it, the list is empty.
LEMMA EmptyList ==
  ASSUME TypeOK, List, ~tangled, \A d \in Devs : dpc[d] = "unbound"
  PROVE  next[PrivateHead] = PrivateHead
<1>1. \A d \in Devs : next[d] = Freed
  BY DEF List, OnList
<1>2. next[PrivateHead] \in Devs \union {PrivateHead}
  BY DEF TypeOK, List, Chain
<1>3. next[PrivateHead] \notin Devs
  BY <1>1 DEF TypeOK, List, Chain
<1> QED BY <1>2, <1>3

\* What the devices have and where they are depends on these alone.
LEMMA DevicesKept ==
  ASSUME Resources, List, UNCHANGED <<held, dpc, next, tangled>>
  PROVE  Resources' /\ List'
<1>1. Resources'
  BY DEF Resources
<1>2. List'
  BY DEF List, Chain
<1> QED BY <1>1, <1>2

\* Module init and exit.
LEMMA ModuleInv ==
  ASSUME DriverInv, Load \/ Unload \/ ModuleStep
  PROVE  DriverInv'
<1> USE DEF DriverInv, modVars, busVars, devVars, heldVars, numVars, listVars, fileVars, ModGoto
<1>1. /\ UNCHANGED <<heldVars, dpc, minor, fileVars>>
      /\ gDevCount' \in 0..(CountMod - 1) /\ plugs' \in 0..MaxPlugs /\ miscounted' \in BOOLEAN
  <2> 0 \in 0..(CountMod - 1) /\ 0 \in 0..MaxPlugs
    BY CountAssumption
  <2>1. CASE Load
    BY <2>1 DEF Load
  <2>2. CASE Unload
    BY <2>2 DEF Unload, TypeOK
  <2>3. CASE ModuleStep
    BY <2>3
    DEF ModuleStep, AllocRegion, Register, Attached, Unregister, Detached, UndoRegion, UndoClass,
        TypeOK
  <2> QED BY <2>1, <2>2, <2>3
<1>2. Resources' /\ Orphans'
  BY <1>1 DEF Resources, Orphans
<1>3. /\ next' \in [Devs \union {PrivateHead} -> Devs \union {PrivateHead, Freed}]
      /\ tangled' \in BOOLEAN
      /\ List'
  <2>1. CASE Load
    <3>1. /\ \A d \in Devs : dpc[d] = "unbound" /\ next[d] = Freed
          /\ next' = [next EXCEPT ![PrivateHead] = PrivateHead] /\ tangled' = FALSE
      BY <2>1 DEF Load, Stages, List, OnList
    <3>2. /\ DOMAIN next' = Devs \union {PrivateHead} /\ next'[PrivateHead] = PrivateHead
          /\ \A d \in Devs : next'[d] = Freed /\ dpc'[d] \notin OnList
      BY <1>1, <3>1, PointerAssumption DEF TypeOK, OnList
    <3>3. List'
      BY <3>2, PointerAssumption DEF List, Chain
    <3> QED BY <3>1, <3>3 DEF TypeOK
  <2>2. CASE Unload \/ ModuleStep
    <3>1. UNCHANGED <<next, tangled, held, dpc>>
      BY <2>2
      DEF Unload, ModuleStep, AllocRegion, Register, Attached, Unregister, Detached, UndoRegion,
          UndoClass
    <3> QED BY <3>1, DevicesKept DEF TypeOK
  <2> QED BY <2>1, <2>2
<1>4. /\ mod' \in {"out", "class", "region", "attach", "live", "exit", "detach",
                  "undo_region", "undo_class"}
      /\ class' \in BOOLEAN /\ region' \in BOOLEAN /\ registered' \in BOOLEAN
      /\ fresh' \in SUBSET Devs /\ plugged' = plugged /\ fresh' \subseteq plugged
  BY DEF Load, Unload, ModuleStep, AllocRegion, Register, Attached, Unregister, Detached,
         UndoRegion, UndoClass, TypeOK, Bus
<1>5. TypeOK'
  BY <1>1, <1>3, <1>4 DEF TypeOK
<1>6. Bus'
  BY <1>1, <1>4 DEF Bus, Binding
<1>7. Stages'
  <2> USE DEF Stages, TypeOK
  <2>1. CASE Load \/ AllocRegion \/ UndoRegion \/ UndoClass
    BY <1>1, <2>1 DEF Load, AllocRegion, UndoRegion, UndoClass
  <2>2. CASE Register \/ Attached \/ Unload
    BY <1>1, <2>2 DEF Register, Attached, Unload
  <2>3. CASE Unregister \/ Detached
    BY <1>1, <2>3 DEF Unregister, Detached
  <2> QED BY <2>1, <2>2, <2>3 DEF ModuleStep
<1> QED BY <1>2, <1>3, <1>5, <1>6, <1>7

\* A step of probe or remove that takes or gives back something and leaves the
\* list, the counter and the files alone.
LEMMA ResourceInv ==
  ASSUME DriverInv, NEW d \in Devs, NEW from \in Steps, NEW to \in Steps,
         DevGoto(d, from, to),
         UNCHANGED <<modVars, busVars, left, removed, gDevCount, listVars, fileVars>>,
         minor' \in [Devs -> 0..(CountMod - 1)], miscounted' \in BOOLEAN,
         held' \in [Devs -> SUBSET Held],
         Resources',
         from \in OnList <=> to \in OnList,
         from # "unbound",
         to \in ProbeSteps \union UnwindSteps => from \in ProbeSteps \union UnwindSteps
  PROVE  DriverInv'
<1> USE DEF DriverInv, DevGoto, modVars, busVars, listVars, fileVars
<1>1. dpc' \in [Devs -> Steps] /\ dpc'[d] = to /\ \A e \in Devs \ {d} : dpc'[e] = dpc[e]
  BY DEF TypeOK, Steps
<1>2. TypeOK'
  BY <1>1 DEF TypeOK, Steps, Held
<1>3. List' /\ Orphans'
  BY <1>1 DEF List, Chain, Orphans
<1>4. Stages'
  BY <1>1 DEF Stages
<1>5. Bus'
  BY <1>1 DEF Bus, Binding
<1> QED BY <1>2, <1>3, <1>4, <1>5

\* The probe's steps up to the list, and its error path.
LEMMA ProbeInv ==
  ASSUME DriverInv, NEW d \in Devs,
         \/ Alloc(d) \/ EnableDevice(d) \/ ReqRegions(d) \/ MapDevice(d) \/ RequestIrq(d)
         \/ AddCdev(d) \/ CreateNode(d)
  PROVE  DriverInv'
<1> USE DEF DriverInv, Try, DevGoto, Acquire, ProbeSteps, UnwindSteps, RemoveSteps, Steps, OnList,
            numVars
<1>1. \E from, to \in Steps :
        /\ DevGoto(d, from, to)
        /\ from # "unbound" /\ from \notin OnList /\ to \notin OnList
        /\ from \in ProbeSteps
  BY DEF Alloc, EnableDevice, ReqRegions, MapDevice, RequestIrq, AddCdev, CreateNode
<1>2. /\ UNCHANGED <<modVars, busVars, left, removed, gDevCount, listVars, fileVars>>
      /\ minor' \in [Devs -> 0..(CountMod - 1)]
      /\ held' \in [Devs -> SUBSET Held]
      /\ \A e \in Devs \ {d} : held'[e] = held[e] /\ dpc'[e] = dpc[e]
  BY DEF Alloc, EnableDevice, ReqRegions, MapDevice, RequestIrq, AddCdev, CreateNode, TypeOK, Held
<1>4. miscounted' \in BOOLEAN
  <2>1. miscounted' = miscounted \/ miscounted' = (miscounted \/ Counting(d))
    BY DEF Alloc, EnableDevice, ReqRegions, MapDevice, RequestIrq, AddCdev, CreateNode
  <2> QED BY <2>1 DEF TypeOK
<1>3. Resources'
  <2> USE DEF Resources, During, Mapped, TypeOK
  <2>1. CASE Alloc(d)        BY <1>2, <2>1 DEF Alloc
  <2>2. CASE EnableDevice(d) BY <1>2, <2>2 DEF EnableDevice
  <2>3. CASE ReqRegions(d)   BY <1>2, <2>3 DEF ReqRegions
  <2>4. CASE MapDevice(d)    BY <1>2, <2>4 DEF MapDevice
  <2>5. CASE RequestIrq(d)   BY <1>2, <2>5 DEF RequestIrq
  <2>6. CASE AddCdev(d)      BY <1>2, <2>6 DEF AddCdev
  <2>7. CASE CreateNode(d)   BY <1>2, <2>7 DEF CreateNode
  <2> QED BY <2>1, <2>2, <2>3, <2>4, <2>5, <2>6, <2>7
<1> QED BY <1>1, <1>2, <1>3, <1>4, ResourceInv

\* The error path, and the removal up to the list.
LEMMA DropInv ==
  ASSUME DriverInv, NEW d \in Devs,
         \/ UndoIrq(d) \/ UndoMap(d) \/ UndoRegions(d) \/ UndoEnable(d)
         \/ DelCdev(d) \/ FreeIrq(d) \/ Unmap(d) \/ RelRegions(d)
  PROVE  DriverInv'
<1> USE DEF DriverInv, Undo, DevGoto, Drop, ProbeSteps, UnwindSteps, RemoveSteps, Steps, OnList,
            numVars
<1>1. \E from, to \in Steps :
        /\ DevGoto(d, from, to)
        /\ from # "unbound" /\ (from \in OnList <=> to \in OnList)
        /\ to \in ProbeSteps \union UnwindSteps => from \in UnwindSteps
  BY DEF UndoIrq, UndoMap, UndoRegions, UndoEnable, DelCdev, FreeIrq, Unmap, RelRegions
<1>2. /\ UNCHANGED <<modVars, busVars, left, removed, gDevCount, listVars, fileVars>>
      /\ minor' \in [Devs -> 0..(CountMod - 1)] /\ miscounted' \in BOOLEAN
      /\ held' \in [Devs -> SUBSET Held]
      /\ \A e \in Devs \ {d} : held'[e] = held[e] /\ dpc'[e] = dpc[e]
  BY DEF UndoIrq, UndoMap, UndoRegions, UndoEnable, DelCdev, FreeIrq, Unmap, RelRegions, TypeOK, Held
<1>3. Resources'
  <2> USE DEF Resources, During, Mapped, TypeOK
  <2>1. CASE UndoIrq(d)     BY <1>2, <2>1 DEF UndoIrq
  <2>2. CASE UndoMap(d)     BY <1>2, <2>2 DEF UndoMap
  <2>3. CASE UndoRegions(d) BY <1>2, <2>3 DEF UndoRegions
  <2>4. CASE UndoEnable(d)  BY <1>2, <2>4 DEF UndoEnable
  <2>5. CASE DelCdev(d)     BY <1>2, <2>5 DEF DelCdev
  <2>6. CASE FreeIrq(d)     BY <1>2, <2>6 DEF FreeIrq
  <2>7. CASE Unmap(d)       BY <1>2, <2>7 DEF Unmap
  <2>8. CASE RelRegions(d)  BY <1>2, <2>8 DEF RelRegions
  <2> QED BY <2>1, <2>2, <2>3, <2>4, <2>5, <2>6, <2>7, <2>8
<1> QED BY <1>1, <1>2, <1>3, ResourceInv

\* device_destroy takes a node, and nothing else, from whoever has one with the number.
LEMMA DestroyInv ==
  ASSUME DriverInv, NEW d \in Devs, DestroyNode(d)
  PROVE  DriverInv'
<1> USE DEF DriverInv, DevGoto
<1>1. /\ DevGoto(d, "rm_node", "rm_cdev")
      /\ UNCHANGED <<modVars, busVars, left, removed, numVars, listVars, fileVars>>
      /\ held' \in [Devs -> SUBSET Held]
  BY DEF DestroyNode, TypeOK, Held
<1>2. /\ \A e \in Devs : /\ \A r \in Held \ {"node"} : r \in held'[e] <=> r \in held[e]
                         /\ "node" \in held'[e] => "node" \in held[e]
      /\ "node" \notin held'[d]
  <2>1. \A e \in Devs : held'[e] = IF e \in NodesOf(d) THEN held[e] \ {"node"} ELSE held[e]
    BY DEF DestroyNode
  <2>2. "node" \in held[d] => d \in NodesOf(d)
    BY DEF NodesOf
  <2>3. \A e \in Devs : held'[e] = held[e] \/ held'[e] = held[e] \ {"node"}
    BY <2>1
  <2>4. "node" \notin held'[d]
    BY <2>1, <2>2
  <2> QED BY <2>3, <2>4
<1>3. Resources'
  <2>1. dpc[d] = "rm_node" /\ dpc'[d] = "rm_cdev" /\ \A e \in Devs \ {d} : dpc'[e] = dpc[e]
    BY <1>1 DEF TypeOK
  <2>2. \A r \in Held \ {"node"} : dpc[d] \in During(r) <=> dpc'[d] \in During(r)
    BY <2>1 DEF During, Mapped, Held
  <2>3. ASSUME NEW e \in Devs, NEW r \in Held \ {"node"}
        PROVE  r \in held'[e] <=> dpc'[e] \in During(r)
    <3>1. r \in held[e] <=> dpc[e] \in During(r)
      BY DEF Resources, Held
    <3>2. CASE e = d
      BY <1>2, <2>2, <3>1, <3>2
    <3>3. CASE e # d
      <4>1. dpc'[e] = dpc[e]
        BY <2>1, <3>3
      <4> QED BY <1>2, <3>1, <4>1
    <3> QED BY <3>2, <3>3
  <2>4. \A e \in Devs : "node" \in held'[e] => dpc'[e] \in {"list", "count", "bound", "rm_node"}
    BY <1>2, <2>1 DEF Resources
  <2> QED BY <2>3, <2>4 DEF Resources, Held, During
<1>4. minor' \in [Devs -> 0..(CountMod - 1)] /\ miscounted' \in BOOLEAN /\ UNCHANGED gDevCount
  BY <1>1 DEF numVars, TypeOK
<1> QED
  BY <1>1, <1>3, <1>4, ResourceInv DEF Steps, ProbeSteps, UnwindSteps, RemoveSteps, OnList

\* The bus offers a device, or takes one away from the driver.
LEMMA OfferInv ==
  ASSUME DriverInv, NEW d \in Devs, Probe(d) \/ Remove(d)
  PROVE  DriverInv'
<1> USE DEF DriverInv, DevGoto, modVars, heldVars, numVars, listVars, fileVars, ProbeSteps,
            UnwindSteps, RemoveSteps, OnList
<1>1. /\ UNCHANGED <<modVars, plugged, plugs, held, numVars, listVars, fileVars>>
      /\ \/ dpc[d] = "unbound" /\ dpc' = [dpc EXCEPT ![d] = "alloc"]
            /\ registered /\ d \in fresh /\ fresh' = fresh \ {d}
            /\ left' = [left EXCEPT ![d] = {}] /\ removed' = removed \ {d}
         \/ dpc[d] = "bound" /\ dpc' = [dpc EXCEPT ![d] = "rm_node"] /\ fresh' = fresh
            /\ UNCHANGED <<left, removed>>
  BY DEF Probe, Remove, busVars
<1>2. TypeOK'
  BY <1>1 DEF TypeOK
<1>3. Resources' /\ Orphans'
  <2>1. Resources'
    BY <1>1 DEF Resources, During, Mapped, TypeOK
  <2>2. Orphans'
    BY <1>1 DEF Orphans, TypeOK
  <2> QED BY <2>1, <2>2
<1>4. List'
  BY <1>1 DEF List, Chain, TypeOK
<1>5. Stages'
  BY <1>1 DEF Stages, TypeOK
<1>6. Bus'
  BY <1>1 DEF Bus, Binding, TypeOK
<1> QED BY <1>2, <1>3, <1>4, <1>5, <1>6

\* list_add_tail: the list gets one device longer.
LEMMA ListAddInv ==
  ASSUME DriverInv, NEW d \in Devs, ListAddTail(d)
  PROVE  DriverInv'
<1> USE DEF DriverInv, modVars, busVars, heldVars, numVars, fileVars
<1>1. /\ dpc[d] = "list" /\ dpc' = [dpc EXCEPT ![d] = "count"]
      /\ UNCHANGED <<modVars, busVars, heldVars, numVars, fileVars>>
  BY DEF ListAddTail, DevGoto
<1>2. /\ tangled' \in BOOLEAN /\ (~tangled' => ~tangled)
      /\ next[d] = Freed /\ DOMAIN next = Devs \union {PrivateHead} /\ d # PrivateHead
  BY <1>1, PointerAssumption DEF ListAddTail, List, OnList, TypeOK
<1>3. /\ next' \in [Devs \union {PrivateHead} -> Devs \union {PrivateHead, Freed}]
      /\ \A e \in Devs : dpc'[e] \notin OnList => next'[e] = Freed
  <2>1. CASE next' = [next EXCEPT ![d] = PrivateHead]
    BY <1>1, <1>2, <2>1 DEF TypeOK, List, OnList
  <2>2. CASE next' # [next EXCEPT ![d] = PrivateHead]
    <3> PICK last \in DOMAIN next :
           next[last] = PrivateHead /\ next' = [next EXCEPT ![last] = d, ![d] = PrivateHead]
      BY <2>2 DEF ListAddTail
    <3>1. last = PrivateHead \/ (last \in Devs /\ dpc[last] \in OnList)
      BY <1>2, PointerAssumption DEF List
    <3>2. \A e \in Devs : e # d /\ e # last => next'[e] = next[e]
      BY <1>2 DEF TypeOK
    <3>3. \A e \in Devs : dpc'[e] \notin OnList => e # d /\ e # last /\ dpc[e] \notin OnList
      BY <1>1, <3>1, PointerAssumption DEF TypeOK, OnList
    <3>4. next' \in [Devs \union {PrivateHead} -> Devs \union {PrivateHead, Freed}]
      BY DEF TypeOK
    <3> QED BY <3>2, <3>3, <3>4 DEF List
  <2> QED BY <2>1, <2>2
<1>4. TypeOK'
  BY <1>1, <1>2, <1>3 DEF TypeOK, ProbeSteps
<1>5. Resources' /\ Orphans'
  BY <1>1 DEF Resources, During, Mapped, TypeOK, Orphans
<1>6. ASSUME ~tangled' PROVE Chain'
  <2> Chain
    BY <1>2, <1>6 DEF List
  <2> PICK last \in DOMAIN next :
         next[last] = PrivateHead /\ next' = [next EXCEPT ![last] = d, ![d] = PrivateHead]
    BY <1>6 DEF ListAddTail
  <2>1. last # d
    BY <1>2, PointerAssumption
  <2>2. /\ next'[d] = PrivateHead /\ next'[last] = d /\ DOMAIN next' = DOMAIN next
        /\ \A n \in DOMAIN next : n # d /\ n # last => next'[n] = next[n]
    BY <1>2, <2>1 DEF TypeOK
  <2>3. \A e \in Devs : dpc'[e] \in OnList => next'[e] # Freed
    BY <1>1, <1>2, <2>2, PointerAssumption DEF Chain, OnList, TypeOK
  <2>4. next'[PrivateHead] # Freed
    BY <1>2, <2>2, PointerAssumption DEF Chain
  <2>5. \A n \in DOMAIN next' : next'[n] \in Devs => next'[next'[n]] # Freed
    BY <1>2, <2>2, PointerAssumption DEF Chain, TypeOK
  <2>6. \A n \in DOMAIN next : next[n] # d
    BY <1>2 DEF Chain
  <2>7. \A m, n \in DOMAIN next' : next'[m] = next'[n] /\ next'[m] # Freed => m = n
    BY <1>2, <2>2, <2>6, PointerAssumption DEF Chain
  <2> QED BY <2>3, <2>4, <2>5, <2>7 DEF Chain
<1>7. Stages' /\ Bus'
  BY <1>1 DEF Stages, Bus, Binding, TypeOK, ProbeSteps, UnwindSteps
<1> QED BY <1>3, <1>4, <1>5, <1>6, <1>7 DEF List

\* list_del: the neighbours of the device are neighbours now.
LEMMA ListDelInv ==
  ASSUME DriverInv, NEW d \in Devs, ListDel(d)
  PROVE  DriverInv'
<1> USE DEF DriverInv, modVars, busVars, heldVars, numVars
<1>1. /\ dpc[d] = "rm_list" /\ dpc' = [dpc EXCEPT ![d] = "rm_free"]
      /\ UNCHANGED <<modVars, busVars, heldVars, numVars, op, kind, node, cur, ahead>>
  BY DEF ListDel, DevGoto
<1>2. /\ tangled' \in BOOLEAN /\ (~tangled' => ~tangled)
      /\ DOMAIN next = Devs \union {PrivateHead} /\ d # PrivateHead /\ d # Freed
      /\ overtaken' \in [Files -> BOOLEAN]
  BY <1>1, PointerAssumption DEF ListDel, OnList, TypeOK
<1>3. /\ next' \in [Devs \union {PrivateHead} -> Devs \union {PrivateHead, Freed}]
      /\ \A e \in Devs : dpc'[e] \notin OnList => next'[e] = Freed
  <2>1. CASE next' = [next EXCEPT ![d] = Freed]
    BY <1>1, <1>2, <2>1 DEF TypeOK, List, OnList
  <2>2. CASE next' = Without(d)
    <3>1. /\ DOMAIN next' = DOMAIN next
          /\ \A n \in DOMAIN next :
               next'[n] = IF n = d THEN Freed ELSE IF next[n] = d THEN next[d] ELSE next[n]
      BY <2>2 DEF Without
    <3>2. next' \in [Devs \union {PrivateHead} -> Devs \union {PrivateHead, Freed}]
      BY <1>2, <2>2 DEF TypeOK, Without
    <3>3. \A e \in Devs : dpc'[e] \notin OnList => next'[e] = Freed
      <4> TAKE e \in Devs
      <4> HAVE dpc'[e] \notin OnList
      <4>1. e # d => dpc[e] \notin OnList
        BY <1>1 DEF TypeOK
      <4> QED BY <1>2, <3>1, <4>1 DEF List
    <3> QED BY <3>2, <3>3
  <2> QED BY <2>1, <2>2 DEF ListDel
<1>4. TypeOK'
  BY <1>1, <1>2, <1>3 DEF TypeOK, RemoveSteps
<1>5. Resources' /\ Orphans'
  BY <1>1 DEF Resources, During, Mapped, TypeOK, Orphans
<1>6. ASSUME ~tangled' PROVE Chain'
  <2> Chain
    BY <1>2, <1>6 DEF List
  <2>1. next[d] # Freed
    BY <1>1 DEF Chain, OnList
  <2>2. /\ DOMAIN next' = DOMAIN next
        /\ \A n \in DOMAIN next :
             next'[n] = IF n = d THEN Freed ELSE IF next[n] = d THEN next[d] ELSE next[n]
    BY <1>6 DEF ListDel, Without
  <2>3. \A e \in Devs : dpc'[e] \in OnList => next'[e] # Freed
    <3> TAKE e \in Devs
    <3> HAVE dpc'[e] \in OnList
    <3>1. e # d /\ dpc[e] \in OnList
      BY <1>1 DEF OnList, TypeOK
    <3> QED BY <1>2, <2>1, <2>2, <3>1 DEF Chain
  <2>4. next'[PrivateHead] # Freed
    BY <1>2, <2>1, <2>2 DEF Chain
  <2>5. \A n \in DOMAIN next' : next'[n] \in Devs => next'[next'[n]] # Freed
    <3> TAKE n \in DOMAIN next'
    <3> HAVE next'[n] \in Devs
    <3>1. n # d
      BY <1>2, <2>2, PointerAssumption
    <3>2. next'[n] # d
      BY <1>2, <2>1, <2>2, <3>1 DEF Chain
    <3>3. next[next'[n]] # Freed
      BY <1>2, <2>2, <3>1 DEF Chain
    <3> QED BY <1>2, <2>1, <2>2, <3>2, <3>3
  <2>6. \A m, n \in DOMAIN next' : next'[m] = next'[n] /\ next'[m] # Freed => m = n
    BY <1>2, <2>1, <2>2 DEF Chain
  <2> QED BY <2>3, <2>4, <2>5, <2>6 DEF Chain
<1>7. Stages' /\ Bus'
  BY <1>1 DEF Stages, Bus, Binding, TypeOK, ProbeSteps, UnwindSteps
<1> QED BY <1>3, <1>4, <1>5, <1>6, <1>7 DEF List

\* kfree, after a failed probe or at the end of a removal: the struct is on no
\* list, and what it still stands for is the memory and, after a removal, the
\* enabled device.
LEMMA FreeInv ==
  ASSUME DriverInv, NEW d \in Devs, UndoAlloc(d) \/ FreeDev(d)
  PROVE  DriverInv'
<1> USE DEF DriverInv, DevGoto, Kfree, modVars, busVars
<1>1. /\ dpc[d] \in {"undo_alloc", "rm_free"} /\ dpc' = [dpc EXCEPT ![d] = "unbound"]
      /\ Kfree(d)
      /\ UNCHANGED <<gDevCount, miscounted>>
  BY DEF UndoAlloc, FreeDev
<1>2. /\ next' \in [Devs \union {PrivateHead} -> Devs \union {PrivateHead, Freed}]
      /\ \A n \in Devs \union {PrivateHead} : next'[n] = IF next[n] = d THEN Freed ELSE next[n]
      /\ DOMAIN next = Devs \union {PrivateHead} /\ DOMAIN next' = DOMAIN next
  BY DEF UndoAlloc, FreeDev, TypeOK
<1>3. TypeOK'
  <2>1. /\ minor' \in [Devs -> 0..(CountMod - 1)]
        /\ cur' \in [Files -> Devs \union {PrivateHead, Freed}]
        /\ ahead' \in [Files -> Devs \union {PrivateHead, Freed}]
    BY <1>1, CountAssumption DEF TypeOK
  <2>2. /\ held' \in [Devs -> SUBSET Held] /\ left' \in [Devs -> SUBSET Held]
        /\ removed' \in SUBSET Devs
    BY <1>1 DEF TypeOK, Held, UndoAlloc, FreeDev
  <2>3. dpc' \in [Devs -> Steps]
    BY <1>1 DEF TypeOK, Steps
  <2> QED BY <1>1, <1>2, <2>1, <2>2, <2>3 DEF TypeOK, Held, Steps
<1>4. Resources'
  BY <1>1 DEF Resources, During, Mapped, TypeOK
<1>5. Orphans'
  <2>1. held[d] \subseteq Held /\ \A r \in Held : r \in held[d] => dpc[d] \in During(r) \/ r = "node"
    BY DEF Resources, TypeOK, Held
  <2>2. "node" \notin held[d]
    BY <1>1 DEF Resources
  <2>3. CASE UndoAlloc(d)
    <3>1. dpc[d] = "undo_alloc" /\ UNCHANGED removed
      BY <2>3 DEF UndoAlloc
    <3>2. \A r \in Held \ {"node", "mem"} : dpc[d] \notin During(r)
      BY <3>1 DEF During, Mapped, Held
    <3>3. held[d] \ {"mem"} = {}
      BY <2>1, <2>2, <3>2
    <3> QED BY <1>1, <3>1, <3>3 DEF Orphans, TypeOK
  <2>4. CASE FreeDev(d)
    <3>1. dpc[d] = "rm_free" /\ removed' = removed \union {d}
      BY <2>4 DEF FreeDev
    <3>2. \A r \in Held \ {"node", "mem", "enabled"} : dpc[d] \notin During(r)
      BY <3>1 DEF During, Mapped, Held
    <3>3. held[d] \ {"mem"} \subseteq {"enabled"}
      BY <2>1, <2>2, <3>2
    <3>4. left[d] \subseteq {"enabled"}
      BY DEF Orphans
    <3> QED BY <1>1, <3>1, <3>3, <3>4 DEF Orphans, TypeOK
  <2> QED BY <2>3, <2>4
<1>6. List'
  <2>1. \A e \in Devs : dpc'[e] \notin OnList => dpc[e] \notin OnList
    BY <1>1 DEF OnList, TypeOK
  <2>2. \A e \in Devs : dpc'[e] \notin OnList => next'[e] = Freed
    BY <1>2, <2>1 DEF List
  <2>3. ASSUME ~tangled' PROVE Chain'
    <3>1. Chain
      BY <1>1, <2>3 DEF List
    <3>2. next[d] = Freed
      BY <1>1 DEF List, OnList
    <3>3. \A n \in DOMAIN next : next[n] # d
      BY <3>1, <3>2 DEF Chain
    <3>4. \A n \in DOMAIN next : next'[n] = next[n]
      BY <1>2, <3>3
    <3>5. \A e \in Devs : dpc'[e] \in OnList => dpc[e] \in OnList
      BY <1>1 DEF OnList, TypeOK
    <3> QED BY <1>2, <3>1, <3>4, <3>5 DEF Chain, TypeOK
  <2> QED BY <2>2, <2>3 DEF List
<1>7. Stages' /\ Bus'
  BY <1>1 DEF Stages, Bus, Binding, TypeOK, ProbeSteps, UnwindSteps
<1> QED BY <1>3, <1>4, <1>5, <1>6, <1>7

\* g_dev_count++
LEMMA CountInv ==
  ASSUME DriverInv, NEW d \in Devs, CountDev(d)
  PROVE  DriverInv'
<1> USE DEF DriverInv, DevGoto, modVars, busVars, heldVars, listVars, fileVars
<1>1. gDevCount' \in 0..(CountMod - 1)
  BY CountAssumption DEF CountDev, TypeOK
<1>2. miscounted' \in BOOLEAN
  BY DEF CountDev, TypeOK
<1>3. /\ dpc[d] = "count" /\ dpc' = [dpc EXCEPT ![d] = "bound"]
      /\ UNCHANGED <<modVars, busVars, heldVars, minor, listVars, fileVars>>
  BY DEF CountDev
<1>4. TypeOK'
  BY <1>1, <1>2, <1>3 DEF TypeOK
<1>5. Resources' /\ Orphans' /\ List'
  BY <1>3 DEF Resources, Orphans, During, Mapped, List, Chain, OnList, TypeOK
<1>6. Stages' /\ Bus'
  BY <1>3 DEF Stages, Bus, Binding, TypeOK, ProbeSteps, UnwindSteps
<1> QED BY <1>4, <1>5, <1>6

\* A device appears or disappears.
LEMMA PlugInv ==
  ASSUME DriverInv, NEW d \in Devs, Plug(d) \/ Unplug(d)
  PROVE  DriverInv'
<1> USE DEF DriverInv, devVars, heldVars, numVars, listVars, modVars, fileVars
<1>1. UNCHANGED <<modVars, dpc, held, numVars, listVars, fileVars>>
  BY DEF Plug, Unplug
<1>2. Resources' /\ List'
  BY <1>1, DevicesKept
<1>3. /\ fresh' \in SUBSET Devs /\ plugged' \in SUBSET Devs /\ plugs' \in 0..MaxPlugs
      /\ fresh' \subseteq plugged'
      /\ \A e \in Devs : Binding(e) => e \in plugged'
  BY CountAssumption DEF Plug, Unplug, TypeOK, Bus, Binding, ProbeSteps, UnwindSteps
<1>4. /\ left' \in [Devs -> SUBSET Held] /\ removed' \in SUBSET Devs
      /\ Orphans'
  <2>1. CASE Plug(d)
    BY <2>1 DEF Plug, Orphans, TypeOK, Held
  <2>2. CASE Unplug(d)
    BY <2>2 DEF Unplug, Orphans, TypeOK, Held
  <2> QED BY <2>1, <2>2
<1>5. TypeOK'
  BY <1>1, <1>3, <1>4 DEF TypeOK, Held
<1>6. Stages' /\ Bus'
  BY <1>1, <1>3 DEF Stages, Bus, Binding
<1> QED BY <1>2, <1>4, <1>5, <1>6

FileStep(f) == CallOpen(f) \/ Call(f) \/ Walk(f) \/ Use(f) \/ Stray(f)

\* A file that an operation has returned to keeps its number, unless it is closed.
LEMMA Returned ==
  ASSUME TypeOK, NEW f \in Files, NEW ok \in BOOLEAN, Return(f, ok)
  PROVE  /\ op' \in [Files -> {"closed", "open", "walk", "use"}]
         /\ kind' \in [Files -> Kinds]
         /\ node' \in [Files -> 0..(CountMod - 1)]
         /\ cur' \in [Files -> Devs \union {PrivateHead, Freed}]
         /\ ahead' \in [Files -> Devs \union {PrivateHead, Freed}]
         /\ overtaken' \in [Files -> BOOLEAN]
         /\ op'[f] \in {"closed", "open"} /\ (op'[f] = "open" => node'[f] = node[f])
         /\ kind[f] = "open" /\ ~ok => op'[f] = "closed"
         /\ \A g \in Files \ {f} :
              /\ op'[g] = op[g] /\ kind'[g] = kind[g] /\ node'[g] = node[g]
              /\ cur'[g] = cur[g] /\ ahead'[g] = ahead[g] /\ overtaken'[g] = overtaken[g]
<1>1. After(kind[f], ok) \in {"closed", "open"} /\ op' = [op EXCEPT ![f] = After(kind[f], ok)]
  BY DEF After, Return
<1>2. 0 \in 0..(CountMod - 1) /\ "open" \in Kinds
  BY CountAssumption DEF Kinds
<1>3. node' = [node EXCEPT ![f] = IF After(kind[f], ok) = "open" THEN node[f] ELSE 0]
  BY DEF Return
<1>4. kind[f] = "open" /\ ~ok => After(kind[f], ok) = "closed"
  BY DEF After
<1> QED BY <1>1, <1>2, <1>3, <1>4 DEF Return, TypeOK

\* A file operation changes nothing but its own file.
LEMMA FileInv ==
  ASSUME DriverInv, NEW f \in Files, FileStep(f)
  PROVE  DriverInv'
<1> USE DEF DriverInv, devVars, heldVars, numVars, listVars, modVars, busVars
<1>1. UNCHANGED <<modVars, busVars, devVars>>
  BY DEF FileStep, CallOpen, Call, Begin, Walk, Use, Stray
<1>2. Resources' /\ Orphans' /\ List'
  BY <1>1, DevicesKept DEF Orphans
<1>3. Stages' /\ Bus'
  BY <1>1 DEF Stages, Bus, Binding
<1>5. \A n \in Devs \union {PrivateHead, Freed} : Beyond(n) \in Devs \union {PrivateHead, Freed}
  BY DEF Beyond, TypeOK
<1>6. next[PrivateHead] \in Devs \union {PrivateHead, Freed}
  BY DEF TypeOK
<1>8. /\ op' \in [Files -> {"closed", "open", "walk", "use"}]
      /\ kind' \in [Files -> Kinds]
      /\ node' \in [Files -> 0..(CountMod - 1)]
      /\ cur' \in [Files -> Devs \union {PrivateHead, Freed}]
      /\ ahead' \in [Files -> Devs \union {PrivateHead, Freed}]
      /\ overtaken' \in [Files -> BOOLEAN]
  <2> USE DEF TypeOK
  <2>1. CASE CallOpen(f)  BY <1>5, <1>6, <2>1 DEF CallOpen, Begin, Kinds
  <2>2. CASE Call(f)      BY <1>5, <1>6, <2>2 DEF Call, Begin, Kinds
  <2>3. CASE Walk(f)
    <3>1. CASE cur[f] = PrivateHead
      BY <2>3, <3>1, Returned DEF Walk
    <3>2. CASE cur[f] # PrivateHead /\ minor[cur[f]] = node[f]
      <4>1. /\ op' = [op EXCEPT ![f] = "use"] /\ ahead' = [ahead EXCEPT ![f] = PrivateHead]
            /\ UNCHANGED <<cur, overtaken, kind, node>>
        BY <2>3, <3>2 DEF Walk
      <4> QED BY <4>1
    <3>3. CASE cur[f] # PrivateHead /\ minor[cur[f]] # node[f]
      <4>1. /\ cur' = [cur EXCEPT ![f] = ahead[f]] /\ ahead' = [ahead EXCEPT ![f] = Beyond(ahead[f])]
            /\ UNCHANGED <<op, overtaken, kind, node>>
        BY <2>3, <3>3 DEF Walk
      <4> QED BY <1>5, <4>1
    <3> QED BY <3>1, <3>2, <3>3
  <2>4. CASE Use(f)       BY <2>4, Returned DEF Use
  <2>5. CASE Stray(f)     BY <2>5, Returned DEF Stray
  <2> QED BY <2>1, <2>2, <2>3, <2>4, <2>5 DEF FileStep
<1>9. TypeOK'
  BY <1>1, <1>8 DEF TypeOK
<1> QED BY <1>2, <1>3, <1>9

\* Every step keeps the invariant.
LEMMA StepInv == DriverInv /\ [Next]_vars => DriverInv'
<1> SUFFICES ASSUME DriverInv, [Next]_vars PROVE DriverInv'
  OBVIOUS
<1>1. CASE UNCHANGED vars
  BY <1>1, DevicesKept
  DEF vars, modVars, busVars, devVars, heldVars, numVars, listVars, fileVars, DriverInv, TypeOK,
      Orphans, Stages, Bus, Binding
<1> QED
  BY <1>1, ModuleInv, ProbeInv, DropInv, DestroyInv, OfferInv, ListAddInv, ListDelInv, FreeInv,
     CountInv, PlugInv, FileInv
  DEF Next, ProbeStep, UndoStep, RemoveStep, FileStep

\* What each device has, where it is, and what the module has set up agree.
THEOREM DriverInvariant == Spec => []DriverInv
BY InitInv, StepInv, PTL DEF Spec

\* Every variable keeps its type: no walk of the list leaves it, and no
\* counter its width, even when devices are pulled out under their users.
THEOREM DriverTypeCorrect == Spec => []TypeOK
<1>1. DriverInv => TypeOK
  BY DEF DriverInv
<1> QED BY <1>1, DriverInvariant, PTL

\* The handler never runs on a device that is half bound or half gone.
THEOREM DriverHandlerHasDevice == Spec => []HandlerHasDevice
<1>1. DriverInv => HandlerHasDevice
  BY DEF DriverInv, HandlerHasDevice, Resources, During, Mapped
<1> QED BY <1>1, DriverInvariant, PTL

\* However a probe, a removal or an insmod ends, what it took has been given
\* back, but for the device that every removal leaves enabled.
THEOREM DriverNothingLeaks == Spec => []NothingLeaks
<1>1. DriverInv => NothingLeaks
  <2> SUFFICES ASSUME DriverInv PROVE NothingLeaks
    OBVIOUS
  <2> USE DEF DriverInv
  <2>1. \A d \in Devs : dpc[d] = "unbound" => next[d] = Freed
    BY DEF List, OnList
  <2>2. mod = "out" => \A d \in Devs : dpc[d] = "unbound"
    BY DEF Stages
  <2>3. mod = "out" => tangled \/ next[PrivateHead] = PrivateHead
    BY <2>2, EmptyList
  <2> QED BY <2>1, <2>2, <2>3 DEF NothingLeaks, Stages, Orphans
<1> QED BY <1>1, DriverInvariant, PTL

\* No node and no cdev outlives the class and the device numbers it is made from.
THEOREM DriverFrameworkOutlives == Spec => []FrameworkOutlives
<1>1. DriverInv => FrameworkOutlives
  BY DEF DriverInv, FrameworkOutlives, Resources, During, Stages
<1> QED BY <1>1, DriverInvariant, PTL

-----------------------------------------------------------------------------
(* File operations are safe when nobody pulls a device that is in use *)

\* While a file is open or being opened, the module stays and no device with
\* its number leaves.
Calm ==
  \A f \in Files : op[f] # "closed" =>
    mod \in {"attach", "live"} /\ \A d \in Devs : Leaving(d) => minor[d] # node[f]

\* An entry that is on the list, and one that may have just been unlinked.
Listed(n)  == n = PrivateHead \/ (n \in Devs /\ dpc[n] \in OnList)
Reached(n) == n \in {PrivateHead, Freed} \/ (n \in Devs /\ dpc[n] \in OnList \union {"rm_free"})

\* The devices of the list that are not on their way out.
Staying == {d \in Devs : dpc[d] \in {"count", "bound"}}

\* A walk that was not overtaken stands on the list and goes on along it; one
\* that was stands at worst on what was unlinked; what it finds is the file's
\* device, and stays.
OnTrack ==
  ~tangled => \A f \in Files :
    /\ op[f] = "walk" => /\ Reached(cur[f]) /\ Reached(ahead[f])
                         /\ ~overtaken[f] => Listed(cur[f]) /\ Listed(ahead[f])
    /\ op[f] = "use" => cur[f] \in Staying /\ minor[cur[f]] = node[f]

\* The steps of probe and remove, by what they do to the rest.
QuietProbe(d) == \/ Alloc(d) \/ EnableDevice(d) \/ ReqRegions(d) \/ MapDevice(d) \/ RequestIrq(d)
                 \/ AddCdev(d) \/ CreateNode(d) \/ CountDev(d) \/ Probe(d)
                 \/ UndoIrq(d) \/ UndoMap(d) \/ UndoRegions(d) \/ UndoEnable(d)
QuietRemove(d) == \/ Remove(d) \/ DestroyNode(d) \/ DelCdev(d) \/ FreeIrq(d) \/ Unmap(d)
                  \/ RelRegions(d)

\* All steps there are.
LEMMA AllSteps ==
  ASSUME [Next]_vars
  PROVE  \/ UNCHANGED vars \/ Load \/ Unload \/ ModuleStep
         \/ \E d \in Devs : \/ QuietProbe(d) \/ QuietRemove(d) \/ ListAddTail(d) \/ ListDel(d)
                            \/ UndoAlloc(d) \/ FreeDev(d) \/ Plug(d) \/ Unplug(d)
         \/ \E f \in Files : FileStep(f)
BY DEF Next, ProbeStep, UndoStep, RemoveStep, QuietProbe, QuietRemove, FileStep

\* What a quiet step of a device does.
LEMMA QuietStep ==
  ASSUME DriverInv, NEW d \in Devs, QuietProbe(d) \/ QuietRemove(d)
  PROVE  /\ UNCHANGED <<modVars, plugged, plugs, listVars, fileVars>>
         /\ \A e \in Devs \ {d} : dpc'[e] = dpc[e] /\ minor'[e] = minor[e]
         /\ dpc[d] \in OnList <=> dpc'[d] \in OnList
         /\ dpc[d] \notin {"rm_list", "rm_free"} /\ dpc'[d] # "rm_free"
         /\ QuietProbe(d) => /\ dpc'[d] \notin RemoveSteps
                             /\ dpc'[d] = "bound" => dpc[d] = "count" /\ minor'[d] = minor[d]
                             /\ dpc[d] \in {"count", "bound"} => dpc'[d] = "bound"
         /\ QuietRemove(d) => /\ dpc'[d] \in RemoveSteps /\ minor'[d] = minor[d]
                              /\ Leaving(d) \/ mod = "detach"
<1> USE DEF DriverInv, DevGoto, Try, Undo, busVars, numVars, heldVars, ProbeSteps, UnwindSteps,
            RemoveSteps, OnList, TypeOK
<1>1. CASE QuietProbe(d)
  <2>1. CASE Alloc(d) \/ EnableDevice(d) \/ ReqRegions(d) \/ MapDevice(d) \/ RequestIrq(d)
    BY <2>1 DEF Alloc, EnableDevice, ReqRegions, MapDevice, RequestIrq, QuietRemove, Remove,
                DestroyNode, DelCdev, FreeIrq, Unmap, RelRegions
  <2>2. CASE AddCdev(d) \/ CreateNode(d) \/ CountDev(d) \/ Probe(d)
    BY <2>2 DEF AddCdev, CreateNode, CountDev, Probe, QuietRemove, Remove,
                DestroyNode, DelCdev, FreeIrq, Unmap, RelRegions
  <2>3. CASE UndoIrq(d) \/ UndoMap(d) \/ UndoRegions(d) \/ UndoEnable(d)
    BY <2>3 DEF UndoIrq, UndoMap, UndoRegions, UndoEnable, QuietRemove, Remove,
                DestroyNode, DelCdev, FreeIrq, Unmap, RelRegions
  <2> QED BY <1>1, <2>1, <2>2, <2>3 DEF QuietProbe
<1>2. CASE QuietRemove(d) /\ ~QuietProbe(d)
  BY <1>2 DEF QuietRemove, Remove, DestroyNode, DelCdev, FreeIrq, Unmap, RelRegions, Leaving, Removing
<1> QED BY <1>1, <1>2

\* Without surprise no step lets a device go that a file may be using.
LEMMA CalmStep ==
  ASSUME Surprise = FALSE, DriverInv, Calm, [Next]_vars
  PROVE  Calm'
<1> USE DEF DriverInv, Calm, Leaving, Removing, RemoveSteps
<1>1. CASE UNCHANGED vars
  BY <1>1 DEF vars, modVars, busVars, devVars, numVars, fileVars
<1>2. CASE Load \/ Unload \/ ModuleStep
  BY <1>2
  DEF Load, Unload, ModuleStep, AllocRegion, Register, Attached, Unregister, Detached,
      UndoRegion, UndoClass, ModGoto, busVars, devVars, numVars, fileVars
<1>3. ASSUME NEW d \in Devs, QuietProbe(d) PROVE Calm'
  <2>1. /\ UNCHANGED <<mod, op, node, plugged>>
        /\ \A e \in Devs \ {d} : dpc'[e] = dpc[e] /\ minor'[e] = minor[e]
        /\ dpc'[d] \notin RemoveSteps /\ (dpc'[d] = "bound" => dpc[d] = "count")
    BY <1>3, QuietStep DEF modVars, fileVars
  <2>2. dpc'[d] = "bound" => d \in plugged
    BY <2>1 DEF Bus, Binding, ProbeSteps
  <2> QED BY <2>1, <2>2
<1>4. ASSUME NEW d \in Devs, QuietRemove(d) PROVE Calm'
  <2>1. /\ UNCHANGED <<mod, op, node, plugged>>
        /\ \A e \in Devs \ {d} : dpc'[e] = dpc[e] /\ minor'[e] = minor[e]
        /\ minor'[d] = minor[d] /\ (Leaving(d) \/ mod = "detach")
    BY <1>4, QuietStep DEF modVars, fileVars
  <2> QED BY <2>1
<1>5. ASSUME NEW d \in Devs, ListAddTail(d) \/ ListDel(d) \/ UndoAlloc(d) \/ FreeDev(d) PROVE Calm'
  <2>1. /\ UNCHANGED <<mod, op, node, plugged>>
        /\ \A e \in Devs \ {d} : dpc'[e] = dpc[e] /\ minor'[e] = minor[e]
        /\ \/ dpc'[d] \in {"count", "unbound"}
           \/ dpc[d] = "rm_list" /\ minor'[d] = minor[d]
    BY <1>5 DEF ListAddTail, ListDel, UndoAlloc, FreeDev, Kfree, DevGoto, modVars, busVars, numVars,
                fileVars, TypeOK
  <2> QED BY <2>1
<1>6. ASSUME NEW d \in Devs, Plug(d) \/ Unplug(d) PROVE Calm'
  BY <1>6 DEF Plug, Unplug, InUse, modVars, devVars, numVars, fileVars
<1>7. ASSUME NEW f \in Files, FileStep(f) PROVE Calm'
  <2>1. /\ UNCHANGED <<mod, dpc, minor, plugged>>
        /\ \A g \in Files \ {f} : op'[g] = op[g] /\ node'[g] = node[g]
    BY <1>7, Returned
    DEF FileStep, CallOpen, Call, Begin, Walk, Use, Stray, modVars, busVars, devVars, numVars, TypeOK
  <2>2. CASE op'[f] = "closed" \/ (op[f] # "closed" /\ node'[f] = node[f])
    BY <2>1, <2>2
  <2>3. CASE CallOpen(f)
    <3> PICK d \in Devs : Openable(minor[d]) /\ node' = [node EXCEPT ![f] = minor[d]]
      BY <2>3 DEF CallOpen
    <3>1. node'[f] = minor[d]
      BY DEF TypeOK
    <3> QED BY <2>1, <3>1 DEF Openable
  <2>4. CASE Call(f)
    BY <2>2, <2>4 DEF Call, Begin
  <2>5. CASE Walk(f) \/ Use(f) \/ Stray(f)
    <3>1. op[f] # "closed"
      BY <2>5 DEF Walk, Use, Stray
    <3>2. CASE \E ok \in BOOLEAN : Return(f, ok)
      BY <2>2, <3>1, <3>2, Returned
    <3>3. CASE UNCHANGED node
      BY <2>2, <3>1, <3>3
    <3> QED BY <2>5, <3>2, <3>3 DEF Walk, Use, Stray
  <2> QED BY <1>7, <2>3, <2>4, <2>5 DEF FileStep
<1> QED BY <1>1, <1>2, <1>3, <1>4, <1>5, <1>6, <1>7, AllSteps

\* A device that a file is using stays and keeps its number.
LEMMA DeviceStays ==
  ASSUME DriverInv, Calm, [Next]_vars, NEW f \in Files, op[f] # "closed",
         NEW d \in Staying, minor[d] = node[f]
  PROVE  d \in Staying' /\ minor'[d] = minor[d]
<1> USE DEF DriverInv, Staying
<1>1. mod \in {"attach", "live"} /\ ~Leaving(d)
  BY DEF Calm
<1>2. CASE UNCHANGED <<dpc, minor>>
  BY <1>2
<1>3. CASE UNCHANGED vars \/ Load \/ Unload \/ ModuleStep
  BY <1>2, <1>3
  DEF vars, Load, Unload, ModuleStep, AllocRegion, Register, Attached, Unregister, Detached,
      UndoRegion, UndoClass, devVars, numVars
<1>4. ASSUME NEW e \in Devs, QuietProbe(e) \/ QuietRemove(e)
      PROVE  d \in Staying' /\ minor'[d] = minor[d]
  <2>1. CASE e # d
    BY <1>4, <2>1, QuietStep
  <2>2. CASE e = d
    <3>1. QuietProbe(d)
      BY <1>1, <1>4, <2>2, QuietStep
    <3>2. dpc'[d] = "bound" /\ minor'[d] = minor[d]
      BY <3>1, QuietStep
    <3> QED BY <3>2
  <2> QED BY <2>1, <2>2
<1>5. ASSUME NEW e \in Devs, ListAddTail(e) \/ ListDel(e) \/ UndoAlloc(e) \/ FreeDev(e)
      PROVE  d \in Staying' /\ minor'[d] = minor[d]
  BY <1>5
  DEF ListAddTail, ListDel, UndoAlloc, FreeDev, Kfree, DevGoto, numVars, TypeOK
<1>6. CASE \E e \in Devs : Plug(e) \/ Unplug(e)
  BY <1>2, <1>6 DEF Plug, Unplug, devVars, numVars
<1>7. CASE \E g \in Files : FileStep(g)
  BY <1>2, <1>7 DEF FileStep, CallOpen, Call, Begin, Walk, Use, Stray, devVars, numVars
<1> QED BY <1>3, <1>4, <1>5, <1>6, <1>7, AllSteps

\* The steps of others leave a file where it is; where its walk stands is
\* freed or, if it has been overtaken, unlinked.
LEMMA WalkKept ==
  ASSUME DriverInv, [Next]_vars, NEW f \in Files, ~FileStep(f)
  PROVE  /\ op'[f] = op[f] /\ kind'[f] = kind[f] /\ node'[f] = node[f]
         /\ ~overtaken'[f] => ~overtaken[f]
         /\ cur[f] \in Staying => cur'[f] = cur[f]
         /\ Reached(cur[f]) => Reached(cur[f])'
         /\ Reached(ahead[f]) => Reached(ahead[f])'
         /\ op[f] = "walk" /\ ~overtaken'[f] /\ Listed(cur[f]) /\ Listed(ahead[f])
              => Listed(cur[f])' /\ Listed(ahead[f])'
<1> DEFINE Kept ==
             /\ op'[f] = op[f] /\ kind'[f] = kind[f] /\ node'[f] = node[f]
             /\ ~overtaken'[f] => ~overtaken[f]
             /\ cur[f] \in Staying => cur'[f] = cur[f]
             /\ Reached(cur[f]) => Reached(cur[f])'
             /\ Reached(ahead[f]) => Reached(ahead[f])'
             /\ op[f] = "walk" /\ ~overtaken'[f] /\ Listed(cur[f]) /\ Listed(ahead[f])
                  => Listed(cur[f])' /\ Listed(ahead[f])'
<1> SUFFICES Kept
  OBVIOUS
<1> USE DEF DriverInv, Listed, Reached, Staying
<1>1. ASSUME UNCHANGED fileVars,
             \A e \in Devs : dpc[e] \in OnList => dpc'[e] \in OnList,
             \A e \in Devs : dpc[e] = "rm_free" => dpc'[e] = "rm_free"
      PROVE  Kept
  BY <1>1 DEF fileVars
<1>2. CASE UNCHANGED vars \/ Load \/ Unload \/ ModuleStep
  BY <1>1, <1>2
  DEF vars, Load, Unload, ModuleStep, AllocRegion, Register, Attached, Unregister, Detached,
      UndoRegion, UndoClass, devVars
<1>3. ASSUME NEW d \in Devs, QuietProbe(d) \/ QuietRemove(d) PROVE Kept
  BY <1>1, <1>3, QuietStep
<1>4. ASSUME NEW d \in Devs, ListAddTail(d) \/ Plug(d) \/ Unplug(d) PROVE Kept
  BY <1>1, <1>4 DEF ListAddTail, Plug, Unplug, DevGoto, devVars, OnList, TypeOK
<1>5. ASSUME NEW d \in Devs, ListDel(d) PROVE Kept
  <2>1. /\ UNCHANGED <<op, kind, node, cur, ahead>>
        /\ overtaken'[f] = (overtaken[f] \/ (op[f] = "walk" /\ d \in {cur[f], ahead[f]}))
        /\ dpc[d] = "rm_list" /\ dpc'[d] = "rm_free" /\ \A e \in Devs \ {d} : dpc'[e] = dpc[e]
    BY <1>5 DEF ListDel, DevGoto, TypeOK
  <2> QED BY <2>1
<1>6. ASSUME NEW d \in Devs, UndoAlloc(d) \/ FreeDev(d) PROVE Kept
  <2>1. /\ UNCHANGED <<op, kind, node, overtaken>>
        /\ cur'[f] = IF cur[f] = d THEN Freed ELSE cur[f]
        /\ ahead'[f] = IF ahead[f] = d THEN Freed ELSE ahead[f]
        /\ dpc[d] \in {"undo_alloc", "rm_free"} /\ \A e \in Devs \ {d} : dpc'[e] = dpc[e]
    BY <1>6 DEF UndoAlloc, FreeDev, Kfree, DevGoto, TypeOK
  <2> QED BY <2>1, PointerAssumption DEF OnList
<1>7. ASSUME NEW g \in Files, g # f, FileStep(g) PROVE Kept
  <2>1. /\ op'[f] = op[f] /\ kind'[f] = kind[f] /\ node'[f] = node[f]
        /\ overtaken'[f] = overtaken[f] /\ cur'[f] = cur[f] /\ ahead'[f] = ahead[f]
        /\ UNCHANGED dpc
    <3>1. UNCHANGED dpc
      BY <1>7 DEF FileStep, CallOpen, Call, Begin, Walk, Use, Stray, devVars
    <3>2. CASE \E ok \in BOOLEAN : Return(g, ok)
      BY <1>7, <3>1, <3>2, Returned
    <3>3. CASE CallOpen(g) \/ Call(g)
      BY <1>7, <3>1, <3>3 DEF CallOpen, Call, Begin, TypeOK
    <3>4. CASE Walk(g) /\ cur[g] # PrivateHead
      BY <1>7, <3>1, <3>4 DEF Walk, TypeOK
    <3> QED BY <1>7, <3>2, <3>3, <3>4 DEF FileStep, Walk, Use, Stray
  <2> QED BY <2>1
<1> QED BY <1>2, <1>3, <1>4, <1>5, <1>6, <1>7, AllSteps

\* Along the list one comes from listed entries to listed entries.
LEMMA BeyondListed ==
  ASSUME DriverInv, ~tangled, NEW n \in Devs \union {PrivateHead, Freed}
  PROVE  /\ Listed(n) => Listed(Beyond(n))
         /\ Reached(n) => Reached(Beyond(n))
<1> USE DEF DriverInv, Listed, Reached
<1>1. Chain
  BY DEF List
<1>2. \A e \in Devs : next[e] # Freed <=> dpc[e] \in OnList
  BY <1>1 DEF List, Chain
<1>3. \A m \in Devs \union {PrivateHead} : next[m] # Freed => Listed(next[m])
  BY <1>1, <1>2 DEF Chain, TypeOK
<1>4. Freed \notin Devs /\ PrivateHead # Freed /\ PrivateHead \notin Devs
  BY PointerAssumption
<1>5. n # Freed => Beyond(n) = next[n]
  BY DEF Beyond
<1>6. Listed(n) => n # Freed /\ next[n] # Freed
  BY <1>1, <1>2, <1>4 DEF Chain
<1>7. CASE Listed(n)
  <2>1. Listed(Beyond(n))
    BY <1>3, <1>5, <1>6, <1>7
  <2> QED BY <2>1
<1>8. CASE ~Listed(n) /\ Reached(n)
  <2>1. n = Freed \/ next[n] = Freed
    BY <1>2, <1>8 DEF OnList
  <2>2. Beyond(n) = Freed
    BY <2>1 DEF Beyond
  <2> QED BY <1>8, <2>2
<1> QED BY <1>7, <1>8

\* An operation goes from one listed device to the next.
LEMMA OnTrackStep ==
  ASSUME DriverInv, Calm, OnTrack, [Next]_vars
  PROVE  OnTrack'
<1> USE DEF DriverInv
<1> SUFFICES ASSUME ~tangled', NEW f \in Files
             PROVE  /\ op'[f] = "walk" =>
                         /\ Reached(cur[f])' /\ Reached(ahead[f])'
                         /\ ~overtaken'[f] => Listed(cur[f])' /\ Listed(ahead[f])'
                    /\ op'[f] = "use" => cur'[f] \in Staying' /\ minor'[cur'[f]] = node'[f]
  BY DEF OnTrack
<1>1. CASE Load
  BY <1>1 DEF Load, Calm, fileVars
<1>2. CASE ~Load
  <2>1. ~tangled
    BY <1>2, AllSteps, QuietStep
    DEF vars, Unload, ModuleStep, AllocRegion, Register, Attached, Unregister, Detached, UndoRegion,
        UndoClass, devVars, listVars, ListAddTail, ListDel, UndoAlloc, FreeDev, Kfree, Plug, Unplug,
        FileStep, CallOpen, Call, Begin, Walk, Use, Stray
  <2>2. CASE ~FileStep(f)
    <3>2. CASE op[f] = "walk"
      BY <2>1, <2>2, <3>2, WalkKept DEF OnTrack
    <3>3. CASE op[f] = "use"
      <4>1. cur[f] \in Staying /\ minor[cur[f]] = node[f]
        BY <2>1, <3>3 DEF OnTrack
      <4>2. cur'[f] = cur[f] /\ op'[f] = op[f] /\ node'[f] = node[f]
        BY <2>2, <4>1, WalkKept
      <4>3. cur[f] \in Staying' /\ minor'[cur[f]] = minor[cur[f]]
        BY <3>3, <4>1, DeviceStays
      <4> QED BY <3>3, <4>1, <4>2, <4>3
    <3>4. CASE op[f] \notin {"walk", "use"}
      BY <2>2, <3>4, WalkKept
    <3> QED BY <3>2, <3>3, <3>4
  <2>3. CASE FileStep(f)
    <3>1. UNCHANGED <<dpc, minor>>
      BY <2>3 DEF FileStep, CallOpen, Call, Begin, Walk, Use, Stray, devVars, numVars
    <3>2. /\ Staying' = Staying
          /\ Reached(cur[f])' <=> Reached(cur'[f])
          /\ Reached(ahead[f])' <=> Reached(ahead'[f])
          /\ Listed(cur[f])' <=> Listed(cur'[f])
          /\ Listed(ahead[f])' <=> Listed(ahead'[f])
      BY <3>1 DEF Staying, Reached, Listed
    <3>3. \A n : Listed(n) => Reached(n)
      BY DEF Listed, Reached
    <3>4. /\ cur[f] \in Devs \union {PrivateHead, Freed}
          /\ ahead[f] \in Devs \union {PrivateHead, Freed}
          /\ next[PrivateHead] \in Devs \union {PrivateHead, Freed}
      BY DEF TypeOK
    <3>5. CASE CallOpen(f) \/ Call(f)
      <4>1. cur'[f] = next[PrivateHead] /\ ahead'[f] = Beyond(next[PrivateHead]) /\ op'[f] = "walk"
        BY <3>5 DEF CallOpen, Call, Begin, TypeOK
      <4>2. Listed(PrivateHead) /\ Beyond(PrivateHead) = next[PrivateHead]
        BY PointerAssumption DEF Listed, Beyond
      <4>3. Listed(next[PrivateHead])
        BY <2>1, <4>2, BeyondListed
      <4>4. Listed(Beyond(next[PrivateHead]))
        BY <2>1, <3>4, <4>3, BeyondListed
      <4> QED BY <3>2, <3>3, <4>1, <4>3, <4>4
    <3>6. CASE Walk(f)
      <4>1. op[f] = "walk" /\ Reached(cur[f]) /\ Reached(ahead[f])
        BY <2>1, <3>6 DEF OnTrack, Walk
      <4>2. CASE cur[f] = PrivateHead
        <5>1. op'[f] \in {"open", "closed"}
          BY <3>6, <4>2 DEF Walk, Return, After, TypeOK
        <5> QED BY <5>1
      <4>3. CASE cur[f] # PrivateHead /\ minor[cur[f]] = node[f]
        <5>1. cur[f] \in Devs /\ dpc[cur[f]] \in OnList \union {"rm_free"}
          BY <3>6, <4>1, <4>3 DEF Walk, Reached
        <5>2. ~Leaving(cur[f])
          BY <4>1, <4>3, <5>1 DEF Calm
        <5>3. cur[f] \in Staying
          BY <5>1, <5>2 DEF Staying, Leaving, Removing, RemoveSteps, OnList
        <5>4. op'[f] = "use" /\ cur'[f] = cur[f] /\ node'[f] = node[f]
          BY <3>6, <4>3 DEF Walk, TypeOK
        <5> QED BY <3>1, <3>2, <4>3, <5>3, <5>4
      <4>4. CASE cur[f] # PrivateHead /\ minor[cur[f]] # node[f]
        <5>1. /\ cur'[f] = ahead[f] /\ ahead'[f] = Beyond(ahead[f]) /\ op'[f] = "walk"
              /\ overtaken'[f] = overtaken[f]
          BY <3>6, <4>1, <4>4 DEF Walk, TypeOK
        <5>2. ~overtaken[f] => Listed(ahead[f])
          BY <2>1, <4>1 DEF OnTrack
        <5> QED BY <2>1, <3>2, <3>4, <4>1, <5>1, <5>2, BeyondListed
      <4> QED BY <4>2, <4>3, <4>4
    <3>7. CASE Use(f) \/ Stray(f)
      <4>1. op'[f] \in {"open", "closed"}
        BY <3>7 DEF Use, Stray, Return, After, TypeOK
      <4> QED BY <4>1
    <3> QED BY <2>3, <3>5, <3>6, <3>7 DEF FileStep
  <2> QED BY <2>2, <2>3
<1> QED BY <1>1, <1>2

\* When nobody pulls a device that is in use, a file operation only ever follows
\* pointers to devices that are there, while others are probed and removed beside
\* it without a lock: the two entries it holds on to are all that it must not lose.
THEOREM DriverSafeUse == ASSUME Surprise = FALSE PROVE Spec => []SafeUse
<1>1. Init => Calm /\ OnTrack
  BY DEF Init, Calm, OnTrack
<1>2. DriverInv /\ Calm /\ OnTrack /\ [Next]_vars => Calm' /\ OnTrack'
  BY CalmStep, OnTrackStep
<1>3. DriverInv /\ OnTrack => SafeUse
  <2> SUFFICES ASSUME DriverInv, OnTrack, NEW f \in Files, ~overtaken[f], ~tangled
               PROVE  /\ op[f] \in {"walk", "use"} => cur[f] # Freed
                      /\ op[f] = "use" =>
                           /\ cur[f] \in Devs /\ minor[cur[f]] = node[f]
                           /\ {"mem", "regions", "iomap", "irq"} \subseteq held[cur[f]]
    BY DEF SafeUse
  <2>1. op[f] = "walk" => cur[f] # Freed
    BY PointerAssumption DEF OnTrack, Listed
  <2>2. op[f] = "use" => cur[f] \in Staying /\ minor[cur[f]] = node[f] /\ cur[f] # Freed
    BY PointerAssumption DEF OnTrack, Staying
  <2>3. \A d \in Staying : {"mem", "regions", "iomap", "irq"} \subseteq held[d]
    BY DEF DriverInv, Resources, During, Mapped, Staying
  <2> QED BY <2>1, <2>2, <2>3 DEF Staying
<1> QED BY <1>1, <1>2, <1>3, DriverInvariant, PTL DEF Spec

-----------------------------------------------------------------------------
(* An open file finds its device, when nobody pulls a device that is in use *)

\* An open file has a device that stays.
Found ==
  ~tangled => \A f \in Files :
    op[f] = "open" \/ (op[f] \in {"walk", "use"} /\ kind[f] # "open") =>
      \E d \in Staying : minor[d] = node[f]

\* An open that finds its device leaves a file that has one.
LEMMA FoundStep ==
  ASSUME DriverInv, Calm, OnTrack, Found, [Next]_vars
  PROVE  Found'
<1> USE DEF DriverInv
<1> SUFFICES ASSUME ~tangled', NEW f \in Files,
                    op'[f] = "open" \/ (op'[f] \in {"walk", "use"} /\ kind'[f] # "open")
             PROVE  \E d \in Staying' : minor'[d] = node'[f]
  BY DEF Found
<1>1. CASE Load
  BY <1>1 DEF Load, Calm, fileVars
<1>2. CASE ~Load
  <2>1. ~tangled
    BY <1>2, AllSteps, QuietStep
    DEF vars, Unload, ModuleStep, AllocRegion, Register, Attached, Unregister, Detached, UndoRegion,
        UndoClass, devVars, listVars, ListAddTail, ListDel, UndoAlloc, FreeDev, Kfree, Plug, Unplug,
        FileStep, CallOpen, Call, Begin, Walk, Use, Stray
  <2>2. op[f] # "closed" =>
          \A d \in Staying : minor[d] = node[f] => d \in Staying' /\ minor'[d] = minor[d]
    BY DeviceStays
  <2>3. CASE ~FileStep(f)
    BY <2>1, <2>2, <2>3, WalkKept DEF Found
  <2>4. CASE CallOpen(f)
    BY <2>4 DEF CallOpen, Begin, TypeOK
  <2>5. CASE Call(f)
    <3>1. node'[f] = node[f] /\ op[f] = "open"
      BY <2>5 DEF Call, Begin
    <3> QED BY <2>1, <2>2, <3>1 DEF Found
  <2>6. CASE (Walk(f) /\ cur[f] = PrivateHead) \/ Stray(f)
    <3>1. Return(f, FALSE) /\ op[f] \in {"walk", "use"}
      BY <2>6 DEF Walk, Stray
    <3>2. op'[f] = "open" /\ node'[f] = node[f] /\ kind[f] # "open"
      BY <3>1, Returned
    <3> QED BY <2>1, <2>2, <3>1, <3>2 DEF Found
  <2>7. CASE Walk(f) /\ cur[f] # PrivateHead
    <3>1. op[f] = "walk" /\ op'[f] \in {"walk", "use"} /\ UNCHANGED <<kind, node>>
      BY <2>7 DEF Walk, TypeOK
    <3> QED BY <2>1, <2>2, <3>1 DEF Found
  <2>8. CASE Use(f)
    <3>1. op[f] = "use" /\ Return(f, TRUE)
      BY <2>8 DEF Use
    <3>2. cur[f] \in Staying /\ minor[cur[f]] = node[f]
      BY <2>1, <3>1 DEF OnTrack
    <3>3. op'[f] = "open" /\ node'[f] = node[f]
      BY <3>1, Returned
    <3> QED BY <2>2, <3>1, <3>2, <3>3
  <2> QED BY <2>3, <2>4, <2>5, <2>6, <2>7, <2>8 DEF FileStep
<1> QED BY <1>1, <1>2

\* When nobody pulls a device that is in use, every ioctl and the release of an
\* open file have a device on the list: release never leaves the interrupts on
\* because it got -ENODEV.
THEOREM DriverOpenFindsDevice == ASSUME Surprise = FALSE PROVE Spec => []OpenFindsDevice
<1>1. Init => Calm /\ OnTrack /\ Found
  BY DEF Init, Calm, OnTrack, Found
<1>2. DriverInv /\ Calm /\ OnTrack /\ Found /\ [Next]_vars => Calm' /\ OnTrack' /\ Found'
  BY CalmStep, OnTrackStep, FoundStep
<1>3. DriverInv /\ Found => OpenFindsDevice
  BY DEF DriverInv, Found, OpenFindsDevice, Staying, List, Chain, OnList
<1> QED BY <1>1, <1>2, <1>3, DriverInvariant, PTL DEF Spec

-----------------------------------------------------------------------------
(* No two devices answer to the same minor, until a probe reads g_dev_count *)
(* in another one's window or the counter, which only counts up, comes round. *)

\* The two kinds of devices that have a minor: its number counted, and not yet.
Counted  == {"bound", "rm_node", "rm_cdev"}
Numbered == {"node", "list", "count"}

\* The numbers that were counted are below the count and distinct; the one device
\* that has a number and is not counted has the next one.
MinorsInv ==
  mod \in {"attach", "live"} /\ ~miscounted =>
    /\ \A d \in Devs : dpc[d] \in Counted => minor[d] < gDevCount
    /\ \A d \in Devs : dpc[d] \in Numbered => minor[d] = gDevCount
    /\ \A d, e \in Devs : dpc[d] \in Numbered /\ dpc[e] \in Numbered => d = e
    /\ \A d, e \in Devs : dpc[d] \in Counted /\ dpc[e] \in Counted /\ minor[d] = minor[e] => d = e

\* A step of one device that hands out no number and counts none.
LEMMA UncountedStep ==
  ASSUME MinorsInv, NEW d \in Devs, UNCHANGED <<mod, miscounted, gDevCount>>,
         \A e \in Devs \ {d} : dpc'[e] = dpc[e] /\ minor'[e] = minor[e],
         dpc'[d] \in Counted => dpc[d] \in Counted /\ minor'[d] = minor[d],
         dpc'[d] \in Numbered => dpc[d] \in Numbered /\ minor'[d] = minor[d]
  PROVE  MinorsInv'
BY DEF MinorsInv

\* cdev_add under the next number, and g_dev_count++.
LEMMA NumberStep ==
  ASSUME DriverInv, MinorsInv, NEW d \in Devs, AddCdev(d) \/ CountDev(d)
  PROVE  MinorsInv'
<1> USE DEF DriverInv, DevGoto
<1> SUFFICES ASSUME mod \in {"attach", "live"}, ~miscounted'
             PROVE  MinorsInv'
  BY DEF MinorsInv, AddCdev, CountDev, modVars
<1>1. ~miscounted
  BY DEF AddCdev, CountDev
<1>2. gDevCount \in Nat /\ gDevCount < CountMod /\ CountMod \in Nat \ {0}
      /\ \A e \in Devs : minor[e] \in Nat
  BY CountAssumption DEF TypeOK
<1>3. UNCHANGED mod
  BY DEF AddCdev, CountDev, modVars
<1>4. CASE AddCdev(d)
  <2>1. /\ UNCHANGED gDevCount /\ minor'[d] = gDevCount
        /\ \A e \in Devs \ {d} : minor'[e] = minor[e] /\ dpc'[e] = dpc[e]
        /\ \/ dpc'[d] = "undo_irq"
           \/ dpc'[d] = "node" /\ ~Counting(d)
    BY <1>4 DEF AddCdev, TypeOK
  <2>2. dpc'[d] = "node" => \A e \in Devs \ {d} : dpc[e] \notin Numbered
    BY <2>1 DEF Counting, Numbered
  <2> QED BY <1>1, <1>3, <2>1, <2>2 DEF MinorsInv, Counted, Numbered
<1>5. CASE CountDev(d)
  <2>1. /\ dpc[d] = "count" /\ dpc'[d] = "bound" /\ UNCHANGED minor
        /\ \A e \in Devs \ {d} : dpc'[e] = dpc[e]
    BY <1>5 DEF CountDev, TypeOK
  <2>2. \A e \in Devs \ {d} : dpc[e] \notin Numbered
    BY <1>1, <2>1 DEF MinorsInv, Numbered
  <2>3. gDevCount' = (gDevCount + 1) % CountMod /\ gDevCount' # 0
    BY <1>5, <2>2 DEF CountDev, Numbered
  <2>4. gDevCount' = gDevCount + 1
    BY <1>2, <2>3
  <2>5. minor[d] = gDevCount /\ \A e \in Devs \ {d} : dpc'[e] \in Counted => minor[e] < gDevCount
    BY <1>1, <2>1 DEF MinorsInv, Numbered
  <2>6. \A e \in Devs : dpc'[e] \in Counted => minor[e] < gDevCount'
    BY <1>2, <2>4, <2>5
  <2>7. \A e \in Devs : dpc'[e] \notin Numbered
    BY <2>1, <2>2 DEF Numbered
  <2>8. \A e, g \in Devs :
          dpc'[e] \in Counted /\ dpc'[g] \in Counted /\ minor[e] = minor[g] => e = g
    BY <1>1, <1>2, <2>1, <2>5 DEF MinorsInv
  <2> QED BY <2>1, <2>6, <2>7, <2>8 DEF MinorsInv
<1> QED BY <1>4, <1>5

\* The numbers given out stay distinct in every step.
LEMMA MinorsStep == DriverInv /\ MinorsInv /\ [Next]_vars => MinorsInv'
<1> SUFFICES ASSUME DriverInv, MinorsInv, [Next]_vars PROVE MinorsInv'
  OBVIOUS
<1> USE DEF DriverInv
<1>1. CASE UNCHANGED <<mod, gDevCount, miscounted, dpc, minor>>
  BY <1>1 DEF MinorsInv
<1>2. CASE UNCHANGED vars \/ \E f \in Files : FileStep(f)
  BY <1>1, <1>2
  DEF vars, FileStep, CallOpen, Call, Begin, Walk, Use, Stray, modVars, busVars, devVars, numVars
<1>3. CASE Load \/ Unload \/ ModuleStep
  <2>1. CASE Attached
    BY <2>1 DEF Attached, ModGoto, devVars, numVars, MinorsInv
  <2>2. CASE Register
    <3>1. UNCHANGED <<dpc, minor>> /\ \A d \in Devs : dpc[d] = "unbound"
      BY <2>2 DEF Register, ModGoto, Stages, devVars, numVars
    <3> QED BY <3>1 DEF MinorsInv, Counted, Numbered
  <2>3. CASE ~Attached /\ ~Register
    <3>1. mod' \notin {"attach", "live"}
      BY <1>3, <2>3 DEF Load, Unload, ModuleStep, AllocRegion, Unregister, Detached, UndoRegion,
                        UndoClass, ModGoto
    <3> QED BY <3>1 DEF MinorsInv
  <2> QED BY <2>1, <2>2, <2>3
<1>4. ASSUME NEW d \in Devs, QuietProbe(d), ~AddCdev(d), ~CountDev(d) PROVE MinorsInv'
  <2>1. /\ UNCHANGED <<mod, miscounted, gDevCount, minor>>
        /\ \A e \in Devs \ {d} : dpc'[e] = dpc[e]
        /\ dpc'[d] \notin Counted
        /\ dpc'[d] \in Numbered => dpc[d] \in Numbered
    BY <1>4
    DEF QuietProbe, Alloc, EnableDevice, ReqRegions, MapDevice, RequestIrq, Try, CreateNode, Probe,
        UndoIrq, UndoMap, UndoRegions, UndoEnable, Undo, DevGoto, modVars, numVars, TypeOK, Counted,
        Numbered
  <2> QED BY <2>1, UncountedStep
<1>5. ASSUME NEW d \in Devs, QuietRemove(d) PROVE MinorsInv'
  <2>1. /\ UNCHANGED <<mod, miscounted, gDevCount, minor>>
        /\ \A e \in Devs \ {d} : dpc'[e] = dpc[e]
        /\ dpc[d] \in Counted \/ dpc'[d] \notin Counted
        /\ dpc'[d] \notin Numbered
    BY <1>5
    DEF QuietRemove, Remove, DestroyNode, DelCdev, FreeIrq, Unmap, RelRegions, Undo, DevGoto,
        modVars, numVars, TypeOK, Counted, Numbered
  <2> QED BY <2>1, UncountedStep
<1>6. ASSUME NEW d \in Devs, ListAddTail(d) \/ ListDel(d) \/ UndoAlloc(d) \/ FreeDev(d)
      PROVE  MinorsInv'
  <2>1. /\ UNCHANGED <<mod, miscounted, gDevCount>>
        /\ \A e \in Devs \ {d} : dpc'[e] = dpc[e] /\ minor'[e] = minor[e]
        /\ dpc'[d] \notin Counted
        /\ dpc'[d] \in Numbered => dpc[d] \in Numbered /\ minor'[d] = minor[d]
    BY <1>6
    DEF ListAddTail, ListDel, UndoAlloc, FreeDev, Kfree, DevGoto, modVars, numVars, TypeOK, Counted,
        Numbered
  <2> QED BY <2>1, UncountedStep
<1>7. CASE \E d \in Devs : Plug(d) \/ Unplug(d)
  BY <1>1, <1>7 DEF Plug, Unplug, modVars, devVars, numVars
<1> QED BY <1>2, <1>3, <1>4, <1>5, <1>6, <1>7, NumberStep, AllSteps

\* Whatever is probed, fails, is pulled and plugged in again, and for any width
\* of the counter: a minor is given out twice only by two probes that read
\* g_dev_count in the same window, or after the counter came round.
THEOREM DriverUniqueMinors == Spec => []UniqueMinors
<1>1. Init => MinorsInv
  BY DEF Init, MinorsInv
<1>2. DriverInv /\ MinorsInv => UniqueMinors
  <2> SUFFICES ASSUME DriverInv, MinorsInv, mod \in {"attach", "live"}, ~miscounted,
                      NEW d \in Devs, NEW e \in Devs,
                      "cdev" \in held[d], "cdev" \in held[e], minor[d] = minor[e]
               PROVE  d = e
    BY DEF UniqueMinors
  <2>1. /\ dpc[d] \in Numbered \union Counted
        /\ dpc[e] \in Numbered \union Counted
    BY DEF DriverInv, Resources, During, Numbered, Counted
  <2>2. gDevCount \in Nat /\ minor[d] \in Nat /\ minor[e] \in Nat
    BY CountAssumption DEF DriverInv, TypeOK
  <2> QED BY <2>1, <2>2 DEF MinorsInv
<1> QED BY <1>1, <1>2, MinorsStep, DriverInvariant, PTL DEF Spec

-----------------------------------------------------------------------------
(* Walks of the list end *)

\* A new entry leads to the head, and the one before it to the new entry.
LEMMA ListAddEnds ==
  ASSUME DriverInv, ListEnds, NEW d \in Devs, ListAddTail(d)
  PROVE  ListEnds'
<1> USE DEF DriverInv
<1> SUFFICES ASSUME ~tangled',
                    NEW S \in SUBSET Devs, S # {}, \A e \in S : next'[e] # Freed
             PROVE  \E e \in S : next'[e] \notin S
  BY DEF ListEnds
<1>1. ~tangled /\ next[d] = Freed /\ DOMAIN next = Devs \union {PrivateHead}
  BY DEF ListAddTail, DevGoto, List, OnList, TypeOK
<1> PICK last \in DOMAIN next :
       next[last] = PrivateHead /\ next' = [next EXCEPT ![last] = d, ![d] = PrivateHead]
  BY DEF ListAddTail
<1>2. last # d /\ d # PrivateHead
  BY <1>1, PointerAssumption
<1>3. /\ next'[d] = PrivateHead /\ next'[last] = d
      /\ \A n \in Devs : n # d /\ n # last => next'[n] = next[n]
  BY <1>1, <1>2 DEF TypeOK
<1>4. CASE d \in S
  BY <1>3, <1>4, PointerAssumption
<1>5. CASE d \notin S
  <2>1. \A e \in S : next[e] # Freed
    BY <1>3, <1>5, PointerAssumption
  <2> PICK e \in S : next[e] \notin S
    BY <1>1, <2>1 DEF ListEnds
  <2> QED BY <1>3, <1>5
<1> QED BY <1>4, <1>5

\* Taking an entry out makes a way shorter: a set that kept a walk for ever
\* would have done so together with the entry.
LEMMA ListDelEnds ==
  ASSUME DriverInv, ListEnds, NEW d \in Devs, ListDel(d)
  PROVE  ListEnds'
<1> USE DEF DriverInv
<1> SUFFICES ASSUME ~tangled',
                    NEW S \in SUBSET Devs, S # {}, \A e \in S : next'[e] # Freed
             PROVE  \E e \in S : next'[e] \notin S
  BY DEF ListEnds
<1>1. ~tangled /\ Chain /\ next[d] # Freed /\ DOMAIN next = Devs \union {PrivateHead}
  BY DEF ListDel, DevGoto, List, Chain, OnList, TypeOK
<1>2. \A n \in DOMAIN next :
        next'[n] = IF n = d THEN Freed ELSE IF next[n] = d THEN next[d] ELSE next[n]
  BY DEF ListDel, Without
<1>3. d \notin S
  BY <1>1, <1>2
<1>4. \A e \in S \union {d} : next[e] # Freed
  <2> TAKE e \in S \union {d}
  <2>1. CASE e = d
    BY <1>1, <2>1
  <2>2. CASE e # d
    <3>1. next[e] = d \/ next'[e] = next[e]
      BY <1>1, <1>2, <2>2
    <3> QED BY <2>2, <3>1, PointerAssumption
  <2> QED BY <2>1, <2>2
<1> PICK e \in S \union {d} : next[e] \notin S \union {d}
  BY <1>1, <1>4 DEF ListEnds
<1>5. CASE e # d
  BY <1>1, <1>2, <1>5
<1>6. CASE e = d
  <2>1. CASE \E prev \in S : next[prev] = d
    BY <1>1, <1>2, <1>3, <1>6, <2>1
  <2>2. CASE \A g \in S : next[g] # d
    <3> PICK g \in S : next[g] \notin S
      BY <1>1, <1>4 DEF ListEnds
    <3> QED BY <1>1, <1>2, <1>3, <2>2
  <2> QED BY <2>1, <2>2
<1> QED BY <1>5, <1>6

\* However devices come and go, the list leads to its head from each of them,
\* until list operations cross.  This is what lets a walk come to its end
\* (CallsReturn needs fairness on top).
THEOREM DriverListEnds == Spec => []ListEnds
<1>1. Init => ListEnds
  <2> SUFFICES ASSUME Init PROVE ListEnds
    OBVIOUS
  <2>1. \A d \in Devs : next[d] = Freed
    BY PointerAssumption DEF Init
  <2> QED BY <2>1 DEF ListEnds
<1>2. DriverInv /\ ListEnds /\ [Next]_vars => ListEnds'
  <2> SUFFICES ASSUME DriverInv, ListEnds, [Next]_vars PROVE ListEnds'
    OBVIOUS
  <2> USE DEF DriverInv
  <2>1. CASE UNCHANGED listVars
    BY <2>1 DEF ListEnds, listVars
  <2>2. CASE Load
    <3>1. \A d \in Devs : next'[d] = Freed
      BY <2>2, PointerAssumption DEF Load, Stages, List, OnList, TypeOK
    <3> QED BY <3>1 DEF ListEnds
  <2>3. CASE UNCHANGED vars \/ Unload \/ ModuleStep \/ \E f \in Files : FileStep(f)
    BY <2>1, <2>3
    DEF vars, Unload, ModuleStep, AllocRegion, Register, Attached, Unregister, Detached, UndoRegion,
        UndoClass, devVars, FileStep, CallOpen, Call, Begin, Walk, Use, Stray
  <2>4. ASSUME NEW d \in Devs, QuietProbe(d) \/ QuietRemove(d) \/ Plug(d) \/ Unplug(d)
        PROVE  ListEnds'
    BY <2>1, <2>4, QuietStep DEF Plug, Unplug, devVars
  <2>5. ASSUME NEW d \in Devs, UndoAlloc(d) \/ FreeDev(d) PROVE ListEnds'
    <3>1. /\ \A n \in DOMAIN next : next'[n] = IF next[n] = d THEN Freed ELSE next[n]
          /\ UNCHANGED tangled /\ dpc[d] \in {"undo_alloc", "rm_free"}
          /\ DOMAIN next = Devs \union {PrivateHead}
      BY <2>5 DEF UndoAlloc, FreeDev, Kfree, DevGoto, TypeOK
    <3>2. ~tangled => \A n \in DOMAIN next : next[n] # d
      BY <3>1 DEF List, Chain, OnList
    <3>3. ~tangled => \A n \in Devs : next'[n] = next[n]
      BY <3>1, <3>2
    <3> QED BY <3>1, <3>3 DEF ListEnds
  <2> QED BY <2>2, <2>3, <2>4, <2>5, ListAddEnds, ListDelEnds, AllSteps
<1> QED BY <1>1, <1>2, DriverInvariant, PTL DEF Spec
===============================================================================
