------------------------------- MODULE ModuleLife -------------------------------
(***************************************************************************)
(* The life of one small kernel module of this repository, from insmod to  *)
(* rmmod: the GPIO, LED and SDIO drivers and the examples of               *)
(* src/linux_tips and src/testmodules.  Every one of them is an init that  *)
(* acquires things in order, jumps into a ladder of labels when a step     *)
(* fails, and an exit that gives things back; what differs is the Plan,    *)
(* and ModulePlans has one per source file.  The steps run against what    *)
(* the module started: timers, works, tasklets, threads, handlers and open *)
(* files, none of which stop because rmmod was typed.                      *)
(*                                                                         *)
(* External, modelled from how the modules use it: which kernel calls wait *)
(* for a callback (free_irq, tasklet_kill, kthread_stop, ...) and which do *)
(* not (del_timer, cancel_delayed_work), the module loader, the VFS.       *)
(***************************************************************************)
EXTENDS Naturals, Sequences, FiniteSets

CONSTANTS Module,    \* the modules, one per source file
          Resource,  \* what a module can hold
          Plan,      \* what each module does, see ModulePlans
          Leaky,     \* the modules some failure or exit of which leaves something behind
          Unsynced,  \* the modules whose exit does not wait for what they started
          Careless,  \* the modules that free a pin of others or use what they could not get
          EarlyNode, \* the modules that show their device file and may fail after it
          Blocking   \* the modules whose exit waits for something that never comes

(* Things that run by themselves.  Sources are raised by the outside for   *)
(* as long as they are registered; OneShots are queued by a call.          *)
Sources   == {"irq", "probe"}
OneShots  == {"timer", "dwork", "work", "tasklet"}
Callbacks == Sources \union OneShots \union {"thread", "softirq"}

Outcomes == {"fail", "ignore", "never", "stop", "check", "use", "put", "unbind"}

StepType == [get: Resource, on: Outcomes, undo: Seq(Resource)]
PlanType == [init: Seq(StepType), exit: Seq(Resource), again: SUBSET Callbacks, handle: Resource]

ASSUME PlanAssumption ==
  /\ Callbacks \union {"driver", "none", "host", "queue", "dir", "proc", "kobj", "attr"} \subseteq Resource
  /\ \A m \in Module : /\ DOMAIN Plan[m] = {"init", "exit", "again", "handle"}
                       /\ Plan[m].init \in Seq(StepType)
                       /\ Plan[m].exit \in Seq(Resource)
                       /\ Plan[m].again \subseteq Callbacks
                       /\ Plan[m].handle \in Resource

VARIABLES
  module,  \* the module under consideration, chosen at the start
  phase,   \* where its life is
  pc,      \* the next step of its init
  todo,    \* what the undo ladder or exit has still to release
  after,   \* the phase that follows when todo is empty
  held,    \* what the kernel still has registered or allocated for it
  pending, \* callbacks that are queued, armed or raised
  busy,    \* callbacks that are executing the module's code
  opened,  \* is its file open?
  stray    \* pins it has given back without owning them

lifeVars == <<module, phase, pc, todo, after, held, pending, busy, opened, stray>>

Loaded == phase \in {"init", "undo", "live", "exit", "oops"}

(* What steps before step i of m's init have acquired and not given back.  *)
Acquires(step) == step.on \notin {"check", "use", "put"} /\ step.get \notin OneShots
GotBy(m, i) ==
  { r \in Resource :
      \E j \in 1 .. (i - 1) :
         /\ Acquires(Plan[m].init[j]) /\ Plan[m].init[j].get = r
         /\ \A k \in (j + 1) .. (i - 1) :
               ~(Plan[m].init[k].on = "put" /\ Plan[m].init[k].get = r) }

(* Removing a directory of proc or sysfs removes the file in it.           *)
Under(r) == CASE r = "dir"  -> {"dir", "proc"}
              [] r = "kobj" -> {"kobj", "attr"}
              [] OTHER      -> {r}
Listed(s) == UNION {Under(s[i]) : i \in 1 .. Len(s)}

(* Apart from the leaky ones, a module's ladders and its exit name all     *)
(* that it holds when they are entered.  TLC evaluates this on the plans.  *)
ASSUME CoverAssumption ==
  \A m \in Module \ Leaky :
     LET init == Plan[m].init IN
     /\ \A i \in 1 .. Len(init) :
          /\ init[i].on \in {"fail", "check"} => GotBy(m, i) \subseteq Listed(init[i].undo)
          /\ init[i].on = "unbind" => GotBy(m, i) \subseteq Listed(init[i].undo) \union {"driver"}
          /\ init[i].on = "stop" => GotBy(m, i) \subseteq Listed(Plan[m].exit)
     /\ GotBy(m, Len(init) + 1) \subseteq Listed(Plan[m].exit)

(* Which callbacks a release waits for.                                    *)
Awaited(r) == IF r = "wq" THEN {"work"}
              ELSE {r} \intersect {"tasklet", "thread", "irq", "probe"}

(* What can be running once the steps before i are done, and what a list   *)
(* of releases waits for; that queues work is waited for further on.       *)
Started(m, i) ==
  { c \in Callbacks : \E j \in 1 .. (i - 1) :
       Plan[m].init[j].on \notin {"check", "use", "put"} /\ Plan[m].init[j].get = c }
Waited(s)  == UNION {Awaited(s[i]) : i \in 1 .. Len(s)}
Orderly(s) == \A i \in 1 .. Len(s) : s[i] = "queue" => \E j \in (i + 1) .. Len(s) : s[j] = "wq"

(* Apart from the unsynced ones, a module's ladders and its exit wait for  *)
(* all that it has started when they are entered.                          *)
ASSUME SyncAssumption ==
  \A m \in Module \ Unsynced :
     LET init == Plan[m].init IN
     /\ \A i \in 1 .. Len(init) :
          /\ Orderly(init[i].undo)
          /\ init[i].on \in {"fail", "check", "unbind"} => Started(m, i) \subseteq Waited(init[i].undo)
          /\ init[i].on = "stop" => Started(m, i) \subseteq Waited(Plan[m].exit)
     /\ Orderly(Plan[m].exit)
     /\ Started(m, Len(init) + 1) \subseteq Waited(Plan[m].exit)

(* A device file with its driver's operations behind it exists.            *)
Shows(h) == "chrdev" \in h \/ "proc" \in h \/ {"cdev", "device"} \subseteq h

(* Apart from the early ones, a module shows its file by a step after      *)
(* which none fails, keeps it until exit, and exit takes the proc file.    *)
ASSUME NodeAssumption ==
  \A m \in Module \ EarlyNode :
     LET init == Plan[m].init IN
     /\ \A i \in 1 .. Len(init) :
          /\ init[i].on \in {"fail", "check", "unbind"} => ~Shows(GotBy(m, i))
          /\ init[i].on = "stop" /\ "proc" \in GotBy(m, i) => "proc" \in Listed(Plan[m].exit)
          /\ init[i].on = "put" => init[i].get \notin {"chrdev", "proc", "cdev", "device"}
     /\ "proc" \in GotBy(m, Len(init) + 1) => "proc" \in Listed(Plan[m].exit)

(* What cannot be had through a handle that is NULL or an error, and       *)
(* whether the steps before i have got m's handle for certain.             *)
ThroughHandle == OneShots \union {"thread", "wq", "queue", "attr", "device"}
Ensured(m, i) ==
  LET init == Plan[m].init IN
  \E j \in 1 .. (i - 1) :
    /\ init[j].on \in {"fail", "stop", "unbind", "never"}
    /\ init[j].get = Plan[m].handle /\ init[j].get \notin OneShots
    /\ \A k \in (j + 1) .. (i - 1) : ~(init[k].on = "put" /\ init[k].get = Plan[m].handle)

(* A list of releases that frees no pin, and nothing through m's handle.   *)
Harmless(m, s) ==
  \A i \in 1 .. Len(s) :
    /\ s[i] \notin {"gpio_in", "gpio_out"}
    /\ Plan[m].handle # "none" => s[i] \notin ThroughHandle

(* Apart from the careless ones, a module's ladders and its exit are       *)
(* harmless, and what it calls through its handle it calls when it has it. *)
ASSUME CareAssumption ==
  \A m \in Module \ Careless :
     LET init == Plan[m].init IN
     /\ \A i \in 1 .. Len(init) :
          /\ Harmless(m, init[i].undo)
          /\ Plan[m].handle # "none" =>
               /\ init[i].on # "use"
               /\ init[i].on = "never" /\ init[i].get \in ThroughHandle => Ensured(m, i)
     /\ Harmless(m, Plan[m].exit)

LifeInit ==
  /\ module \in Module
  /\ phase = "init" /\ pc = 1 /\ after = "failed"
  /\ todo = << >> /\ held = {} /\ pending = {} /\ busy = {} /\ stray = {}
  /\ opened = FALSE

--------------------------------------------------------------------------------
(* Module init.                                                            *)

ThisStep == Plan[module].init[pc]
InInit == phase = "init" /\ pc <= Len(Plan[module].init)

(* The pointer a later call uses is NULL or an error: allocating through   *)
(* it fails, and any other call on it kills the caller.                    *)
NoHandle   == Plan[module].handle \notin held \union {"none"}
Missing(r) == NoHandle /\ r \in ThroughHandle

Acquire ==
  /\ InInit /\ ThisStep.on \notin {"check", "use", "put"}
  /\ Missing(ThisStep.get) => ThisStep.get = Plan[module].handle
  /\ held'    = held \union ({ThisStep.get} \ OneShots)
  /\ pending' = pending \union ({ThisStep.get} \intersect (Callbacks \ Sources))
  /\ pc' = pc + 1
  /\ UNCHANGED <<module, phase, todo, after, busy, opened, stray>>

UseNothing ==
  /\ InInit
  /\ \/ ThisStep.on = "use" /\ NoHandle
     \/ ThisStep.on = "never" /\ Missing(ThisStep.get)
  /\ phase' = "oops"
  /\ UNCHANGED <<module, pc, todo, after, held, pending, busy, opened, stray>>

PassCheck ==
  /\ InInit
  /\ ThisStep.on = "check" \/ (ThisStep.on = "use" /\ ~NoHandle)
  /\ pc' = pc + 1
  /\ UNCHANGED <<module, phase, todo, after, held, pending, busy, opened, stray>>

PutBack ==
  /\ InInit /\ ThisStep.on = "put"
  /\ held' = held \ {ThisStep.get} /\ pc' = pc + 1
  /\ UNCHANGED <<module, phase, todo, after, pending, busy, opened, stray>>

IgnoreFailure ==
  /\ InInit /\ ThisStep.on = "ignore"
  /\ pc' = pc + 1
  /\ UNCHANGED <<module, phase, todo, after, held, pending, busy, opened, stray>>

(* Mutant: init goes on after a kmalloc that failed. *)
StopNever ==
  /\ InInit /\ ThisStep.on = "stop"
  /\ pc' = pc + 1
  /\ UNCHANGED <<module, phase, todo, after, held, pending, busy, opened, stray>>

(* goto out; ... return 0: init gives up half way and reports success.     *)
StopHalfWay ==
  /\ InInit /\ ThisStep.on = "stop"
  /\ phase' = "live"
  /\ UNCHANGED <<module, pc, todo, after, held, pending, busy, opened, stray>>

(* Mutant: a failed step jumps one label too far. *)
FailStepFar ==
  /\ InInit /\ ThisStep.on \in {"fail", "check", "unbind"}
  /\ phase' = "undo"
  /\ todo' = IF ThisStep.undo = << >> THEN << >> ELSE Tail(ThisStep.undo)
  /\ after' = IF ThisStep.on = "unbind" THEN "unbound" ELSE "failed"
  /\ UNCHANGED <<module, pc, held, pending, busy, opened, stray>>

(* The failing step jumps to its label; a probe that fails leaves the      *)
(* module loaded and the driver registered, but bound to no device.        *)
FailStep ==
  /\ InInit /\ ThisStep.on \in {"fail", "check", "unbind"}
  /\ phase' = "undo" /\ todo' = ThisStep.undo
  /\ after' = IF ThisStep.on = "unbind" THEN "unbound" ELSE "failed"
  /\ UNCHANGED <<module, pc, held, pending, busy, opened, stray>>

InitDone ==
  /\ phase = "init" /\ pc > Len(Plan[module].init)
  /\ phase' = "live"
  /\ UNCHANGED <<module, pc, todo, after, held, pending, busy, opened, stray>>

--------------------------------------------------------------------------------
(* Giving back: the undo ladders and module exit.                          *)

Next1 == Head(todo)

(* Which releases let what is queued run first.                            *)
Drains(r)  == r \in {"wq", "tasklet"}

(* Mutant: what runs is taken away without waiting for it. *)
ReleasableAtOnce(r) == r = "claim" => "host" \notin held

Releasable(r) ==
  /\ Awaited(r) \intersect busy = {}
  /\ Drains(r) => Awaited(r) \intersect pending = {}
  /\ r = "claim" => "host" \notin held    \* sdio_claim_host: probe's task has it

Release ==
  /\ phase \in {"undo", "exit"} /\ todo # << >> /\ Releasable(Next1) /\ ~Missing(Next1)
  /\ held' = held \ Under(Next1)
  /\ pending' = IF Next1 = "queue" THEN pending \union {"work"} ELSE pending \ {Next1}
  /\ stray' = stray \union (({Next1} \intersect {"gpio_in", "gpio_out"}) \ held)
  /\ opened' = (opened /\ "proc" \notin Under(Next1))   \* proc_remove closes open files
  /\ todo' = Tail(todo)
  /\ UNCHANGED <<module, phase, pc, after, busy>>

ReleaseNothing ==
  /\ phase \in {"undo", "exit"} /\ todo # << >> /\ Missing(Next1)
  /\ phase' = "oops"
  /\ UNCHANGED <<module, pc, todo, after, held, pending, busy, opened, stray>>

(* Mutant: a probe that fails leaves a phase of its own behind. *)
EndReleaseUnbound ==
  /\ phase \in {"undo", "exit"} /\ todo = << >>
  /\ phase' = after
  /\ UNCHANGED <<module, pc, todo, after, held, pending, busy, opened, stray>>

(* The ladder or exit ends; with "failed" and "gone" the code is freed.    *)
EndRelease ==
  /\ phase \in {"undo", "exit"} /\ todo = << >>
  /\ phase' = IF after = "unbound" THEN "live" ELSE after
  /\ UNCHANGED <<module, pc, todo, after, held, pending, busy, opened, stray>>

(* Mutant: file_operations without an owner hold no reference. *)
ExitInUse ==
  /\ phase = "live"
  /\ phase' = "exit" /\ after' = "gone"
  /\ todo' = IF after = "unbound" THEN <<"driver">> ELSE Plan[module].exit
  /\ UNCHANGED <<module, pc, held, pending, busy, opened, stray>>

(* rmmod: the loader refuses while a file holds a reference; the proc      *)
(* files take none.                                                        *)
Exit ==
  /\ phase = "live" /\ (opened => "proc" \in held)
  /\ phase' = "exit" /\ after' = "gone"
  /\ todo' = IF after = "unbound" THEN <<"driver">> ELSE Plan[module].exit
  /\ UNCHANGED <<module, pc, held, pending, busy, opened, stray>>

ModuleCode == \/ Acquire \/ UseNothing \/ PassCheck \/ PutBack \/ IgnoreFailure
              \/ StopHalfWay \/ FailStep \/ InitDone
              \/ Release \/ ReleaseNothing \/ EndRelease

--------------------------------------------------------------------------------
(* What runs beside it.                                                    *)

(* free_irq and unregister_kretprobe take the handler off the list before  *)
(* they wait, kthread_stop forbids a thread that has not begun to begin.   *)
Stopping(c) == phase \in {"undo", "exit"} /\ todo # << >> /\ Next1 = c
               /\ c \in Sources \union {"thread"}

Raise(c) ==
  /\ c \in Sources \intersect held /\ ~Stopping(c)
  /\ c \notin pending
  /\ pending' = pending \union {c}
  /\ UNCHANGED <<module, phase, pc, todo, after, held, busy, opened, stray>>

Fire(c) ==
  /\ c \in pending /\ c \notin busy /\ ~Stopping(c)
  /\ pending' = pending \ {c} /\ busy' = busy \union {c}
  /\ UNCHANGED <<module, phase, pc, todo, after, held, opened, stray>>

(* Mutant: the thread's loop does not look at kthread_should_stop. *)
FinishNotThread(c) ==
  /\ c \in busy /\ c # "thread"
  /\ busy' = busy \ {c}
  /\ pending' = pending \union ({c} \intersect Plan[module].again)
  /\ UNCHANGED <<module, phase, pc, todo, after, held, opened, stray>>

(* A timer that calls mod_timer, a work that schedules itself: again.  A   *)
(* thread ends when kthread_should_stop says so.                           *)
Finish(c) ==
  /\ c \in busy
  /\ c = "thread" => Stopping(c)
  /\ busy' = busy \ {c}
  /\ pending' = pending \union ({c} \intersect Plan[module].again)
  /\ UNCHANGED <<module, phase, pc, todo, after, held, opened, stray>>

(* The device file can be opened as soon as it exists, before init ends.   *)
Openable == Shows(held)
OpenFile ==
  /\ Openable /\ ~opened /\ phase \in {"init", "undo", "live"}
  /\ opened' = TRUE
  /\ UNCHANGED <<module, phase, pc, todo, after, held, pending, busy, stray>>

CloseFile ==
  /\ opened /\ opened' = FALSE
  /\ UNCHANGED <<module, phase, pc, todo, after, held, pending, busy, stray>>

LifeNext == \/ ModuleCode \/ Exit \/ OpenFile \/ CloseFile
            \/ \E c \in Callbacks : Raise(c) \/ Fire(c) \/ Finish(c)

(* The task in init or exit runs on, a queued callback is run and ends.    *)
LifeFairness ==
  /\ WF_lifeVars(ModuleCode)
  /\ \A c \in Callbacks : WF_lifeVars(Fire(c)) /\ WF_lifeVars(Finish(c))

LifeSpec == LifeInit /\ [][LifeNext]_lifeVars
LifeFairSpec == LifeSpec /\ LifeFairness

--------------------------------------------------------------------------------
(* The state's type.                                                       *)
LifeTypeOK ==
  /\ module \in Module
  /\ phase \in {"init", "undo", "live", "failed", "exit", "gone", "oops"}
  /\ pc \in Nat \ {0}
  /\ todo \in Seq(Resource) /\ after \in {"failed", "unbound", "gone"}
  /\ held \subseteq Resource
  /\ pending \subseteq Callbacks /\ busy \subseteq Callbacks
  /\ opened \in BOOLEAN /\ stray \subseteq {"gpio_in", "gpio_out"}

(* When insmod has failed or rmmod has ended, nothing the module acquired  *)
(* is left in the kernel, whichever step failed: the labels of the undo    *)
(* ladders and the exit functions name everything that was acquired.       *)
NothingLeftBehind ==
  phase \in {"failed", "gone"} /\ module \notin Leaky => held = {}

(* No timer, work, tasklet, thread or handler runs, or is due to run, code *)
(* of a module that is no longer in memory.                                *)
CallbackHasModule ==
  module \notin Unsynced /\ ~Loaded => busy = {} /\ pending = {}

(* No open file is left with the file operations of a module that is gone, *)
(* even if it was opened while init was still running and then failed.     *)
OpenFileHasModule == module \notin EarlyNode /\ ~Loaded => ~opened

(* A module frees no pin it does not own and calls nothing on a pointer    *)
(* that was never set.                                                     *)
ReleasesOwn == module \notin Careless => phase # "oops" /\ stray = {}

(* rmmod comes back: whatever exit waits for, a handler, a tasklet, the    *)
(* works of a queue or a thread that is told to stop, comes to its end.    *)
ExitReturns == phase = "exit" /\ module \notin Blocking ~> phase # "exit"
===============================================================================
