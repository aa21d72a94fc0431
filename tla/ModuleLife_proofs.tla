---------------------------- MODULE ModuleLife_proofs ----------------------------
(***************************************************************************)
(* Proofs about the lives of small modules, for every set of plans that    *)
(* meets the assumptions of ModuleLife: that what init did up to a step is *)
(* covered by where a failure of that step jumps to, and by exit.          *)
(***************************************************************************)
EXTENDS ModuleLife, TLAPS

Plans0 == Plan[module].init
Exit0  == Plan[module].exit

\* What runs, is due to run, or can be raised from outside.
Running == busy \union pending \union (held \intersect Sources)

\* In every phase, what is held is on the list of what will be given back.
HeldCovered ==
  module \notin Leaky =>
    /\ phase = "init" => pc <= Len(Plans0) + 1 /\ after = "failed" /\ held \subseteq GotBy(module, pc)
    /\ phase \in {"undo", "exit"} =>
         held \subseteq Listed(todo) \union (IF after = "unbound" THEN {"driver"} ELSE {})
    /\ phase = "live" => held \subseteq IF after = "unbound" THEN {"driver"} ELSE Listed(Exit0)
    /\ phase \in {"failed", "gone"} => held = {}

\* In every phase, what can run will be waited for.
RunningCovered ==
  module \notin Unsynced =>
    /\ phase = "init" => pc <= Len(Plans0) + 1 /\ after = "failed" /\ Running \subseteq Started(module, pc)
    /\ phase \in {"undo", "exit"} => Orderly(todo) /\ Running \subseteq Waited(todo)
    /\ phase = "live" => Running \subseteq IF after = "unbound" THEN {} ELSE Waited(Exit0)
    /\ phase \in {"failed", "gone"} => Running = {}

\* In every phase, an open file has a device file, and only exit removes one.
FileCovered ==
  module \notin EarlyNode =>
    /\ phase = "init" => /\ pc <= Len(Plans0) + 1 /\ after = "failed"
                         /\ held \subseteq GotBy(module, pc)
                         /\ opened => Shows(held)
    /\ phase = "undo" => ~opened /\ ~Shows(held) /\ after # "gone"
    /\ phase = "live" /\ "proc" \in held => after # "unbound" /\ "proc" \in Listed(Exit0)
    /\ phase = "exit" => /\ opened => "proc" \in held
                         /\ "proc" \in held => "proc" \in Listed(todo)
                         /\ after = "gone"
    /\ phase \in {"failed", "gone"} => ~opened

-----------------------------------------------------------------------------
(* Lists of releases.                                                      *)

\* A list that is not empty is its head and its tail.
LEMMA HeadAndTail ==
  ASSUME NEW s \in Seq(Resource), s # << >>
  PROVE  /\ Head(s) \in Resource /\ Tail(s) \in Seq(Resource)
         /\ Head(s) = s[1] /\ Len(Tail(s)) = Len(s) - 1 /\ Len(s) \in Nat \ {0}
         /\ \A i \in 1 .. Len(Tail(s)) : Tail(s)[i] = s[i + 1]
OBVIOUS

\* What a list names is what its first entry names and what the rest names.
LEMMA ListedHead ==
  ASSUME NEW s \in Seq(Resource), s # << >>
  PROVE  Listed(s) = Under(Head(s)) \union Listed(Tail(s))
<1>1. \A i \in 2 .. Len(s) : i - 1 \in 1 .. Len(Tail(s)) /\ Tail(s)[i - 1] = s[i]
  BY HeadAndTail
<1>2. \A i \in 1 .. Len(Tail(s)) : i + 1 \in 1 .. Len(s) /\ Tail(s)[i] = s[i + 1]
  BY HeadAndTail
<1>3. 1 \in 1 .. Len(s) /\ s[1] = Head(s) /\ \A i \in 1 .. Len(s) : i = 1 \/ i \in 2 .. Len(s)
  BY HeadAndTail
<1>4. ASSUME NEW x \in Listed(s), x \notin Under(Head(s))
      PROVE  x \in Listed(Tail(s))
  <2>1. PICK i \in 1 .. Len(s) : x \in Under(s[i])
    BY <1>4 DEF Listed
  <2> QED BY <1>1, <1>3, <1>4, <2>1 DEF Listed
<1>5. ASSUME NEW x \in Listed(Tail(s))
      PROVE  x \in Listed(s)
  <2>1. PICK i \in 1 .. Len(Tail(s)) : x \in Under(Tail(s)[i])
    BY <1>5 DEF Listed
  <2> QED BY <1>2, <2>1 DEF Listed
<1>6. Under(Head(s)) \subseteq Listed(s)
  BY <1>3 DEF Listed
<1> QED BY <1>4, <1>5, <1>6

\* What a list waits for is what its first entry waits for and what the rest waits for.
LEMMA WaitedHead ==
  ASSUME NEW s \in Seq(Resource), s # << >>
  PROVE  Waited(s) = Awaited(Head(s)) \union Waited(Tail(s))
<1>1. \A i \in 2 .. Len(s) : i - 1 \in 1 .. Len(Tail(s)) /\ Tail(s)[i - 1] = s[i]
  BY HeadAndTail
<1>2. \A i \in 1 .. Len(Tail(s)) : i + 1 \in 1 .. Len(s) /\ Tail(s)[i] = s[i + 1]
  BY HeadAndTail
<1>3. 1 \in 1 .. Len(s) /\ s[1] = Head(s) /\ \A i \in 1 .. Len(s) : i = 1 \/ i \in 2 .. Len(s)
  BY HeadAndTail
<1>4. ASSUME NEW x \in Waited(s), x \notin Awaited(Head(s))
      PROVE  x \in Waited(Tail(s))
  <2>1. PICK i \in 1 .. Len(s) : x \in Awaited(s[i])
    BY <1>4 DEF Waited
  <2> QED BY <1>1, <1>3, <1>4, <2>1 DEF Waited
<1>5. ASSUME NEW x \in Waited(Tail(s))
      PROVE  x \in Waited(s)
  <2>1. PICK i \in 1 .. Len(Tail(s)) : x \in Awaited(Tail(s)[i])
    BY <1>5 DEF Waited
  <2> QED BY <1>2, <2>1 DEF Waited
<1>6. Awaited(Head(s)) \subseteq Waited(s)
  BY <1>3 DEF Waited
<1> QED BY <1>4, <1>5, <1>6

\* The empty list names and waits for nothing.
LEMMA EmptyList == Listed(<< >>) = {} /\ Waited(<< >>) = {} /\ Orderly(<< >>)
BY DEF Listed, Waited, Orderly

\* A failed probe leaves a list of one entry, the driver, behind.
LEMMA DriverList ==
  /\ Listed(<<"driver">>) = {"driver"} /\ Waited(<<"driver">>) = {} /\ Orderly(<<"driver">>)
BY DEF Listed, Waited, Orderly, Under, Awaited

\* In an orderly list the rest is orderly, and waits for the work its first entry queues.
LEMMA OrderlyTail ==
  ASSUME NEW s \in Seq(Resource), s # << >>, Orderly(s)
  PROVE  /\ Orderly(Tail(s))
         /\ Head(s) = "queue" => "work" \in Waited(Tail(s))
<1>1. \A i \in 2 .. Len(s) : i - 1 \in 1 .. Len(Tail(s)) /\ Tail(s)[i - 1] = s[i]
  BY HeadAndTail
<1>2. ASSUME NEW i \in 1 .. Len(Tail(s)), Tail(s)[i] = "queue"
      PROVE  \E j \in (i + 1) .. Len(Tail(s)) : Tail(s)[j] = "wq"
  <2>1. PICK j \in (i + 2) .. Len(s) : s[j] = "wq"
    BY <1>2, HeadAndTail DEF Orderly
  <2>2. j - 1 \in (i + 1) .. Len(Tail(s)) /\ Tail(s)[j - 1] = "wq"
    BY <1>1, <2>1, HeadAndTail
  <2> QED BY <2>2
<1>3. ASSUME Head(s) = "queue"
      PROVE  "work" \in Waited(Tail(s))
  <2>1. PICK j \in 2 .. Len(s) : s[j] = "wq"
    BY <1>3, HeadAndTail DEF Orderly
  <2> QED BY <1>1, <2>1 DEF Waited, Awaited
<1> QED BY <1>2, <1>3 DEF Orderly

-----------------------------------------------------------------------------
(* Steps of init.                                                          *)

\* The step at hand is one of the plan's, and there is a place after it.
LEMMA ThisStepType ==
  ASSUME LifeTypeOK, InInit
  PROVE  /\ module \in Module /\ pc \in 1 .. Len(Plans0)
         /\ ThisStep = Plans0[pc] /\ ThisStep \in StepType
         /\ pc + 1 \in Nat \ {0} /\ pc + 1 <= Len(Plans0) + 1
BY PlanAssumption DEF LifeTypeOK, InInit, ThisStep, Plans0

\* A step keeps what was acquired, except what it puts back, and adds what it acquires.
LEMMA GotByStep ==
  ASSUME NEW m \in Module, NEW i \in 1 .. Len(Plan[m].init)
  PROVE  /\ \A r \in GotBy(m, i) :
               ~(Plan[m].init[i].on = "put" /\ Plan[m].init[i].get = r) => r \in GotBy(m, i + 1)
         /\ Acquires(Plan[m].init[i]) => Plan[m].init[i].get \in GotBy(m, i + 1)
<1>1. Len(Plan[m].init) \in Nat /\ Plan[m].init[i].get \in Resource
  <2>1. Plan[m].init \in Seq(StepType)
    BY PlanAssumption
  <2>2. Len(Plan[m].init) \in Nat /\ Plan[m].init[i] \in StepType
    BY <2>1
  <2> QED BY <2>2 DEF StepType
<1>2. ASSUME NEW r \in GotBy(m, i), ~(Plan[m].init[i].on = "put" /\ Plan[m].init[i].get = r)
      PROVE  r \in GotBy(m, i + 1)
  <2>1. PICK j \in 1 .. (i - 1) :
          /\ Acquires(Plan[m].init[j]) /\ Plan[m].init[j].get = r
          /\ \A k \in (j + 1) .. (i - 1) : ~(Plan[m].init[k].on = "put" /\ Plan[m].init[k].get = r)
    BY <1>2 DEF GotBy
  <2>2. \A k \in (j + 1) .. ((i + 1) - 1) : k = i \/ k \in (j + 1) .. (i - 1)
    BY <1>1
  <2>3. j \in 1 .. ((i + 1) - 1) /\ r \in Resource
    BY <1>1, <1>2 DEF GotBy
  <2> QED BY <1>2, <2>1, <2>2, <2>3 DEF GotBy
<1>3. ASSUME Acquires(Plan[m].init[i])
      PROVE  Plan[m].init[i].get \in GotBy(m, i + 1)
  <2>1. i \in 1 .. ((i + 1) - 1) /\ (i + 1) .. ((i + 1) - 1) = {}
    BY <1>1
  <2> QED BY <1>1, <1>3, <2>1 DEF GotBy
<1> QED BY <1>2, <1>3

\* A step keeps what was started, and adds what it starts.
LEMMA StartedStep ==
  ASSUME NEW m \in Module, NEW i \in 1 .. Len(Plan[m].init)
  PROVE  /\ Started(m, i) \subseteq Started(m, i + 1)
         /\ Plan[m].init[i].on \notin {"check", "use", "put"} /\ Plan[m].init[i].get \in Callbacks
              => Plan[m].init[i].get \in Started(m, i + 1)
BY PlanAssumption DEF Started

\* Nothing is acquired or started before the first step.
LEMMA FirstStep ==
  ASSUME NEW m \in Module
  PROVE  GotBy(m, 1) = {} /\ Started(m, 1) = {}
BY DEF GotBy, Started

-----------------------------------------------------------------------------
(* The type invariant.                                                     *)

\* Every step keeps the type.
LEMMA LifeTypeStep == LifeTypeOK /\ [LifeNext]_lifeVars => LifeTypeOK'
<1> SUFFICES ASSUME LifeTypeOK, [LifeNext]_lifeVars PROVE LifeTypeOK'
  OBVIOUS
<1> USE DEF LifeTypeOK
<1>1. CASE UNCHANGED lifeVars
  BY <1>1 DEF lifeVars
<1>2. CASE Acquire
  <2>1. ThisStep.get \in Resource /\ pc' \in Nat \ {0}
    BY <1>2, ThisStepType DEF Acquire, StepType
  <2>2. held' \subseteq Resource /\ pending' \subseteq Callbacks
    BY <1>2, <2>1 DEF Acquire
  <2> QED BY <1>2, <2>1, <2>2 DEF Acquire
<1>3. CASE UseNothing \/ InitDone \/ StopHalfWay \/ ReleaseNothing
  BY <1>3 DEF UseNothing, InitDone, StopHalfWay, ReleaseNothing
<1>4. CASE PassCheck \/ IgnoreFailure
  BY <1>4, ThisStepType DEF PassCheck, IgnoreFailure
<1>5. CASE PutBack
  BY <1>5, ThisStepType DEF PutBack
<1>6. CASE FailStep
  BY <1>6, ThisStepType DEF FailStep, StepType
<1>7. CASE Release
  <2>1. Next1 \in Resource /\ todo' \in Seq(Resource)
    BY <1>7, HeadAndTail DEF Release, Next1
  <2>2. held' \subseteq Resource
    BY <1>7 DEF Release
  <2>3. pending' \subseteq Callbacks
    BY <1>7 DEF Release, Callbacks, OneShots
  <2>4. stray' \subseteq {"gpio_in", "gpio_out"} /\ opened' \in BOOLEAN
    BY <1>7 DEF Release
  <2> QED BY <1>7, <2>1, <2>2, <2>3, <2>4 DEF Release
<1>8. CASE EndRelease
  BY <1>8 DEF EndRelease
<1>9. CASE Exit
  <2>1. <<"driver">> \in Seq(Resource) /\ Plan[module].exit \in Seq(Resource)
    BY PlanAssumption
  <2> QED BY <1>9, <2>1 DEF Exit
<1>10. CASE OpenFile \/ CloseFile
  BY <1>10 DEF OpenFile, CloseFile
<1>11. CASE \E c \in Callbacks : Raise(c) \/ Fire(c) \/ Finish(c)
  BY <1>11 DEF Raise, Fire, Finish
<1> QED
  BY <1>1, <1>2, <1>3, <1>4, <1>5, <1>6, <1>7, <1>8, <1>9, <1>10, <1>11 DEF LifeNext, ModuleCode

LEMMA LifeTypeStart == LifeInit => LifeTypeOK
<1> SUFFICES ASSUME LifeInit PROVE LifeTypeOK
  OBVIOUS
<1>1. todo \in Seq(Resource) /\ pc \in Nat \ {0}
  BY DEF LifeInit
<1>3. opened \in BOOLEAN
  BY DEF LifeInit
<1>2. /\ module \in Module /\ phase = "init" /\ after = "failed"
      /\ held = {} /\ pending = {} /\ busy = {} /\ stray = {}
  BY DEF LifeInit
<1> QED BY <1>1, <1>2, <1>3 DEF LifeTypeOK

\* Whatever a plan does, however it fails and whatever runs beside it, the state has its
\* type: a failed probe is live, not a phase of its own, and only pins can be strayed.
THEOREM LifeTypeCorrect == LifeSpec => []LifeTypeOK
BY LifeTypeStart, LifeTypeStep, PTL DEF LifeSpec

-----------------------------------------------------------------------------
(* Nothing is left behind.                                                 *)

\* What the assumption on the plans says of the step at hand and of the end of init.
LEMMA CoverHere ==
  ASSUME LifeTypeOK, module \notin Leaky
  PROVE  /\ InInit => /\ ThisStep.on \in {"fail", "check"} =>
                           GotBy(module, pc) \subseteq Listed(ThisStep.undo)
                      /\ ThisStep.on = "unbind" =>
                           GotBy(module, pc) \subseteq Listed(ThisStep.undo) \union {"driver"}
                      /\ ThisStep.on = "stop" => GotBy(module, pc) \subseteq Listed(Exit0)
         /\ GotBy(module, Len(Plans0) + 1) \subseteq Listed(Exit0)
<1>1. module \in Module \ Leaky
  BY DEF LifeTypeOK
<1>2. InInit => pc \in 1 .. Len(Plan[module].init) /\ ThisStep = Plan[module].init[pc]
  BY ThisStepType DEF Plans0
<1> QED BY <1>1, <1>2, CoverAssumption DEF Plans0, Exit0

\* Past the last step, init stands right behind it.
LEMMA InitEnd ==
  ASSUME LifeTypeOK, pc <= Len(Plans0) + 1, pc > Len(Plan[module].init)
  PROVE  pc = Len(Plans0) + 1
<1>1. Len(Plans0) \in Nat
  BY PlanAssumption DEF LifeTypeOK, Plans0
<1> QED BY <1>1 DEF LifeTypeOK, Plans0

\* Every step keeps what is held covered.
LEMMA HeldStep == LifeTypeOK /\ HeldCovered /\ [LifeNext]_lifeVars => HeldCovered'
<1> SUFFICES ASSUME LifeTypeOK, HeldCovered, [LifeNext]_lifeVars, module' = module, module \notin Leaky
             PROVE  HeldCovered'
  BY DEF HeldCovered, LifeNext, ModuleCode, lifeVars, Acquire, UseNothing, PassCheck, PutBack,
         IgnoreFailure, StopHalfWay, FailStep, InitDone, Release, ReleaseNothing, EndRelease, Exit,
         OpenFile, CloseFile, Raise, Fire, Finish
<1> Plans0' = Plans0 /\ Exit0' = Exit0
  BY DEF Plans0, Exit0
<1>1. CASE UNCHANGED lifeVars
  BY <1>1 DEF lifeVars, HeldCovered, GotBy
<1>2. CASE Acquire \/ PassCheck \/ PutBack \/ IgnoreFailure
  <2>1. InInit /\ pc' = pc + 1 /\ phase' = phase /\ after' = after
    BY <1>2 DEF Acquire, PassCheck, PutBack, IgnoreFailure
  <2>2. pc \in 1 .. Len(Plans0) /\ pc' <= Len(Plans0) + 1 /\ ThisStep = Plan[module].init[pc]
    BY <2>1, ThisStepType DEF Plans0
  <2>3. held \subseteq GotBy(module, pc) /\ phase = "init" /\ after = "failed"
    BY <2>1 DEF HeldCovered, InInit
  <2>4. held' \subseteq GotBy(module, pc + 1)
    <3>1. /\ \A r \in GotBy(module, pc) :
               ~(ThisStep.on = "put" /\ ThisStep.get = r) => r \in GotBy(module, pc + 1)
          /\ Acquires(ThisStep) => ThisStep.get \in GotBy(module, pc + 1)
      BY <2>2, GotByStep DEF LifeTypeOK, Plans0
    <3>2. CASE Acquire
      BY <2>3, <3>1, <3>2 DEF Acquire, Acquires
    <3>3. CASE PutBack
      BY <2>3, <3>1, <3>3 DEF PutBack
    <3>4. CASE PassCheck \/ IgnoreFailure
      BY <2>3, <3>1, <3>4 DEF PassCheck, IgnoreFailure
    <3> QED BY <1>2, <3>2, <3>3, <3>4
  <2> QED BY <2>1, <2>2, <2>3, <2>4 DEF HeldCovered
<1>3. CASE UseNothing \/ ReleaseNothing
  BY <1>3 DEF UseNothing, ReleaseNothing, HeldCovered
<1>4. CASE StopHalfWay
  BY <1>4, CoverHere DEF StopHalfWay, InInit, HeldCovered
<1>5. CASE FailStep
  BY <1>5, CoverHere DEF FailStep, InInit, HeldCovered
<1>6. CASE InitDone
  BY <1>6, CoverHere, InitEnd DEF InitDone, HeldCovered
<1>7. CASE Release
  <2>1. Listed(todo) = Under(Next1) \union Listed(todo')
    BY <1>7, ListedHead DEF Release, Next1, LifeTypeOK
  <2> QED BY <1>7, <2>1 DEF Release, HeldCovered
<1>8. CASE EndRelease
  BY <1>8, EmptyList DEF EndRelease, HeldCovered, LifeTypeOK
<1>9. CASE Exit
  BY <1>9, DriverList DEF Exit, HeldCovered, Exit0
<1>10. CASE OpenFile \/ CloseFile
  BY <1>10 DEF OpenFile, CloseFile, HeldCovered
<1>11. CASE \E c \in Callbacks : Raise(c) \/ Fire(c) \/ Finish(c)
  BY <1>11 DEF Raise, Fire, Finish, HeldCovered
<1> QED
  BY <1>1, <1>2, <1>3, <1>4, <1>5, <1>6, <1>7, <1>8, <1>9, <1>10, <1>11 DEF LifeNext, ModuleCode

\* For every plan whose ladders and exit are in step with its init, an insmod that has failed,
\* at whichever step, and an rmmod that has ended leave nothing of the module in the kernel.
THEOREM LifeNothingLeftBehind == LifeSpec => []NothingLeftBehind
<1>1. LifeInit => HeldCovered
  BY FirstStep, PlanAssumption DEF LifeInit, HeldCovered, Plans0
<1>2. LifeTypeOK /\ HeldCovered => NothingLeftBehind
  BY DEF HeldCovered, NothingLeftBehind
<1> QED BY <1>1, <1>2, HeldStep, LifeTypeCorrect, PTL DEF LifeSpec

-----------------------------------------------------------------------------
(* Callbacks have a module to run in.                                      *)

\* What the assumption on the plans says of the step at hand and of the end of init.
LEMMA SyncHere ==
  ASSUME LifeTypeOK, module \notin Unsynced
  PROVE  /\ InInit => /\ Orderly(ThisStep.undo)
                      /\ ThisStep.on \in {"fail", "check", "unbind"} =>
                           Started(module, pc) \subseteq Waited(ThisStep.undo)
                      /\ ThisStep.on = "stop" => Started(module, pc) \subseteq Waited(Exit0)
         /\ Orderly(Exit0)
         /\ Started(module, Len(Plans0) + 1) \subseteq Waited(Exit0)
<1>1. module \in Module \ Unsynced
  BY DEF LifeTypeOK
<1>2. InInit => pc \in 1 .. Len(Plan[module].init) /\ ThisStep = Plan[module].init[pc]
  BY ThisStepType DEF Plans0
<1> QED BY <1>1, <1>2, SyncAssumption DEF Plans0, Exit0

\* A release that waits for a callback leaves nothing of it, and starts nothing but the work
\* of a queue.
LEMMA ReleaseStops ==
  ASSUME LifeTypeOK, Release
  PROVE  Running' \subseteq (Running \ Awaited(Next1)) \union (IF Next1 = "queue" THEN {"work"} ELSE {})
<1>1. /\ Awaited(Next1) \intersect busy = {} /\ busy' = busy
      /\ held' = held \ Under(Next1)
  BY DEF Release, Releasable
<1>2. Next1 \in Under(Next1)
  BY Zenon DEF Under
<1>3. CASE Next1 \in {"wq", "tasklet"}
  <2>1. Awaited(Next1) \intersect pending = {} /\ pending' \subseteq pending
    BY <1>3 DEF Release, Releasable, Drains
  <2>2. Awaited(Next1) \intersect Sources = {}
    BY <1>3 DEF Awaited, Sources
  <2> QED BY <1>1, <2>1, <2>2 DEF Running
<1>4. CASE Next1 \in {"thread", "irq", "probe"}
  <2>1. Awaited(Next1) = {Next1} /\ pending' = pending \ {Next1} /\ Next1 # "queue"
    BY <1>4 DEF Awaited, Release
  <2> QED BY <1>1, <1>2, <2>1 DEF Running
<1>5. CASE Next1 \notin {"wq", "tasklet", "thread", "irq", "probe"}
  <2>1. Awaited(Next1) = {}
    BY <1>5 DEF Awaited
  <2>2. pending' \subseteq pending \union (IF Next1 = "queue" THEN {"work"} ELSE {})
    BY DEF Release
  <2> QED BY <1>1, <2>1, <2>2 DEF Running
<1> QED BY <1>3, <1>4, <1>5

\* Every step keeps what can run covered.
LEMMA RunningStep == LifeTypeOK /\ RunningCovered /\ [LifeNext]_lifeVars => RunningCovered'
<1> SUFFICES ASSUME LifeTypeOK, RunningCovered, [LifeNext]_lifeVars, module' = module, module \notin Unsynced
             PROVE  RunningCovered'
  BY DEF RunningCovered, LifeNext, ModuleCode, lifeVars, Acquire, UseNothing, PassCheck, PutBack,
         IgnoreFailure, StopHalfWay, FailStep, InitDone, Release, ReleaseNothing, EndRelease, Exit,
         OpenFile, CloseFile, Raise, Fire, Finish
<1> Plans0' = Plans0 /\ Exit0' = Exit0
  BY DEF Plans0, Exit0
<1>1. CASE UNCHANGED lifeVars
  BY <1>1 DEF lifeVars, RunningCovered, Running, Started, Orderly, Waited
<1>2. CASE Acquire \/ PassCheck \/ PutBack \/ IgnoreFailure
  <2>1. InInit /\ pc' = pc + 1 /\ phase' = phase /\ after' = after
    BY <1>2 DEF Acquire, PassCheck, PutBack, IgnoreFailure
  <2>2. pc \in 1 .. Len(Plans0) /\ pc' <= Len(Plans0) + 1 /\ ThisStep = Plan[module].init[pc]
    BY <2>1, ThisStepType DEF Plans0
  <2>3. Running \subseteq Started(module, pc) /\ phase = "init" /\ after = "failed"
    BY <2>1 DEF RunningCovered, InInit
  <2>4. Running' \subseteq Started(module, pc + 1)
    <3>1. /\ Started(module, pc) \subseteq Started(module, pc + 1)
          /\ ThisStep.on \notin {"check", "use", "put"} /\ ThisStep.get \in Callbacks
               => ThisStep.get \in Started(module, pc + 1)
      BY <2>2, StartedStep DEF LifeTypeOK, Plans0
    <3>2. CASE Acquire
      BY <2>3, <3>1, <3>2 DEF Acquire, Running, Callbacks
    <3>3. CASE PassCheck \/ PutBack \/ IgnoreFailure
      BY <2>3, <3>1, <3>3 DEF PutBack, PassCheck, IgnoreFailure, Running
    <3> QED BY <1>2, <3>2, <3>3
  <2> QED BY <2>1, <2>2, <2>3, <2>4 DEF RunningCovered
<1>3. CASE UseNothing \/ ReleaseNothing
  BY <1>3 DEF UseNothing, ReleaseNothing, RunningCovered
<1>4. CASE StopHalfWay
  BY <1>4, SyncHere DEF StopHalfWay, InInit, RunningCovered, Running
<1>5. CASE FailStep
  BY <1>5, SyncHere DEF FailStep, InInit, RunningCovered, Running
<1>6. CASE InitDone
  BY <1>6, SyncHere, InitEnd DEF InitDone, RunningCovered, Running
<1>7. CASE Release
  <2>1. todo \in Seq(Resource) /\ todo # << >> /\ Next1 = Head(todo) /\ todo' = Tail(todo)
        /\ phase \in {"undo", "exit"} /\ phase' = phase
    BY <1>7 DEF Release, Next1, LifeTypeOK
  <2>2. Waited(todo) = Awaited(Next1) \union Waited(todo')
    BY <2>1, WaitedHead
  <2>3. Orderly(todo') /\ (Next1 = "queue" => "work" \in Waited(todo'))
    BY <2>1, OrderlyTail DEF RunningCovered
  <2>4. Running' \subseteq Waited(todo')
    BY <1>7, <2>1, <2>2, <2>3, ReleaseStops DEF RunningCovered
  <2> QED BY <2>1, <2>3, <2>4 DEF RunningCovered
<1>8. CASE EndRelease
  BY <1>8, EmptyList DEF EndRelease, RunningCovered, Running, LifeTypeOK
<1>9. CASE Exit
  BY <1>9, DriverList, SyncHere DEF Exit, RunningCovered, Running, Exit0
<1>10. CASE OpenFile \/ CloseFile
  BY <1>10 DEF OpenFile, CloseFile, RunningCovered, Running
<1>11. CASE \E c \in Callbacks : Raise(c) \/ Fire(c) \/ Finish(c)
  <2>1. Running' \subseteq Running
    BY <1>11 DEF Raise, Fire, Finish, Running
  <2> QED BY <1>11, <2>1 DEF Raise, Fire, Finish, RunningCovered
<1> QED
  BY <1>1, <1>2, <1>3, <1>4, <1>5, <1>6, <1>7, <1>8, <1>9, <1>10, <1>11 DEF LifeNext, ModuleCode

\* For every plan whose ladders and exit wait for all that was started, no timer, work,
\* tasklet, thread or handler is running or due to run once the module's code is freed.
THEOREM LifeCallbackHasModule == LifeSpec => []CallbackHasModule
<1>1. LifeInit => RunningCovered
  BY FirstStep, PlanAssumption DEF LifeInit, RunningCovered, Running, Plans0
<1>2. LifeTypeOK /\ RunningCovered => CallbackHasModule
  BY DEF RunningCovered, CallbackHasModule, Running, Loaded, LifeTypeOK
<1> QED BY <1>1, <1>2, RunningStep, LifeTypeCorrect, PTL DEF LifeSpec

-----------------------------------------------------------------------------
(* Open files have a module to run in.                                     *)

\* What the assumption on the plans says of the step at hand and of the end of init.
LEMMA NodeHere ==
  ASSUME LifeTypeOK, module \notin EarlyNode
  PROVE  /\ InInit => /\ ThisStep.on \in {"fail", "check", "unbind"} => ~Shows(GotBy(module, pc))
                      /\ ThisStep.on = "stop" /\ "proc" \in GotBy(module, pc) => "proc" \in Listed(Exit0)
                      /\ ThisStep.on = "put" => ThisStep.get \notin {"chrdev", "proc", "cdev", "device"}
         /\ "proc" \in GotBy(module, Len(Plans0) + 1) => "proc" \in Listed(Exit0)
<1>1. module \in Module \ EarlyNode
  BY DEF LifeTypeOK
<1>2. InInit => pc \in 1 .. Len(Plan[module].init) /\ ThisStep = Plan[module].init[pc]
  BY ThisStepType DEF Plans0
<1> QED BY <1>1, <1>2, NodeAssumption DEF Plans0, Exit0

\* What shows a file shows it with more resources, too.
LEMMA ShowsMore ==
  ASSUME NEW h, NEW g, h \subseteq g, Shows(h)
  PROVE  Shows(g)
BY DEF Shows

\* Every step keeps the device files covered.
LEMMA FileStep == LifeTypeOK /\ FileCovered /\ [LifeNext]_lifeVars => FileCovered'
<1> SUFFICES ASSUME LifeTypeOK, FileCovered, [LifeNext]_lifeVars, module' = module, module \notin EarlyNode
             PROVE  FileCovered'
  BY DEF FileCovered, LifeNext, ModuleCode, lifeVars, Acquire, UseNothing, PassCheck, PutBack,
         IgnoreFailure, StopHalfWay, FailStep, InitDone, Release, ReleaseNothing, EndRelease, Exit,
         OpenFile, CloseFile, Raise, Fire, Finish
<1> Plans0' = Plans0 /\ Exit0' = Exit0
  BY DEF Plans0, Exit0
<1>1. CASE UNCHANGED lifeVars
  BY <1>1 DEF lifeVars, FileCovered, GotBy, Shows
<1>2. CASE Acquire \/ PassCheck \/ PutBack \/ IgnoreFailure
  <2>1. InInit /\ pc' = pc + 1 /\ phase' = phase /\ after' = after /\ opened' = opened
    BY <1>2 DEF Acquire, PassCheck, PutBack, IgnoreFailure
  <2>2. pc \in 1 .. Len(Plans0) /\ pc' <= Len(Plans0) + 1 /\ ThisStep = Plan[module].init[pc]
    BY <2>1, ThisStepType DEF Plans0
  <2>3. held \subseteq GotBy(module, pc) /\ phase = "init" /\ after = "failed" /\ (opened => Shows(held))
    BY <2>1 DEF FileCovered, InInit
  <2>4. held' \subseteq GotBy(module, pc + 1)
    <3>1. /\ \A r \in GotBy(module, pc) :
               ~(ThisStep.on = "put" /\ ThisStep.get = r) => r \in GotBy(module, pc + 1)
          /\ Acquires(ThisStep) => ThisStep.get \in GotBy(module, pc + 1)
      BY <2>2, GotByStep DEF LifeTypeOK, Plans0
    <3>2. CASE Acquire
      BY <2>3, <3>1, <3>2 DEF Acquire, Acquires
    <3>3. CASE PutBack
      BY <2>3, <3>1, <3>3 DEF PutBack
    <3>4. CASE PassCheck \/ IgnoreFailure
      BY <2>3, <3>1, <3>4 DEF PassCheck, IgnoreFailure
    <3> QED BY <1>2, <3>2, <3>3, <3>4
  <2>5. opened => Shows(held')
    <3>1. CASE PutBack
      BY <2>1, <2>3, <3>1, NodeHere DEF PutBack, Shows
    <3>2. CASE Acquire \/ PassCheck \/ IgnoreFailure
      BY <2>3, <3>2 DEF Acquire, PassCheck, IgnoreFailure, Shows
    <3> QED BY <1>2, <3>1, <3>2
  <2> QED BY <2>1, <2>2, <2>3, <2>4, <2>5 DEF FileCovered, Shows
<1>3. CASE UseNothing \/ ReleaseNothing
  BY <1>3 DEF UseNothing, ReleaseNothing, FileCovered
<1>4. CASE StopHalfWay
  BY <1>4, NodeHere DEF StopHalfWay, InInit, FileCovered
<1>5. CASE FailStep
  <2>1. ~Shows(GotBy(module, pc)) /\ held \subseteq GotBy(module, pc) /\ (opened => Shows(held))
    BY <1>5, NodeHere DEF FailStep, FileCovered, InInit
  <2>2. ~Shows(held) /\ ~opened
    BY <2>1, ShowsMore
  <2> QED BY <1>5, <2>2 DEF FailStep, FileCovered, Shows
<1>6. CASE InitDone
  BY <1>6, NodeHere, InitEnd DEF InitDone, FileCovered
<1>7. CASE Release
  <2>1. Listed(todo) = Under(Next1) \union Listed(todo')
    BY <1>7, ListedHead DEF Release, Next1, LifeTypeOK
  <2>2. CASE phase = "undo"
    BY <1>7, <2>2 DEF Release, FileCovered, Shows
  <2>3. CASE phase = "exit"
    BY <1>7, <2>1, <2>3 DEF Release, FileCovered
  <2> QED BY <1>7, <2>2, <2>3 DEF Release
<1>8. CASE EndRelease
  BY <1>8, EmptyList DEF EndRelease, FileCovered, LifeTypeOK, Shows
<1>9. CASE Exit
  BY <1>9 DEF Exit, FileCovered, Exit0
<1>10. CASE OpenFile \/ CloseFile
  BY <1>10 DEF OpenFile, CloseFile, FileCovered, Openable, Shows
<1>11. CASE \E c \in Callbacks : Raise(c) \/ Fire(c) \/ Finish(c)
  BY <1>11 DEF Raise, Fire, Finish, FileCovered, Shows
<1> QED
  BY <1>1, <1>2, <1>3, <1>4, <1>5, <1>6, <1>7, <1>8, <1>9, <1>10, <1>11 DEF LifeNext, ModuleCode

\* For every plan that shows its file by the last step that can fail and takes its proc file
\* at exit, no file is open on a module that is gone, whenever it was opened.
THEOREM LifeOpenFileHasModule == LifeSpec => []OpenFileHasModule
<1>1. LifeInit => FileCovered
  BY FirstStep, PlanAssumption DEF LifeInit, FileCovered, Plans0
<1>2. LifeTypeOK /\ FileCovered => OpenFileHasModule
  BY DEF FileCovered, OpenFileHasModule, Loaded, LifeTypeOK
<1> QED BY <1>1, <1>2, FileStep, LifeTypeCorrect, PTL DEF LifeSpec

-----------------------------------------------------------------------------
(* A module releases what it owns.                                         *)

\* In every phase, the handle that init has ensured is held and no list can do harm.
CareCovered ==
  module \notin Careless =>
    /\ phase # "oops" /\ stray = {}
    /\ phase = "init" => /\ pc <= Len(Plans0) + 1
                         /\ Ensured(module, pc) => Plan[module].handle \in held
    /\ phase \in {"undo", "exit"} => Harmless(module, todo)

\* What the assumption on the plans says of the step at hand and of exit.
LEMMA CareHere ==
  ASSUME LifeTypeOK, module \notin Careless
  PROVE  /\ InInit => /\ Harmless(module, ThisStep.undo)
                      /\ Plan[module].handle # "none" =>
                           /\ ThisStep.on # "use"
                           /\ ThisStep.on = "never" /\ ThisStep.get \in ThroughHandle =>
                                Ensured(module, pc)
         /\ Harmless(module, Exit0)
<1>1. module \in Module \ Careless
  BY DEF LifeTypeOK
<1>2. InInit => pc \in 1 .. Len(Plan[module].init) /\ ThisStep = Plan[module].init[pc]
  BY ThisStepType DEF Plans0
<1> QED BY <1>1, <1>2, CareAssumption DEF Exit0

\* The handle is ensured after a step if the step itself ensures it, or if it was before and
\* the step does not put it back.
LEMMA EnsuredStep ==
  ASSUME NEW m \in Module, NEW i \in 1 .. Len(Plan[m].init), Ensured(m, i + 1)
  PROVE  LET step == Plan[m].init[i] IN
         \/ /\ step.on \in {"fail", "stop", "unbind", "never"}
            /\ step.get = Plan[m].handle /\ step.get \notin OneShots
         \/ Ensured(m, i) /\ ~(step.on = "put" /\ step.get = Plan[m].handle)
<1>1. Len(Plan[m].init) \in Nat
  BY PlanAssumption
<1>2. (i + 1) - 1 = i
  BY <1>1
<1>3. PICK j \in 1 .. i :
        /\ Plan[m].init[j].on \in {"fail", "stop", "unbind", "never"}
        /\ Plan[m].init[j].get = Plan[m].handle /\ Plan[m].init[j].get \notin OneShots
        /\ \A k \in (j + 1) .. i :
             ~(Plan[m].init[k].on = "put" /\ Plan[m].init[k].get = Plan[m].handle)
  BY <1>2 DEF Ensured
<1>4. CASE j = i
  BY <1>3, <1>4
<1>5. CASE j # i
  <2>1. j \in 1 .. (i - 1) /\ i \in (j + 1) .. i /\ (j + 1) .. (i - 1) \subseteq (j + 1) .. i
    BY <1>1, <1>5
  <2>2. Ensured(m, i)
    BY <1>3, <2>1 DEF Ensured
  <2> QED BY <1>3, <2>1, <2>2
<1> QED BY <1>4, <1>5

\* What is left of a harmless list is harmless, and its first entry is no pin.
LEMMA HarmlessTail ==
  ASSUME NEW m, NEW s \in Seq(Resource), s # << >>, Harmless(m, s)
  PROVE  /\ Harmless(m, Tail(s)) /\ Head(s) \notin {"gpio_in", "gpio_out"}
         /\ Plan[m].handle # "none" => Head(s) \notin ThroughHandle
<1>1. \A i \in 1 .. Len(Tail(s)) : i + 1 \in 1 .. Len(s) /\ Tail(s)[i] = s[i + 1]
  BY HeadAndTail
<1>2. 1 \in 1 .. Len(s) /\ Head(s) = s[1]
  BY HeadAndTail
<1>3. /\ Head(s) \notin {"gpio_in", "gpio_out"}
      /\ Plan[m].handle # "none" => Head(s) \notin ThroughHandle
  BY <1>2 DEF Harmless
<1>4. Harmless(m, Tail(s))
  BY <1>1 DEF Harmless
<1> QED BY <1>3, <1>4

\* Every step keeps the handle and the lists safe.
LEMMA CareStep == LifeTypeOK /\ CareCovered /\ [LifeNext]_lifeVars => CareCovered'
<1> SUFFICES ASSUME LifeTypeOK, CareCovered, [LifeNext]_lifeVars, module' = module,
                    module \notin Careless
             PROVE  CareCovered'
  BY DEF CareCovered, LifeNext, ModuleCode, lifeVars, Acquire, UseNothing, PassCheck, PutBack,
         IgnoreFailure, StopHalfWay, FailStep, InitDone, Release, ReleaseNothing, EndRelease, Exit,
         OpenFile, CloseFile, Raise, Fire, Finish
<1> Plans0' = Plans0
  BY DEF Plans0
<1> DEFINE h == Plan[module].handle
<1>1. CASE UNCHANGED lifeVars
  BY <1>1 DEF lifeVars, CareCovered, Ensured, Harmless
<1>2. CASE Acquire \/ PassCheck \/ PutBack \/ IgnoreFailure
  <2>1. InInit /\ pc' = pc + 1 /\ phase' = phase /\ stray' = stray
    BY <1>2 DEF Acquire, PassCheck, PutBack, IgnoreFailure
  <2>2. /\ pc \in 1 .. Len(Plans0) /\ pc' <= Len(Plans0) + 1 /\ module \in Module
        /\ ThisStep = Plan[module].init[pc]
    BY <2>1, ThisStepType DEF Plans0
  <2>3. phase = "init" /\ stray = {} /\ (Ensured(module, pc) => h \in held)
    BY <2>1 DEF CareCovered, InInit
  <2>4. ASSUME Ensured(module, pc + 1) PROVE h \in held'
    <3>1. \/ /\ ThisStep.on \in {"fail", "stop", "unbind", "never"}
             /\ ThisStep.get = h /\ ThisStep.get \notin OneShots
          \/ Ensured(module, pc) /\ ~(ThisStep.on = "put" /\ ThisStep.get = h)
      BY <2>2, <2>4, EnsuredStep DEF Plans0
    <3>2. CASE Acquire
      BY <2>3, <3>1, <3>2 DEF Acquire
    <3>3. CASE PassCheck \/ IgnoreFailure
      BY <2>3, <3>1, <3>3 DEF PassCheck, IgnoreFailure
    <3>4. CASE PutBack
      BY <2>3, <3>1, <3>4 DEF PutBack
    <3> QED BY <1>2, <3>2, <3>3, <3>4
  <2>5. Ensured(module, pc)' => Ensured(module, pc + 1)
    BY <2>1 DEF Ensured
  <2> QED BY <2>1, <2>2, <2>3, <2>4, <2>5 DEF CareCovered
<1>3. ~UseNothing
  <2> SUFFICES ASSUME UseNothing PROVE FALSE
    OBVIOUS
  <2>1. InInit /\ NoHandle /\ h # "none" /\ h \notin held
    BY DEF UseNothing, NoHandle, Missing
  <2>2. ThisStep.on = "use" \/ (ThisStep.on = "never" /\ ThisStep.get \in ThroughHandle)
    BY DEF UseNothing, Missing
  <2>3. Ensured(module, pc) => h \in held
    BY <2>1 DEF CareCovered, InInit
  <2> QED BY <2>1, <2>2, <2>3, CareHere
<1>4. CASE StopHalfWay \/ InitDone
  BY <1>4 DEF StopHalfWay, InitDone, CareCovered
<1>5. CASE FailStep
  BY <1>5, CareHere DEF FailStep, CareCovered, Harmless
<1>6. CASE Release
  <2>1. Next1 \notin {"gpio_in", "gpio_out"} /\ Harmless(module, Tail(todo))
    BY <1>6, HarmlessTail DEF Release, Next1, CareCovered, LifeTypeOK
  <2>2. phase \in {"undo", "exit"} /\ phase' = phase /\ stray' = {} /\ todo' = Tail(todo)
    BY <1>6, <2>1 DEF Release, CareCovered
  <2> QED BY <2>1, <2>2 DEF CareCovered, Harmless
<1>7. ~ReleaseNothing
  <2> SUFFICES ASSUME ReleaseNothing PROVE FALSE
    OBVIOUS
  <2>1. h # "none" /\ Next1 \in ThroughHandle /\ Harmless(module, todo) /\ todo # << >>
    BY DEF ReleaseNothing, Missing, NoHandle, CareCovered
  <2> QED BY <2>1, HarmlessTail DEF Next1, LifeTypeOK
<1>8. CASE EndRelease
  BY <1>8 DEF EndRelease, CareCovered, LifeTypeOK
<1>9. CASE Exit
  <2>1. Harmless(module, <<"driver">>)
    BY DEF Harmless, ThroughHandle, OneShots
  <2> QED BY <1>9, <2>1, CareHere DEF Exit, CareCovered, Harmless, Exit0
<1>10. CASE OpenFile \/ CloseFile
  BY <1>10 DEF OpenFile, CloseFile, CareCovered, Ensured, Harmless
<1>11. CASE \E c \in Callbacks : Raise(c) \/ Fire(c) \/ Finish(c)
  BY <1>11 DEF Raise, Fire, Finish, CareCovered, Ensured, Harmless
<1> QED
  BY <1>1, <1>2, <1>3, <1>4, <1>5, <1>6, <1>7, <1>8, <1>9, <1>10, <1>11 DEF LifeNext, ModuleCode

\* For every plan whose ladders are harmless and that makes sure of its handle before it calls
\* through it, no call goes through a pointer that was never set and no pin of others is freed.
THEOREM LifeReleasesOwn == LifeSpec => []ReleasesOwn
<1>1. LifeInit => CareCovered
  BY PlanAssumption DEF LifeInit, CareCovered, Plans0, Ensured
<1>2. LifeTypeOK /\ CareCovered => ReleasesOwn
  BY DEF CareCovered, ReleasesOwn
<1> QED BY <1>1, <1>2, CareStep, LifeTypeCorrect, PTL DEF LifeSpec
=============================================================================
