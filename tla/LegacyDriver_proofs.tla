---------------------------- MODULE LegacyDriver_proofs ----------------------------
(***************************************************************************)
(* Proofs about the older driver: its interrupt path, for any processes,   *)
(* children and open files and any bound on the handlers; and the life of  *)
(* its module and devices, for any finite set of devices.                  *)
(***************************************************************************)
EXTENDS LegacyInterrupt, LegacyProbe, FiniteSetTheorems, TLAPS

\* Who is in a call has the file open; an open file's holders are those who have it, and
\* their children; a file that is not open is held by nobody.
FilesHeld ==
  /\ \A c \in Client : callAt[c] # "idle" => fd[c] # None
  /\ \A c \in Client : fd[c] # None => fd[c] \in openFiles /\ c \in holders[fd[c]]
  /\ \A f \in File \ openFiles : holders[f] = {}

\* The ioctl lock is held from the enable bit to request_irq.
Requesting == \A c \in Client : callAt[c] = "request" <=> ioctlLock = c

\* As long as there is a sole user: one open file; the enable bit says that the handler is
\* registered, except between the two steps of ENABLE_INT and after the last close.
SoleUser ==
  clean =>
    /\ ~badFree
    /\ alive \subseteq {child_pid[c] : c \in Client}
    /\ \A f, g \in openFiles : f = g
    /\ openFiles = {} => actions = 0
    /\ openFiles # {} =>
         actions = IF on /\ \A c \in Client : callAt[c] # "request" THEN 1 ELSE 0
    /\ \A c \in Client : callAt[c] = "request" => on

IrqInv == IrqTypeOK /\ FilesHeld /\ Requesting /\ SoleUser

-----------------------------------------------------------------------------
\* The actions of one client and of the device, by name.
LEMMA IrqActions ==
  ASSUME IrqNext
  PROVE  \/ Interrupt \/ IsrFlag \/ IsrWake \/ IsrAck
         \/ \E f \in File : ch36x_fops_release(f)
         \/ \E c \in Client :
              \/ \E int \in BOOLEAN : CH36xOpenDevice(c, int)
              \/ CallEnable(c) \/ LockEnable(c) \/ RequestIrq(c) \/ CH36xCloseDevice(c)
              \/ InstallRoutine(c) \/ InstallFails(c) \/ RemoveRoutine(c)
              \/ PollWait(c) \/ PollTest(c) \/ PollWoken(c)
BY DEF IrqNext, Device, Isr, Driving, Routine, Polling, Poll

\* What a file that can be opened looks like.
LEMMA FreeFile ==
  ASSUME openFiles \subseteq File, openFiles # File
  PROVE  (CHOOSE f \in File : f \notin openFiles) \in File \ openFiles
OBVIOUS

\* And a child that can be forked.
LEMMA FreeKid ==
  ASSUME alive \subseteq Kid, alive # Kid
  PROVE  (CHOOSE k \in Kid : k \notin alive) \in Kid \ alive
OBVIOUS

\* Every step keeps the type.
LEMMA IrqTypeStep == IrqTypeOK /\ FilesHeld /\ [IrqNext]_irqVars => IrqTypeOK'
<1> SUFFICES ASSUME IrqTypeOK, FilesHeld, [IrqNext]_irqVars PROVE IrqTypeOK'
  OBVIOUS
<1> USE LegacyIrqAssumption DEF IrqTypeOK, Goes, Idle
<1>1. CASE UNCHANGED irqVars
  BY <1>1 DEF irqVars, chipVars, fileVars, kidVars
<1>2. CASE Interrupt \/ IsrFlag \/ IsrWake \/ IsrAck
  BY <1>2 DEF Interrupt, IsrFlag, IsrWake, IsrAck, chipVars, fileVars, kidVars
<1>3. ASSUME NEW f \in File, ch36x_fops_release(f)
      PROVE  IrqTypeOK'
  <2>1. actions' \in 0 .. MaxIrq /\ openFiles' \subseteq File
    BY <1>3 DEF ch36x_fops_release
  <2>2. badFree' \in BOOLEAN
    BY <1>3, Zenon DEF ch36x_fops_release
  <2> QED BY <1>3, <2>1, <2>2 DEF ch36x_fops_release, chipVars, kidVars
<1>4. ASSUME NEW c \in Client, NEW int \in BOOLEAN, CH36xOpenDevice(c, int)
      PROVE  IrqTypeOK'
  <2> DEFINE f == CHOOSE f \in File : f \notin openFiles
  <2>1. f \in File \ openFiles
    BY <1>4, FreeFile DEF CH36xOpenDevice, ch36x_fops_open
  <2>2. /\ openFiles' = openFiles \union {f} /\ holders' = [holders EXCEPT ![f] = {c}]
        /\ fd' = [fd EXCEPT ![c] = f]
    BY <1>4 DEF CH36xOpenDevice, ch36x_fops_open
  <2> HIDE DEF f
  <2>3. openFiles' \subseteq File /\ holders' \in [File -> SUBSET (Client \union Kid)]
        /\ fd' \in [Client -> File \union {None}]
    BY <2>1, <2>2
  <2>4. on' \in BOOLEAN
    BY <1>4 DEF CH36xOpenDevice, ch36x_fops_open
  <2>5. clean' \in BOOLEAN
    BY <1>4, Zenon DEF CH36xOpenDevice, ch36x_fops_open
  <2>6. callAt' \in [Client -> {"idle", "enable", "enable0", "request", "poll", "sleep"}]
    BY <1>4 DEF CH36xOpenDevice
  <2> QED BY <1>4, <2>3, <2>4, <2>5, <2>6 DEF CH36xOpenDevice, ch36x_fops_open, kidVars
<1>5. ASSUME NEW c \in Client, CallEnable(c)
      PROVE  IrqTypeOK'
  BY <1>5 DEF CallEnable, chipVars, fileVars, kidVars
<1>6. ASSUME NEW c \in Client, LockEnable(c)
      PROVE  IrqTypeOK'
  <2>1. clean' \in BOOLEAN
    BY <1>6, Zenon DEF LockEnable
  <2>2. on' \in BOOLEAN
    BY <1>6, Zenon DEF LockEnable
  <2>3. ioctlLock' \in Client \union {None}
    BY <1>6 DEF LockEnable
  <2>4. callAt' \in [Client -> {"idle", "enable", "enable0", "request", "poll", "sleep"}]
    BY <1>6 DEF LockEnable
  <2> QED BY <1>6, <2>1, <2>2, <2>3, <2>4 DEF LockEnable, fileVars, kidVars
<1>7. ASSUME NEW c \in Client, RequestIrq(c)
      PROVE  IrqTypeOK'
  <2>1. actions' \in 0 .. MaxIrq /\ ioctlLock' \in Client \union {None}
    BY <1>7 DEF RequestIrq
  <2>2. callAt' \in [Client -> {"idle", "enable", "enable0", "request", "poll", "sleep"}]
    BY <1>7 DEF RequestIrq
  <2>3. clean' \in BOOLEAN
    BY <1>7 DEF RequestIrq
  <2> QED BY <1>7, <2>1, <2>2, <2>3 DEF RequestIrq, chipVars, fileVars, kidVars
<1>8. ASSUME NEW c \in Client, CH36xCloseDevice(c)
      PROVE  IrqTypeOK'
  BY <1>8 DEF CH36xCloseDevice, FilesHeld, chipVars, kidVars
<1>9. ASSUME NEW c \in Client, InstallRoutine(c)
      PROVE  IrqTypeOK'
  <2> DEFINE k == CHOOSE k \in Kid : k \notin alive
  <2>1. k \in Kid \ alive
    BY <1>9, FreeKid DEF InstallRoutine
  <2>2. /\ alive' = alive \union {k} /\ child_pid' = [child_pid EXCEPT ![c] = k]
        /\ holders' = [f \in File |-> IF c \in holders[f] THEN holders[f] \union {k} ELSE holders[f]]
    BY <1>9 DEF InstallRoutine
  <2> HIDE DEF k
  <2>3. alive' \subseteq Kid /\ child_pid' \in [Client -> Kid \union {None, "failed"}]
        /\ holders' \in [File -> SUBSET (Client \union Kid)]
    BY <2>1, <2>2
  <2>4. clean' \in BOOLEAN
    BY <1>9, Zenon DEF InstallRoutine
  <2> QED BY <1>9, <2>3, <2>4 DEF InstallRoutine, chipVars
<1>10. ASSUME NEW c \in Client, InstallFails(c)
       PROVE  IrqTypeOK'
  <2>1. child_pid' \in [Client -> Kid \union {None, "failed"}]
    BY <1>10 DEF InstallFails
  <2>2. clean' \in BOOLEAN
    BY <1>10 DEF InstallFails
  <2> QED BY <1>10, <2>1, <2>2 DEF InstallFails, chipVars, fileVars
<1>11. ASSUME NEW c \in Client, RemoveRoutine(c)
       PROVE  IrqTypeOK'
  BY <1>11 DEF RemoveRoutine, chipVars
<1>12. ASSUME NEW c \in Client, PollWait(c) \/ PollTest(c) \/ PollWoken(c)
       PROVE  IrqTypeOK'
  BY <1>12 DEF PollWait, PollTest, PollWoken, chipVars, fileVars, kidVars
<1> QED
  BY <1>1, <1>2, <1>3, <1>4, <1>5, <1>6, <1>7, <1>8, <1>9, <1>10, <1>11, <1>12, IrqActions

\* Every step keeps files with those who hold them.
LEMMA FilesStep == IrqTypeOK /\ FilesHeld /\ [IrqNext]_irqVars => FilesHeld'
<1> SUFFICES ASSUME IrqTypeOK, FilesHeld, [IrqNext]_irqVars PROVE FilesHeld'
  OBVIOUS
<1> USE LegacyIrqAssumption DEF IrqTypeOK, FilesHeld, Goes, Idle
<1>1. CASE UNCHANGED irqVars
  BY <1>1 DEF irqVars, fileVars
<1>2. CASE Interrupt \/ IsrFlag \/ IsrWake \/ IsrAck
  BY <1>2 DEF Interrupt, IsrFlag, IsrWake, IsrAck, fileVars
<1>3. ASSUME NEW f \in File, ch36x_fops_release(f)
      PROVE  FilesHeld'
  BY <1>3 DEF ch36x_fops_release
<1>4. ASSUME NEW c \in Client, NEW int \in BOOLEAN, CH36xOpenDevice(c, int)
      PROVE  FilesHeld'
  <2> DEFINE f == CHOOSE f \in File : f \notin openFiles
  <2>1. f \in File \ openFiles
    BY <1>4, FreeFile DEF CH36xOpenDevice, ch36x_fops_open
  <2>2. /\ openFiles' = openFiles \union {f} /\ holders' = [holders EXCEPT ![f] = {c}]
        /\ fd' = [fd EXCEPT ![c] = f]
    BY <1>4 DEF CH36xOpenDevice, ch36x_fops_open
  <2>3. \A d \in Client : d # c => callAt'[d] = callAt[d]
    BY <1>4 DEF CH36xOpenDevice
  <2> HIDE DEF f
  <2> QED BY <2>1, <2>2, <2>3
<1>5. ASSUME NEW c \in Client, CallEnable(c) \/ LockEnable(c) \/ RequestIrq(c)
      PROVE  FilesHeld'
  <2>1. UNCHANGED fileVars /\ (callAt[c] # "idle" \/ fd[c] # None)
        /\ \A d \in Client : d # c => callAt'[d] = callAt[d]
    BY <1>5 DEF CallEnable, LockEnable, RequestIrq
  <2> QED BY <2>1 DEF fileVars
<1>6. ASSUME NEW c \in Client, CH36xCloseDevice(c)
      PROVE  FilesHeld'
  BY <1>6 DEF CH36xCloseDevice
<1>7. ASSUME NEW c \in Client, InstallRoutine(c) \/ InstallFails(c)
      PROVE  FilesHeld'
  <2>1. UNCHANGED <<openFiles, fd, callAt>>
    BY <1>7 DEF InstallRoutine, InstallFails, fileVars
  <2>2. \A f \in File : holders[f] \subseteq holders'[f] /\ (holders[f] = {} => holders'[f] = {})
    BY <1>7 DEF InstallRoutine, InstallFails, fileVars
  <2> QED BY <2>1, <2>2
<1>8. ASSUME NEW c \in Client, RemoveRoutine(c)
      PROVE  FilesHeld'
  <2> DEFINE killed == IF child_pid[c] = "failed" THEN Kid ELSE {child_pid[c]}
  <2>1. UNCHANGED <<openFiles, fd, callAt>> /\ holders' = [f \in File |-> holders[f] \ killed]
    BY <1>8 DEF RemoveRoutine
  <2>2. ASSUME NEW d \in Client PROVE d \notin killed
    <3>1. child_pid[c] = "failed" \/ child_pid[c] \in Kid
      BY <1>8 DEF RemoveRoutine
    <3> QED BY <3>1
  <2> HIDE DEF killed
  <2> QED BY <2>1, <2>2
<1>9. ASSUME NEW c \in Client, PollWait(c) \/ PollTest(c) \/ PollWoken(c)
      PROVE  FilesHeld'
  <2>1. UNCHANGED fileVars /\ fd[c] # None /\ \A d \in Client : d # c => callAt'[d] = callAt[d]
    BY <1>9 DEF PollWait, PollTest, PollWoken
  <2> QED BY <2>1 DEF fileVars
<1> QED BY <1>1, <1>2, <1>3, <1>4, <1>5, <1>6, <1>7, <1>8, <1>9, IrqActions

\* Every step keeps the ioctl lock with the call that is between its two steps.
LEMMA RequestingStep == IrqTypeOK /\ Requesting /\ [IrqNext]_irqVars => Requesting'
<1> SUFFICES ASSUME IrqTypeOK, Requesting, [IrqNext]_irqVars PROVE Requesting'
  OBVIOUS
<1> USE DEF IrqTypeOK, Requesting, Goes, Idle
<1>1. CASE UNCHANGED irqVars
  BY <1>1 DEF irqVars
<1>2. CASE \/ Interrupt \/ IsrFlag \/ IsrWake \/ IsrAck
           \/ \E f \in File : ch36x_fops_release(f)
           \/ \E c \in Client : \/ InstallRoutine(c) \/ InstallFails(c) \/ RemoveRoutine(c)
                                \/ CH36xCloseDevice(c)
  <2>1. UNCHANGED <<callAt, ioctlLock>>
    BY <1>2 DEF Interrupt, IsrFlag, IsrWake, IsrAck, ch36x_fops_release, InstallRoutine,
                InstallFails, RemoveRoutine, CH36xCloseDevice
  <2> QED BY <2>1
<1>3. ASSUME NEW c \in Client,
             \/ \E int \in BOOLEAN : CH36xOpenDevice(c, int)
             \/ CallEnable(c) \/ PollWait(c) \/ PollTest(c) \/ PollWoken(c)
      PROVE  Requesting'
  <2>1. /\ UNCHANGED ioctlLock /\ callAt[c] # "request" /\ callAt'[c] # "request"
        /\ \A d \in Client : d # c => callAt'[d] = callAt[d]
    BY <1>3 DEF CH36xOpenDevice, ch36x_fops_open, CallEnable, PollWait, PollTest, PollWoken
  <2> QED BY <2>1
<1>4. ASSUME NEW c \in Client, LockEnable(c)
      PROVE  Requesting'
  BY <1>4, LegacyIrqAssumption DEF LockEnable
<1>5. ASSUME NEW c \in Client, RequestIrq(c)
      PROVE  Requesting'
  BY <1>5, LegacyIrqAssumption DEF RequestIrq
<1> QED BY <1>1, <1>2, <1>3, <1>4, <1>5, IrqActions

\* A step that touches nothing of what the sole user relies on.
LEMMA SoleUserRest ==
  ASSUME SoleUser, UNCHANGED <<clean, badFree, child_pid, openFiles, actions, on>>,
         alive' \subseteq alive,
         \A c \in Client : callAt'[c] = "request" <=> callAt[c] = "request"
  PROVE  SoleUser'
BY DEF SoleUser

\* Every step keeps what the sole user relies on.
LEMMA SoleUserStep == IrqInv /\ [IrqNext]_irqVars => SoleUser'
<1> SUFFICES ASSUME IrqTypeOK, FilesHeld, Requesting, SoleUser, [IrqNext]_irqVars PROVE SoleUser'
  BY DEF IrqInv
<1> USE LegacyIrqAssumption DEF Goes, Idle
<1>1. CASE UNCHANGED irqVars
  BY <1>1, SoleUserRest DEF irqVars, fileVars, kidVars, chipVars
<1>2. CASE Interrupt \/ IsrFlag \/ IsrWake \/ IsrAck
  BY <1>2, SoleUserRest DEF Interrupt, IsrFlag, IsrWake, IsrAck, fileVars, kidVars, chipVars
<1>3. ASSUME NEW f \in File, ch36x_fops_release(f), clean
      PROVE  SoleUser'
  <2>1. openFiles = {f} /\ openFiles' = {} /\ holders[f] = {}
    BY <1>3 DEF ch36x_fops_release, SoleUser
  <2>2. \A c \in Client : callAt[c] # "request"
    BY <2>1 DEF FilesHeld
  <2>3. actions = IF on THEN 1 ELSE 0
    BY <1>3, <2>1, <2>2 DEF SoleUser
  <2>4. actions' = 0
    BY <1>3, <2>3 DEF ch36x_fops_release
  <2>5. ~badFree'
    <3>1. ~badFree /\ ~(on /\ actions = 0)
      BY <1>3, <2>3 DEF SoleUser
    <3> QED BY <1>3, <3>1, Zenon DEF ch36x_fops_release
  <2>6. UNCHANGED <<callAt, alive, child_pid, clean>>
    BY <1>3 DEF ch36x_fops_release, kidVars
  <2> QED BY <1>3, <2>1, <2>2, <2>4, <2>5, <2>6 DEF SoleUser
<1>4. ASSUME NEW c \in Client, NEW int \in BOOLEAN, CH36xOpenDevice(c, int), clean'
      PROVE  SoleUser'
  <2>1. openFiles = {} /\ clean /\ ~on'
    BY <1>4 DEF CH36xOpenDevice, ch36x_fops_open
  <2>2. PICK f \in File : openFiles' = {f}
    <3> DEFINE f == CHOOSE f \in File : f \notin openFiles
    <3>1. f \in File
      BY <1>4, FreeFile DEF CH36xOpenDevice, ch36x_fops_open, IrqTypeOK
    <3>2. openFiles' = openFiles \union {f}
      BY <1>4 DEF CH36xOpenDevice, ch36x_fops_open
    <3> HIDE DEF f
    <3> QED BY <2>1, <3>1, <3>2
  <2>3. UNCHANGED <<actions, alive, child_pid, badFree>> /\ actions = 0
    BY <1>4, <2>1 DEF CH36xOpenDevice, ch36x_fops_open, kidVars, SoleUser
  <2>4. \A d \in Client : callAt'[d] # "request"
    <3>1. \A d \in Client : callAt[d] = "idle"
      BY <2>1 DEF FilesHeld
    <3> QED BY <1>4, <3>1 DEF CH36xOpenDevice, IrqTypeOK
  <2> QED BY <2>1, <2>2, <2>3, <2>4 DEF SoleUser
<1>5. ASSUME NEW c \in Client, CallEnable(c) \/ PollWait(c) \/ PollTest(c) \/ PollWoken(c)
      PROVE  SoleUser'
  <2>1. UNCHANGED <<clean, badFree, child_pid, openFiles, actions, on, alive>>
    BY <1>5 DEF CallEnable, PollWait, PollTest, PollWoken, fileVars, kidVars, chipVars
  <2>2. \A d \in Client : callAt'[d] = "request" <=> callAt[d] = "request"
    BY <1>5 DEF CallEnable, PollWait, PollTest, PollWoken, IrqTypeOK
  <2> QED BY <2>1, <2>2, SoleUserRest
<1>6. ASSUME NEW c \in Client, LockEnable(c), clean'
      PROVE  SoleUser'
  <2>1. UNCHANGED <<badFree, child_pid, openFiles, actions, alive>> /\ callAt[c] # "request"
    BY <1>6 DEF LockEnable, fileVars, kidVars
  <2>2. openFiles # {}
    BY <1>6 DEF LockEnable, FilesHeld
  <2>3. CASE callAt' = [callAt EXCEPT ![c] = "idle"] /\ UNCHANGED <<ioctlLock, on, clean>>
    <3>1. \A d \in Client : callAt'[d] = "request" <=> callAt[d] = "request"
      BY <2>1, <2>3 DEF IrqTypeOK
    <3> QED BY <2>1, <2>3, <3>1, SoleUserRest
  <2>4. CASE callAt' = [callAt EXCEPT ![c] = "request"] /\ on' /\ clean /\ ~on
    <3>1. callAt'[c] = "request"
      BY <2>4 DEF IrqTypeOK
    <3>2. actions = 0
      BY <2>2, <2>4 DEF SoleUser
    <3> QED BY <2>1, <2>2, <2>4, <3>1, <3>2 DEF SoleUser
  <2>5. \/ callAt' = [callAt EXCEPT ![c] = "idle"] /\ UNCHANGED <<ioctlLock, on, clean>>
        \/ callAt' = [callAt EXCEPT ![c] = "request"] /\ on' /\ clean /\ ~on
    BY <1>6 DEF LockEnable
  <2> QED BY <2>3, <2>4, <2>5
<1>7. ASSUME NEW c \in Client, RequestIrq(c), clean'
      PROVE  SoleUser'
  <2>1. /\ UNCHANGED <<clean, badFree, child_pid, openFiles, on, alive>>
        /\ actions' = actions + 1 /\ clean
    BY <1>7 DEF RequestIrq, fileVars, kidVars, chipVars
  <2>2. openFiles # {} /\ on
    BY <1>7, <2>1 DEF RequestIrq, FilesHeld, SoleUser
  <2>3. actions = 0
    BY <1>7, <2>1, <2>2 DEF RequestIrq, SoleUser
  <2>4. \A d \in Client : callAt'[d] # "request"
    BY <1>7 DEF RequestIrq, Requesting, IrqTypeOK
  <2> QED BY <2>1, <2>2, <2>3, <2>4 DEF SoleUser
<1>8. ASSUME NEW c \in Client, CH36xCloseDevice(c) \/ RemoveRoutine(c)
      PROVE  SoleUser'
  BY <1>8, SoleUserRest DEF CH36xCloseDevice, RemoveRoutine, fileVars, kidVars, chipVars
<1>9. ASSUME NEW c \in Client, InstallRoutine(c), clean'
      PROVE  SoleUser'
  <2>1. UNCHANGED <<badFree, openFiles, on, callAt, actions>> /\ clean /\ child_pid[c] \notin alive
    BY <1>9 DEF InstallRoutine, chipVars
  <2>2. PICK k \in Kid : alive' = alive \union {k} /\ child_pid' = [child_pid EXCEPT ![c] = k]
    BY <1>9, FreeKid DEF InstallRoutine, IrqTypeOK
  <2>3. alive' \subseteq {child_pid'[d] : d \in Client}
    <3>1. \A j \in alive : \E d \in Client : d # c /\ child_pid[d] = j
      BY <2>1 DEF SoleUser
    <3> QED BY <2>2, <3>1 DEF IrqTypeOK
  <2> QED BY <2>1, <2>3 DEF SoleUser
<1>10. ASSUME NEW c \in Client, InstallFails(c)
       PROVE  ~clean'
  BY <1>10 DEF InstallFails
<1>11. clean' => clean
  <2>1. CASE UNCHANGED irqVars
    BY <2>1 DEF irqVars
  <2> QED BY <2>1, IrqActions DEF Interrupt, IsrFlag, IsrWake, IsrAck, ch36x_fops_release,
        CH36xOpenDevice, ch36x_fops_open, CallEnable, LockEnable, RequestIrq, CH36xCloseDevice,
        InstallRoutine, InstallFails, RemoveRoutine, PollWait, PollTest, PollWoken
<1>12. ~clean' => SoleUser'
  BY DEF SoleUser
<1> QED
  BY <1>1, <1>2, <1>3, <1>4, <1>5, <1>6, <1>7, <1>8, <1>9, <1>10, <1>11, <1>12, IrqActions

\* The invariant holds at the start and is kept.
LEMMA IrqStart == IrqInit => IrqInv
<1> SUFFICES ASSUME IrqInit PROVE IrqInv
  OBVIOUS
<1>1. IrqTypeOK
  <2>1. {on, latch, badFree, clean} \subseteq BOOLEAN
    BY DEF IrqInit
  <2> QED BY <2>1, LegacyIrqAssumption DEF IrqInit, NoFiles, IrqTypeOK
<1>2. FilesHeld /\ Requesting
  BY LegacyIrqAssumption DEF IrqInit, NoFiles, FilesHeld, Requesting
<1>3. SoleUser
  <2>1. ~badFree /\ openFiles = {} /\ actions = 0 /\ alive = {}
        /\ \A c \in Client : callAt[c] # "request"
    BY DEF IrqInit
  <2> QED BY <2>1 DEF SoleUser
<1> QED BY <1>1, <1>2, <1>3 DEF IrqInv

LEMMA IrqStep == IrqInv /\ [IrqNext]_irqVars => IrqInv'
BY IrqTypeStep, FilesStep, RequestingStep, SoleUserStep DEF IrqInv

LEMMA IrqInvariant == IrqSpec => []IrqInv
BY IrqStart, IrqStep, PTL DEF IrqSpec

\* Whatever its users do, the older driver's state has its type; the handlers that are
\* registered are never counted below none.
THEOREM LegacyIrqTypeCorrect == IrqSpec => []IrqTypeOK
<1>1. IrqInv => IrqTypeOK
  BY DEF IrqInv
<1> QED BY <1>1, IrqInvariant, PTL

\* For any number of processes and children: a user who opens, enables and installs one at a
\* time gets every handler freed that was requested, frees none twice, and can remove every
\* routine he has installed.
THEOREM LegacySoleUserFreesIrq == IrqSpec => []SoleUserFreesIrq
<1>1. IrqInv => SoleUserFreesIrq
  BY DEF IrqInv, SoleUser, SoleUserFreesIrq
<1> QED BY <1>1, IrqInvariant, PTL

-----------------------------------------------------------------------------
(* Pollers *)

\* Every step keeps sleepers and wake-ups together.
LEMMA SleeperStep == IrqTypeOK /\ NoSleeperMissed /\ [IrqNext]_irqVars => NoSleeperMissed'
<1> SUFFICES ASSUME IrqTypeOK, NoSleeperMissed, [IrqNext]_irqVars PROVE NoSleeperMissed'
  OBVIOUS
<1> USE DEF IrqTypeOK, NoSleeperMissed, Goes, Idle
<1>1. CASE UNCHANGED irqVars
  BY <1>1 DEF irqVars
<1>2. CASE IsrFlag \/ IsrWake \/ IsrAck
  BY <1>2 DEF IsrFlag, IsrWake, IsrAck
<1>3. ASSUME NEW c \in Client, PollWait(c) \/ PollTest(c) \/ PollWoken(c)
      PROVE  NoSleeperMissed'
  BY <1>3 DEF PollWait, PollTest, PollWoken
<1>4. CASE \/ Interrupt \/ \E f \in File : ch36x_fops_release(f)
           \/ \E c \in Client : \/ InstallRoutine(c) \/ InstallFails(c) \/ RemoveRoutine(c)
                                \/ CH36xCloseDevice(c)
  <2>1. UNCHANGED <<callAt, poll_flag, woken, isrAt>>
    BY <1>4 DEF Interrupt, ch36x_fops_release, InstallRoutine, InstallFails, RemoveRoutine,
                CH36xCloseDevice
  <2> QED BY <2>1
<1>5. ASSUME NEW c \in Client,
             \/ \E int \in BOOLEAN : CH36xOpenDevice(c, int)
             \/ CallEnable(c) \/ LockEnable(c) \/ RequestIrq(c)
      PROVE  NoSleeperMissed'
  <2>1. /\ UNCHANGED <<poll_flag, woken, isrAt>> /\ callAt'[c] # "sleep"
        /\ \A d \in Client : d # c => callAt'[d] = callAt[d]
    BY <1>5 DEF CH36xOpenDevice, ch36x_fops_open, CallEnable, LockEnable, RequestIrq
  <2> QED BY <2>1
<1> QED BY <1>1, <1>2, <1>3, <1>4, <1>5, IrqActions

LEMMA SleeperStart == IrqInit => NoSleeperMissed
BY DEF IrqInit, NoSleeperMissed

\* For any number of pollers, however their system calls and the handler interleave, nobody
\* sleeps past an event that is posted.
THEOREM LegacyNoSleeperMissed == IrqSpec => []NoSleeperMissed
BY SleeperStart, SleeperStep, LegacyIrqTypeCorrect, PTL DEF IrqSpec
-----------------------------------------------------------------------------
(* The life of the module and its devices *)

\* What probe has acquired for its device when it is at step.
Acquired == Held \intersect {Steps[i] : i \in 1 .. step - 1}

\* Only the device in probe is between its start and its end, the list holds devices whose
\* probe has succeeded, and the count counts them.
Progress ==
  /\ list \in Seq(Dev)
  /\ probing # NoDev => stage # "gone" /\ endedAt[probing] = "new"
  /\ stage = "exit" => list # << >>
  /\ ~late /\ stage \in {"closing", "unregister", "gone"} => list = << >>
  /\ \A i \in 1 .. Len(list) : endedAt[list[i]] = "listed"
  /\ count \in 0 .. Cardinality({d \in Dev : endedAt[d] = "listed"})

\* Until exit has destroyed the class: the first device that gets so far creates it, it
\* stays, and probe registers with it.
Classy ==
  /\ class # "gone"
  /\ class = "ok" => major
  /\ probing # NoDev /\ Steps[step] = "class" => major
  /\ major => class = "ok" \/ (probing # NoDev /\ Steps[step] = "class")
  /\ probing # NoDev /\ Steps[step] \in {"cdev", "node"} => class = "ok"

\* Afterwards there is none but what a probe makes for a device it has yet to enter.
\* Every node is in the class, and numbers are there for a device listed or under way.
SharedClass ==
  /\ ~crashed /\ (classObj <=> class = "ok") /\ class # "error"
  /\ stage \notin {"unregister", "gone"} => Classy
  /\ stage \in {"unregister", "gone"} /\ class = "ok"
       => probing # NoDev /\ Steps[step] \in {"cdev", "node"}
  /\ \A d \in Dev : "node" \in has[d] => class = "ok"
  /\ numbers => (\E d \in Dev : endedAt[d] = "listed") \/ (probing # NoDev /\ step > 7)

\* Probe holds what lies behind it; of a device that is neither in probe nor listed only
\* what is known to be left is held.
Holdings ==
  /\ probing # NoDev => has[probing] = Acquired /\ (stored <=> step > 6)
  /\ \A d \in Dev \ {probing} : d \in Listed \/ has[d] \subseteq KnownLeft(d)

ProbeInv == ProbeTypeOK /\ Progress /\ (~RegistrationFailed /\ ~late => SharedClass /\ Holdings)

\* The ladder, step by step.
LEMMA TheSteps ==
  /\ Len(Steps) = 10
  /\ Steps[1] = "enabled" /\ Steps[2] = "memory" /\ Steps[3] = "flags"
  /\ Steps[4] = "regions" /\ Steps[5] = "ioport" /\ Steps[6] = "iomem"
  /\ Steps[7] = "region" /\ Steps[8] = "class" /\ Steps[9] = "cdev" /\ Steps[10] = "node"
BY DEF Steps

\* The actions, by name.
LEMMA ProbeActions ==
  ASSUME ProbeNext
  PROVE  \/ \E d \in Dev : \/ BeginProbe(d) \/ TakeNext(d) \/ FailTake(d)
                           \/ SkipNumbers(d) \/ AllocNumbers(d) \/ AllocFails(d)
                           \/ CreateClass(d) \/ ClassFails(d)
                           \/ AddCdev(d) \/ CdevFails(d) \/ CreateNode(d)
         \/ BeginExit \/ ExitDevice \/ CloseClass \/ EndExit
BY DEF ProbeNext

\* The actions that end the probe of d without success, and where.
Fails(d) == FailTake(d) \/ AllocFails(d) \/ ClassFails(d) \/ CdevFails(d)

LEMMA FailsAt ==
  ASSUME ProbeTypeOK, NEW d \in Dev, Fails(d)
  PROVE  /\ stage # "gone" /\ probing = d /\ probing' = NoDev
         /\ step \in 1 .. 9 /\ endedAt' = [endedAt EXCEPT ![d] = Steps[step]]
         /\ has' = [has EXCEPT ![d] = @ \ GivenBack(Steps[step])]
         /\ UNCHANGED <<stage, step, stored, list, count, late>>
<1> USE TheSteps DEF At, EndProbe, ProbeTypeOK
<1>1. CASE FailTake(d)   BY <1>1 DEF FailTake
<1>2. CASE AllocFails(d) BY <1>2 DEF AllocFails
<1>3. CASE ClassFails(d) BY <1>3 DEF ClassFails
<1>4. CASE CdevFails(d)  BY <1>4 DEF CdevFails
<1> QED BY <1>1, <1>2, <1>3, <1>4 DEF Fails

\* The actions that take probe further.
Takes(d) == TakeNext(d) \/ SkipNumbers(d) \/ AllocNumbers(d) \/ CreateClass(d) \/ AddCdev(d)

LEMMA TakesAt ==
  ASSUME ProbeTypeOK, NEW d \in Dev, Takes(d)
  PROVE  /\ stage # "gone" /\ probing = d /\ step \in 1 .. 9
         /\ step' = IF Steps[step] = "region" /\ major THEN step + 2 ELSE step + 1
         /\ has' = [has EXCEPT ![d] = @ \union ({Steps[step]} \intersect Held)]
         /\ step # 10 /\ (stored' <=> step = 6 \/ (step > 6 /\ stored))
         /\ UNCHANGED <<stage, probing, endedAt, list, count, crashed, late>>
<1> USE TheSteps DEF At, ProbeTypeOK
<1>1. CASE TakeNext(d)
  <2>1. PICK what \in {"enabled", "memory", "flags", "regions", "ioport", "iomem"} :
          /\ At(d, what) /\ has' = [has EXCEPT ![d] = @ \union ({what} \intersect Held)]
          /\ stored' = (what = "iomem")
    BY <1>1 DEF TakeNext
  <2>2. stored' <=> step = 6
    <3>1. stored' <=> what = "iomem"
      BY <2>1, Zenon
    <3> QED BY <2>1, <3>1
  <2>3. step \in 1 .. 6
    BY <2>1
  <2> QED BY <1>1, <2>1, <2>2, <2>3 DEF TakeNext
<1>2. CASE SkipNumbers(d)  BY <1>2 DEF SkipNumbers, Held
<1>3. CASE AllocNumbers(d) BY <1>3 DEF AllocNumbers, Held
<1>4. CASE CreateClass(d)  BY <1>4 DEF CreateClass, Held
<1>5. CASE AddCdev(d)      BY <1>5 DEF AddCdev, Held
<1> QED BY <1>1, <1>2, <1>3, <1>4, <1>5 DEF Takes
\* The devices whose probe has succeeded, and that they can be counted.
Successes == {d \in Dev : endedAt[d] = "listed"}

LEMMA SuccessesCounted ==
  IsFiniteSet(Successes) /\ Cardinality(Successes) \in 0 .. Cardinality(Dev)
<1>1. Successes \in SUBSET Dev
  BY DEF Successes
<1> QED BY <1>1, LegacyProbeAssumption, FS_Subset, FS_CardinalityType

\* The class and the shared flags keep their types.
LEMMA SharedTypeStep ==
  ASSUME ProbeTypeOK, [ProbeNext]_probeVars
  PROVE  /\ class' \in {"null", "ok", "error", "gone"}
         /\ {stored, major, numbers, classObj, crashed, late}' \subseteq BOOLEAN
<1> USE DEF ProbeTypeOK
<1>1. CASE UNCHANGED probeVars
  BY <1>1 DEF probeVars
<1>2. ASSUME NEW d \in Dev,
             \/ BeginProbe(d) \/ TakeNext(d) \/ FailTake(d)
             \/ SkipNumbers(d) \/ AllocNumbers(d) \/ AllocFails(d)
      PROVE  /\ class' \in {"null", "ok", "error", "gone"}
             /\ {stored, major, numbers, classObj, crashed, late}' \subseteq BOOLEAN
  BY <1>2 DEF BeginProbe, TakeNext, FailTake, EndProbe, SkipNumbers, AllocNumbers, AllocFails
<1>3. ASSUME NEW d \in Dev,
             CreateClass(d) \/ ClassFails(d) \/ AddCdev(d) \/ CdevFails(d) \/ CreateNode(d)
      PROVE  /\ class' \in {"null", "ok", "error", "gone"}
             /\ {stored, major, numbers, classObj, crashed, late}' \subseteq BOOLEAN
  <2>1. class' \in {"null", "ok", "error", "gone"}
    BY <1>3 DEF CreateClass, ClassFails, EndProbe, AddCdev, CdevFails, DestroyClass, CreateNode
  <2>2. stored' \in BOOLEAN /\ major' \in BOOLEAN
    BY <1>3 DEF CreateClass, ClassFails, EndProbe, AddCdev, CdevFails, CreateNode
  <2>3. numbers' \in BOOLEAN /\ classObj' \in BOOLEAN /\ crashed' \in BOOLEAN /\ late' \in BOOLEAN
    BY <1>3, Zenon DEF CreateClass, ClassFails, EndProbe, AddCdev, CdevFails, DestroyClass, CreateNode
  <2> QED BY <2>1, <2>2, <2>3
<1>4. CASE BeginExit \/ ExitDevice \/ CloseClass \/ EndExit
  <2>1. class' \in {"null", "ok", "error", "gone"}
    BY <1>4 DEF BeginExit, ExitDevice, CloseClass, EndExit, DestroyClass
  <2>2. stored' \in BOOLEAN /\ major' \in BOOLEAN /\ numbers' \in BOOLEAN /\ late' \in BOOLEAN
    BY <1>4 DEF BeginExit, ExitDevice, CloseClass, EndExit
  <2>3. CASE BeginExit \/ CloseClass \/ EndExit
    BY <1>4, <2>1, <2>2, <2>3, Zenon DEF BeginExit, CloseClass, EndExit, DestroyClass
  <2>4. CASE ExitDevice
    <3>1. crashed' = (class \in {"error", "gone"}) /\ UNCHANGED classObj
      BY <2>4 DEF ExitDevice
    <3>2. (class \in {"error", "gone"}) = TRUE \/ (class \in {"error", "gone"}) = FALSE
      OBVIOUS
    <3>3. crashed' = TRUE \/ crashed' = FALSE
      BY <3>1, <3>2
    <3> QED BY <2>1, <2>2, <3>1, <3>3
  <2> QED BY <1>4, <2>3, <2>4
<1> QED BY <1>1, <1>2, <1>3, <1>4, ProbeActions

\* Every step keeps the types, the list and the count.
LEMMA ProgressStep ==
  ASSUME ProbeTypeOK, Progress, [ProbeNext]_probeVars
  PROVE  ProbeTypeOK' /\ Progress'
<1> SUFFICES /\ stage' \in {"loaded", "exit", "closing", "unregister", "gone"}
             /\ probing' \in Dev \union {NoDev}
             /\ step' \in 1 .. 10 /\ has' \in [Dev -> SUBSET Held]
             /\ endedAt' \in [Dev -> {"new", "listed"} \union {Steps[i] : i \in 1 .. Len(Steps)}]
             /\ count' \in 0 .. Cardinality(Successes')
             /\ list' \in Seq(Dev)
             /\ probing' # NoDev => stage' # "gone" /\ endedAt'[probing'] = "new"
             /\ stage' = "exit" => list' # << >>
             /\ ~late' /\ stage' \in {"closing", "unregister", "gone"} => list' = << >>
             /\ \A i \in 1 .. Len(list') : endedAt'[list'[i]] = "listed"
  <2>1. (Cardinality(Successes) \in 0 .. Cardinality(Dev))'
    BY SuccessesCounted, PTL
  <2>2. count' \in 0 .. Cardinality(Dev)
    BY <2>1, LegacyProbeAssumption, FS_CardinalityType
  <2>3. Listed' \subseteq Dev
    BY DEF Listed
  <2>4. ProbeTypeOK'
    BY <2>2, <2>3, SharedTypeStep, TheSteps DEF ProbeTypeOK
  <2>5. count' \in 0 .. Cardinality({d \in Dev : endedAt'[d] = "listed"})
    BY DEF Successes
  <2> QED BY <2>4, <2>5 DEF Progress
<1> USE DEF ProbeTypeOK, Progress
<1>0. count \in 0 .. Cardinality(Successes) /\ Cardinality(Successes) \in Nat
  BY SuccessesCounted, LegacyProbeAssumption, FS_CardinalityType DEF Successes
<1>1. CASE UNCHANGED probeVars
  BY <1>0, <1>1, TheSteps DEF probeVars, Successes
<1>2. ASSUME NEW d \in Dev, BeginProbe(d)
      PROVE  /\ probing' = d /\ step' = 1 /\ stage # "gone" /\ endedAt[d] = "new"
             /\ UNCHANGED <<stage, has, endedAt, list, count, late>>
  BY <1>2 DEF BeginProbe
<1>3. ASSUME NEW d \in Dev, Fails(d)
      PROVE  /\ endedAt' \in [Dev -> {"new", "listed"} \union {Steps[i] : i \in 1 .. Len(Steps)}]
             /\ has' \in [Dev -> SUBSET Held] /\ Successes' = Successes
             /\ stage # "gone" /\ probing' = NoDev
             /\ UNCHANGED <<stage, step, list, count, late>>
             /\ \A i \in 1 .. Len(list') : endedAt'[list'[i]] = "listed"
  <2>1. Steps[step] # "listed" /\ Steps[step] \in {Steps[i] : i \in 1 .. Len(Steps)}
    BY <1>3, FailsAt, TheSteps
  <2>2. endedAt[d] # "listed"
    BY <1>3, FailsAt, LegacyProbeAssumption
  <2> QED BY <1>3, <2>1, <2>2, FailsAt DEF Successes
<1>4. ASSUME NEW d \in Dev, Takes(d)
      PROVE  /\ step' \in 1 .. 10 /\ has' \in [Dev -> SUBSET Held]
             /\ UNCHANGED <<stage, probing, endedAt, list, count, late>>
  <2>1. step' \in 1 .. 10
    BY <1>4, TakesAt, TheSteps
  <2> QED BY <1>4, <2>1, TakesAt
<1>5. ASSUME NEW d \in Dev, CreateNode(d)
      PROVE  /\ probing' = NoDev /\ stage # "gone" /\ UNCHANGED <<stage, step>>
             /\ (late' \/ stage = "loaded") /\ list' # << >>
             /\ endedAt' \in [Dev -> {"new", "listed"} \union {Steps[i] : i \in 1 .. Len(Steps)}]
             /\ has' \in [Dev -> SUBSET Held]
             /\ list' \in Seq(Dev) /\ \A i \in 1 .. Len(list') : endedAt'[list'[i]] = "listed"
             /\ count' \in 0 .. Cardinality(Successes')
  <2> USE <1>5 DEF CreateNode, At
  <2>1. endedAt[d] = "new" /\ d \notin Successes
    BY LegacyProbeAssumption DEF Successes
  <2>2. endedAt' \in [Dev -> {"new", "listed"} \union {Steps[i] : i \in 1 .. Len(Steps)}]
    OBVIOUS
  <2>3. has' \in [Dev -> SUBSET Held]
    <3>1. has' = has \/ has' = [has EXCEPT ![d] = @ \union {"node"}]
      OBVIOUS
    <3>2. "node" \in Held
      BY DEF Held
    <3>3. has \in [Dev -> SUBSET Held]
      OBVIOUS
    <3> HIDE DEF CreateNode, At, ProbeTypeOK, Progress
    <3> QED BY <3>1, <3>2, <3>3
  <2>4. list' = Append(list, d) /\ list' \in Seq(Dev)
    OBVIOUS
  <2>5. \A i \in 1 .. Len(list') : endedAt'[list'[i]] = "listed"
    BY <2>4
  <2>6. Successes' = Successes \union {d}
    BY DEF Successes
  <2>7. Cardinality(Successes)' = Cardinality(Successes) + 1
    BY <2>1, <2>6, SuccessesCounted, FS_AddElement
  <2>8. count' \in 0 .. Cardinality(Successes')
    <3>1. count' = count + 1 /\ Cardinality(Successes') = Cardinality(Successes) + 1
      BY <2>7
    <3> HIDE DEF CreateNode, At
    <3> QED BY <1>0, <3>1
  <2>9. list' # << >>
    BY <2>4
  <2>10. /\ probing' = NoDev /\ stage # "gone" /\ UNCHANGED <<stage, step>>
         /\ (late' \/ stage = "loaded")
    OBVIOUS
  <2> HIDE DEF CreateNode, At, ProbeTypeOK, Progress
  <2> QED BY <2>2, <2>3, <2>4, <2>5, <2>8, <2>9, <2>10
<1>6. ASSUME BeginExit
      PROVE  /\ stage = "loaded" /\ stage' = ExitLoop(list)
             /\ UNCHANGED <<probing, step, has, endedAt, list, count, late>>
  BY <1>6 DEF BeginExit
<1>7. ASSUME ExitDevice
      PROVE  /\ stage = "exit" /\ stage' = ExitLoop(list')
             /\ UNCHANGED <<probing, step, endedAt, count, late>>
             /\ has' \in [Dev -> SUBSET Held] /\ list' \in Seq(Dev)
             /\ \A i \in 1 .. Len(list') : endedAt'[list'[i]] = "listed"
  <2>1. list' = Tail(list) /\ list # << >> /\ endedAt' = endedAt
    BY <1>7 DEF ExitDevice
  <2>2. list' \in Seq(Dev) /\ \A i \in 1 .. Len(list') : list'[i] = list[i + 1] /\ i + 1 \in 1 .. Len(list)
    BY <2>1
  <2> QED BY <1>7, <2>1, <2>2 DEF ExitDevice
<1>8. ASSUME CloseClass
      PROVE  /\ stage = "closing" /\ stage' = "unregister" /\ count' = 0
             /\ UNCHANGED <<probing, step, has, endedAt, list, late>>
  BY <1>8 DEF CloseClass
<1>9. ASSUME EndExit
      PROVE  /\ stage = "unregister" /\ stage' = "gone" /\ probing = NoDev
             /\ UNCHANGED <<probing, step, has, endedAt, list, count, late>>
  BY <1>9 DEF EndExit
<1>10. step \in 1 .. 10
  BY TheSteps
<1> USE DEF Successes, ExitLoop
<1>11. CASE \E d \in Dev : BeginProbe(d)
  <2>1. PICK d \in Dev : BeginProbe(d)
    BY <1>11
  <2>2. /\ probing' = d /\ step' = 1 /\ stage # "gone" /\ endedAt[d] = "new"
        /\ UNCHANGED <<stage, has, endedAt, list, count, late>>
    BY <2>1, <1>2
  <2> QED BY <1>0, <2>2
<1>12. CASE \E d \in Dev : Fails(d)
  <2>1. PICK d \in Dev : Fails(d)
    BY <1>12
  <2> QED BY <1>0, <2>1, <1>3, <1>10
<1>13. CASE \E d \in Dev : Takes(d)
  BY <1>0, <1>4, <1>13
<1>14. CASE \E d \in Dev : CreateNode(d)
  BY <1>5, <1>10, <1>14
<1>15. CASE BeginExit
  BY <1>0, <1>6, <1>10, <1>15
<1>16. CASE ExitDevice
  BY <1>0, <1>7, <1>10, <1>16
<1>17. CASE CloseClass
  BY <1>0, <1>8, <1>10, <1>17
<1>18. CASE EndExit
  BY <1>0, <1>9, <1>10, <1>18
<1> QED
  BY <1>1, <1>11, <1>12, <1>13, <1>14, <1>15, <1>16, <1>17, <1>18, ProbeActions DEF Fails, Takes
\* A failed registration stays on record, and so does a device that came late.
LEMMA FailureStays ==
  ASSUME ProbeTypeOK, Progress, [ProbeNext]_probeVars, ~RegistrationFailed', ~late'
  PROVE  ~RegistrationFailed /\ ~late
<1> USE DEF RegistrationFailed
<1>1. CASE UNCHANGED <<endedAt, late>>
  BY <1>1
<1>2. ASSUME NEW d \in Dev, Fails(d) \/ CreateNode(d) PROVE ~RegistrationFailed /\ ~late
  <2>1. endedAt[d] = "new"
    BY <1>2, FailsAt, LegacyProbeAssumption DEF CreateNode, At, Progress
  <2>2. \A e \in Dev \ {d} : endedAt'[e] = endedAt[e]
    BY <1>2, FailsAt DEF CreateNode, ProbeTypeOK
  <2>3. ~late
    BY <1>2, FailsAt DEF CreateNode
  <2> QED BY <2>1, <2>2, <2>3
<1>3. CASE UNCHANGED probeVars
  BY <1>1, <1>3 DEF probeVars
<1>4. CASE \/ \E d \in Dev : BeginProbe(d) \/ Takes(d)
           \/ BeginExit \/ ExitDevice \/ CloseClass \/ EndExit
  BY <1>1, <1>4, TakesAt DEF BeginProbe, BeginExit, ExitDevice, CloseClass, EndExit
<1> QED BY <1>2, <1>3, <1>4, ProbeActions DEF Fails, Takes

\* A probe that fails before it registers has given back all but what is known to be left.
LEMMA GivesBack ==
  ASSUME step \in 1 .. 6, ~stored, NEW d \in Dev, endedAt' = [endedAt EXCEPT ![d] = Steps[step]],
         ProbeTypeOK
  PROVE  Acquired \ GivenBack(Steps[step]) \subseteq KnownLeft(d)'
<1>1. endedAt'[d] = Steps[step]
  BY DEF ProbeTypeOK
<1> USE TheSteps DEF Acquired, GivenBack, KnownLeft, Maps, Held
<1>2. CASE step = 1
  BY <1>1, <1>2
<1>3. CASE step = 2
  BY <1>1, <1>3
<1>4. CASE step = 3
  BY <1>1, <1>4
<1>5. CASE step = 4
  BY <1>1, <1>5
<1>6. CASE step = 5
  BY <1>1, <1>6
<1>7. CASE step = 6
  BY <1>1, <1>7
<1> QED BY <1>2, <1>3, <1>4, <1>5, <1>6, <1>7

\* As long as no registration fails and no device comes late, every step keeps the class
\* whole.
LEMMA SharedStep ==
  ASSUME ProbeTypeOK, Progress, SharedClass, Holdings, [ProbeNext]_probeVars,
         ~RegistrationFailed', ~late', ~late
  PROVE  SharedClass'
<1> USE TheSteps, LegacyProbeAssumption DEF SharedClass, Classy, ProbeTypeOK
<1>1. CASE UNCHANGED probeVars
  BY <1>1 DEF probeVars
<1>2. ASSUME NEW d \in Dev, BeginProbe(d) PROVE SharedClass'
  BY <1>2 DEF BeginProbe
<1>3. ASSUME NEW d \in Dev, Fails(d) PROVE SharedClass'
  <2>1. endedAt'[d] = Steps[step] /\ step \in 1 .. 6 /\ has'[d] \subseteq has[d]
    BY <1>3, FailsAt DEF RegistrationFailed
  <2>2. FailTake(d)
    BY <1>3, <2>1 DEF Fails, AllocFails, ClassFails, CdevFails, At
  <2>3. \A e \in Dev : has'[e] \subseteq has[e]
    BY <1>3, <2>1, FailsAt
  <2>4. /\ UNCHANGED <<stage, major, numbers, class, classObj, crashed>>
        /\ probing = d /\ probing # NoDev /\ probing' = NoDev
    BY <1>3, <2>2, FailsAt DEF FailTake
  <2>5. Steps[step] \notin {"class", "cdev", "node"}
    BY <2>1
  <2>6. (\E e \in Dev : endedAt[e] = "listed") => \E e \in Dev : endedAt'[e] = "listed"
    BY <1>3, <2>4, FailsAt DEF Progress
  <2> QED BY <2>1, <2>3, <2>4, <2>5, <2>6
<1>4. ASSUME NEW d \in Dev, Takes(d) PROVE SharedClass'
  <2>1. \A e \in Dev : "node" \in has'[e] => "node" \in has[e]
    BY <1>4, TakesAt
  <2>2. /\ probing = d /\ probing # NoDev /\ UNCHANGED <<stage, probing, crashed, endedAt>>
        /\ step \in 1 .. 9 /\ step' > step
    BY <1>4, TakesAt
  <2>3. CASE TakeNext(d)
    <3>1. UNCHANGED <<class, classObj, major, numbers>> /\ step \in 1 .. 6 /\ step' = step + 1
      BY <2>2, <2>3 DEF TakeNext, At
    <3> QED BY <2>1, <2>2, <3>1
  <2>4. CASE SkipNumbers(d)
    BY <2>1, <2>2, <2>4 DEF SkipNumbers, At
  <2>5. CASE AllocNumbers(d)
    BY <2>1, <2>2, <2>5 DEF AllocNumbers, At
  <2>6. CASE CreateClass(d)
    BY <2>1, <2>2, <2>6 DEF CreateClass, At
  <2>7. CASE AddCdev(d)
    BY <2>1, <2>2, <2>7 DEF AddCdev, At
  <2> QED BY <1>4, <2>3, <2>4, <2>5, <2>6, <2>7 DEF Takes
<1>5. ASSUME NEW d \in Dev, CreateNode(d) PROVE SharedClass'
  <2>1. stage = "loaded" /\ class = "ok" /\ ~crashed' /\ probing' = NoDev
        /\ UNCHANGED <<stage, class, classObj, major>>
    BY <1>5 DEF CreateNode, At
  <2>2. \A e \in Dev : "node" \in has'[e] => class' = "ok"
    BY <2>1
  <2>3. classObj' <=> class' = "ok"
    BY <2>1
  <2>4. endedAt'[d] = "listed"
    BY <1>5 DEF CreateNode
  <2> QED BY <2>1, <2>2, <2>3, <2>4
<1>6. CASE BeginExit
  <2>1. stage' \in {"exit", "closing"} /\ stage = "loaded"
    BY <1>6 DEF BeginExit, ExitLoop
  <2> QED BY <1>6, <2>1 DEF BeginExit
<1>7. CASE ExitDevice
  <2>1. stage' \in {"exit", "closing"} /\ stage = "exit"
    BY <1>7 DEF ExitDevice, ExitLoop
  <2>2. ~crashed' /\ UNCHANGED <<probing, step, class, classObj, major, numbers, endedAt>>
    BY <1>7, <2>1 DEF ExitDevice
  <2>3. \A e \in Dev : has'[e] \subseteq has[e]
    BY <1>7 DEF ExitDevice
  <2> QED BY <2>1, <2>2, <2>3
<1>8. CASE CloseClass
  <2>1. stage = "closing" /\ stage' = "unregister" /\ list = << >> /\ DestroyClass
        /\ UNCHANGED <<probing, step, has, major, numbers, endedAt>>
    BY <1>8 DEF CloseClass, Progress
  <2>2. Listed = {}
    BY <2>1 DEF Listed
  <2>3. \A e \in Dev : "node" \notin has[e]
    <3>1. "node" \notin Acquired
      BY DEF Acquired
    <3> QED BY <2>2, <3>1 DEF Holdings, KnownLeft
  <2>4. class # "gone" /\ class' # "ok" /\ class' # "error"
    BY <2>1 DEF DestroyClass
  <2>5. ~crashed' /\ ~classObj'
    BY <2>1, <2>4, Zenon DEF DestroyClass
  <2> QED BY <2>1, <2>3, <2>4, <2>5
<1>9. CASE EndExit
  BY <1>9 DEF EndExit
<1> QED
  BY <1>1, <1>2, <1>3, <1>4, <1>5, <1>6, <1>7, <1>8, <1>9, ProbeActions DEF Fails, Takes
\* And every step keeps the account of what each device holds.
LEMMA HoldingsStep ==
  ASSUME ProbeTypeOK, Progress, SharedClass, Holdings, [ProbeNext]_probeVars,
         ~RegistrationFailed', ~late', ~late
  PROVE  Holdings'
<1> USE TheSteps, LegacyProbeAssumption DEF Holdings, ProbeTypeOK
<1>1. CASE UNCHANGED probeVars
  BY <1>1 DEF probeVars, Acquired, Listed, KnownLeft
<1>2. ASSUME NEW d \in Dev, BeginProbe(d) PROVE Holdings'
  <2>1. endedAt[d] = "new" /\ probing = NoDev /\ probing' = d /\ step' = 1 /\ ~stored'
        /\ UNCHANGED <<has, endedAt, list>>
    BY <1>2 DEF BeginProbe
  <2>2. d \notin Listed
    BY <2>1 DEF Progress, Listed
  <2>3. has[d] = {}
    BY <2>1, <2>2 DEF KnownLeft
  <2>4. Acquired' = {}
    BY <2>1 DEF Acquired
  <2>5. \A e \in Dev : KnownLeft(e)' = KnownLeft(e)
    BY <2>1 DEF KnownLeft
  <2>6. \A e \in Dev \ {d} : e \in Listed' \/ has'[e] \subseteq KnownLeft(e)'
    BY <2>1, <2>5 DEF Listed
  <2>7. stored' <=> step' > 6
    BY <2>1, SharedTypeStep
  <2> QED BY <2>1, <2>3, <2>4, <2>6, <2>7
<1>3. ASSUME NEW d \in Dev, Fails(d) PROVE Holdings'
  <2>1. endedAt'[d] = Steps[step] /\ step \in 1 .. 6
    BY <1>3, FailsAt DEF RegistrationFailed
  <2>2. has'[d] \subseteq KnownLeft(d)'
    <3>1. has'[d] = Acquired \ GivenBack(Steps[step]) /\ ~stored
      BY <1>3, <2>1, FailsAt
    <3> QED BY <1>3, <2>1, <3>1, FailsAt, GivesBack
  <2>3. ASSUME NEW e \in Dev \ {d} PROVE e \in Listed' \/ has'[e] \subseteq KnownLeft(e)'
    <3>1. endedAt'[e] = endedAt[e] /\ has'[e] = has[e] /\ list' = list /\ e # probing
      BY <1>3, FailsAt
    <3> QED BY <3>1 DEF KnownLeft, Listed
  <2> QED BY <1>3, <2>2, <2>3, FailsAt
<1>4. ASSUME NEW d \in Dev, Takes(d) PROVE Holdings'
  <2>1. /\ probing = d /\ probing' = d /\ step \in 1 .. 9 /\ UNCHANGED <<endedAt, list>>
        /\ step' = IF Steps[step] = "region" /\ major THEN step + 2 ELSE step + 1
        /\ has' = [has EXCEPT ![d] = @ \union ({Steps[step]} \intersect Held)]
        /\ (stored' <=> step = 6 \/ (step > 6 /\ stored))
    BY <1>4, TakesAt
  <2>2. Acquired' = Acquired \union ({Steps[step]} \intersect Held)
    <3>1. CASE step' = step + 1
      <4>1. 1 .. step' - 1 = (1 .. step - 1) \union {step}
        BY <2>1, <3>1
      <4> QED BY <4>1 DEF Acquired
    <3>2. CASE step' = step + 2 /\ step = 7
      <4>1. 1 .. step' - 1 = (1 .. step - 1) \union {7, 8}
        BY <3>2
      <4> QED BY <3>2, <4>1 DEF Acquired, Held
    <3> QED BY <2>1, <3>1, <3>2
  <2>3. has'[d] = Acquired'
    BY <2>1, <2>2
  <2>4. stored' <=> step' > 6
    <3>1. CASE step < 6
      BY <2>1, <3>1
    <3>2. CASE step = 6
      BY <2>1, <3>2
    <3>3. CASE step > 6
      BY <2>1, <3>3
    <3> QED BY <2>1, <3>1, <3>2, <3>3
  <2>5. ASSUME NEW e \in Dev \ {d} PROVE e \in Listed' \/ has'[e] \subseteq KnownLeft(e)'
    <3>1. has'[e] = has[e]
      BY <2>1
    <3> QED BY <2>1, <3>1 DEF KnownLeft, Listed
  <2> QED BY <2>1, <2>3, <2>4, <2>5
<1>5. ASSUME NEW d \in Dev, CreateNode(d) PROVE Holdings'
  <2>1. /\ probing = d /\ probing' = NoDev /\ list' = Append(list, d) /\ list \in Seq(Dev)
        /\ endedAt' = [endedAt EXCEPT ![d] = "listed"]
    BY <1>5 DEF CreateNode, At, Progress
  <2>2. d \in Listed' /\ Listed \subseteq Listed'
    <3>1. Len(list') \in 1 .. Len(list') /\ list'[Len(list')] = d
      BY <2>1
    <3>2. \A i \in 1 .. Len(list) : i \in 1 .. Len(list') /\ list'[i] = list[i]
      BY <2>1
    <3> QED BY <3>1, <3>2 DEF Listed
  <2>3. ASSUME NEW e \in Dev \ {d} PROVE e \in Listed' \/ has'[e] \subseteq KnownLeft(e)'
    <3>1. endedAt'[e] = endedAt[e]
      BY <2>1
    <3>2. has' = has \/ has' = [has EXCEPT ![d] = @ \union {"node"}]
      BY <1>5 DEF CreateNode
    <3>3. has'[e] = has[e]
      BY <3>2
    <3> QED BY <2>1, <2>2, <3>1, <3>3 DEF KnownLeft
  <2> QED BY <2>1, <2>2, <2>3
<1>6. CASE BeginExit
  BY <1>6 DEF BeginExit, Acquired, KnownLeft, Listed
<1>7. CASE ExitDevice
  <2> DEFINE h == Head(list)
  <2>1. /\ UNCHANGED <<probing, step, stored, endedAt>> /\ list' = Tail(list)
        /\ list # << >> /\ list \in Seq(Dev) /\ has' \in [Dev -> SUBSET Held]
    BY <1>7, ProgressStep DEF ExitDevice, Progress
  <2>2. h \in Dev /\ endedAt[h] = "listed" /\ h # probing
    <3>1. 1 \in 1 .. Len(list) /\ h = list[1]
      BY <2>1
    <3>2. h \in Dev /\ endedAt[h] = "listed"
      BY <2>1, <3>1 DEF Progress
    <3> QED BY <3>2 DEF Progress
  <2>3. has'[h] \subseteq {"enabled"} /\ \A e \in Dev \ {h} : has'[e] = has[e]
    BY <1>7, <2>2 DEF ExitDevice, Held
  <2>4. Listed \subseteq Listed' \union {h}
    <3>1. ASSUME NEW i \in 1 .. Len(list), i # 1 PROVE list[i] \in Listed'
      <4>1. i - 1 \in 1 .. Len(list') /\ list'[i - 1] = list[i]
        BY <2>1, <3>1
      <4> QED BY <4>1 DEF Listed
    <3>2. list[1] = h
      BY <2>1
    <3> QED BY <3>1, <3>2 DEF Listed
  <2> HIDE DEF h
  <2>5. \A e \in Dev : KnownLeft(e)' = KnownLeft(e)
    BY <2>1 DEF KnownLeft
  <2>6. KnownLeft(h) = {"enabled"}
    BY <2>2 DEF KnownLeft
  <2>7. probing' # NoDev => has'[probing'] = Acquired' /\ (stored' <=> step' > 6)
    <3>1. Acquired' = Acquired
      BY <2>1 DEF Acquired
    <3> QED BY <2>1, <2>2, <2>3, <3>1
  <2>8. \A e \in Dev \ {probing'} : e \in Listed' \/ has'[e] \subseteq KnownLeft(e)'
    BY <2>1, <2>2, <2>3, <2>4, <2>5, <2>6
  <2> QED BY <2>7, <2>8
<1>8. CASE CloseClass \/ EndExit
  <2>1. UNCHANGED <<probing, step, stored, has, endedAt, list>>
    BY <1>8 DEF CloseClass, EndExit
  <2> QED BY <2>1 DEF Acquired, KnownLeft, Listed
<1> QED
  BY <1>1, <1>2, <1>3, <1>4, <1>5, <1>6, <1>7, <1>8, ProbeActions DEF Fails, Takes
\* The invariant holds at the start and is kept.
LEMMA ProbeStart == ProbeInit => ProbeInv
<1> SUFFICES ASSUME ProbeInit PROVE ProbeInv
  OBVIOUS
<1>1. list = << >> /\ Listed = {} /\ probing = NoDev /\ stage = "loaded" /\ ~major
  BY DEF ProbeInit, Listed
<1>2. Successes = {} /\ count = 0
  BY DEF ProbeInit, Successes
<1>3. ProbeTypeOK
  <2>1. {stored, major, numbers, classObj, crashed, late} \subseteq BOOLEAN
    BY DEF ProbeInit
  <2>2. Cardinality(Dev) \in Nat
    BY LegacyProbeAssumption, FS_CardinalityType
  <2> QED BY <1>1, <1>2, <2>1, <2>2, TheSteps DEF ProbeInit, ProbeTypeOK
<1>4. Progress
  <2>1. count \in 0 .. Cardinality({d \in Dev : endedAt[d] = "listed"})
    BY <1>2, FS_EmptySet DEF Successes
  <2> QED BY <1>1, <2>1 DEF Progress
<1>5. SharedClass /\ Holdings
  <2>1. ~crashed /\ ~classObj /\ class = "null" /\ \A d \in Dev : has[d] = {}
    BY DEF ProbeInit
  <2> QED BY <1>1, <2>1 DEF ProbeInit, SharedClass, Classy, Holdings
<1> QED BY <1>3, <1>4, <1>5 DEF ProbeInv

LEMMA ProbeStep == ProbeInv /\ [ProbeNext]_probeVars => ProbeInv'
BY ProgressStep, FailureStays, SharedStep, HoldingsStep DEF ProbeInv

LEMMA ProbeInvariant == ProbeSpec => []ProbeInv
BY ProbeStart, ProbeStep, PTL DEF ProbeSpec

\* Whatever fails, the older driver's device records have their types, and the count of
\* devices never passes the devices there are.
THEOREM LegacyProbeTypeCorrect == ProbeSpec => []ProbeTypeOK
<1>1. ProbeInv => ProbeTypeOK
  BY DEF ProbeInv
<1> QED BY <1>1, ProbeInvariant, PTL

\* For any number of devices: unless a registration fails or a device enters the list after
\* exit has begun, probe's labels and exit between them give back all but what is known to
\* be left, the numbers stay only where a device was listed, and no class is used that is
\* not there, also where probes overlap exit.
THEOREM LegacyExitReleases == ProbeSpec => []ExitReleasesListed
<1>1. ProbeInv => ExitReleasesListed
  <2> SUFFICES ASSUME ProbeInv, ~RegistrationFailed, ~late PROVE ExitReleasesListed
    BY DEF ExitReleasesListed
  <2>1. SharedClass /\ Holdings
    BY DEF ProbeInv
  <2>2. ~crashed /\ \A d \in Dev : "node" \in has[d] => classObj
    BY <2>1 DEF SharedClass
  <2>3. ASSUME stage = "gone"
        PROVE  /\ ~classObj /\ \A d \in Dev : has[d] \subseteq KnownLeft(d)
               /\ numbers => \E d \in Dev : endedAt[d] = "listed"
    <3>1. probing = NoDev /\ Listed = {}
      BY <2>3 DEF ProbeInv, Progress, ProbeTypeOK, Listed
    <3>2. \A d \in Dev : has[d] \subseteq KnownLeft(d)
      BY <2>1, <3>1, LegacyProbeAssumption DEF Holdings
    <3>3. class # "ok"
      BY <2>1, <2>3, <3>1 DEF SharedClass
    <3>4. numbers => \E d \in Dev : endedAt[d] = "listed"
      BY <2>1, <3>1 DEF SharedClass
    <3> QED BY <2>1, <3>2, <3>3, <3>4 DEF SharedClass
  <2> QED BY <2>2, <2>3 DEF ExitReleasesListed
<1> QED BY <1>1, ProbeInvariant, PTL
=============================================================================
