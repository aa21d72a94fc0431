------------------------------- MODULE Ch36xRegs -------------------------------
(***************************************************************************)
(* Register access from the V1.11 library (src/pcie/ch36x_linux-main/lib/  *)
(* ch36x_lib.c) through the ioctl ABI into the V1.21 driver (drv/ch36x.c): *)
(* the library lays an argument struct out on its stack, the driver picks  *)
(* longs out of it, makes the access under io_mutex and puts a long back;  *)
(* blocks move byte by byte.  The interrupt handler writes the status      *)
(* register back beside all that, without the mutex.                       *)
(*                                                                         *)
(* A little-endian machine; Long is its sizeof(long).  Abstracted: which   *)
(* addresses are registers of this device (the driver does not check).     *)
(* External: get_user, put_user and the copy functions, which fault when   *)
(* the caller's pointer is bad; the handler runs whenever it may.          *)
(***************************************************************************)
EXTENDS RegisterOps

CONSTANTS Threads,  \* the contexts that call the library
          Widths,   \* of the accesses that are not blocks: 1, 2, 4
          Long,     \* sizeof(long), which is sizeof(void *)
          Mark,     \* what the caller's memory holds before a read
          Status,   \* the status register, <<"io", its address>>
          NoThread  \* the owner of a free mutex

ASSUME SpacesAssumption == Spaces # {} /\ Spaces \subseteq {"config", "io", "mem"}
ASSUME WidthsAssumption == Widths \subseteq 1..MaxLen /\ Long \in Nat \ {0}
ASSUME MarkAssumption   == Mark \in Bytes
ASSUME StatusAssumption == Status[1] = "io" /\ ("io" \in Spaces => Status[2] \in Addrs)
ASSUME ThreadAssumption == NoThread \notin Threads

VARIABLES
  regs,     \* the chip
  mutex,    \* ch36x_dev->io_mutex: its holder
  pc,       \* where each thread is
  call,     \* what its caller asked of the library
  done,     \* bytes its block transfer has moved
  frame,    \* the caller's memory from the result pointer on
  outcome,  \* what the ioctl returned: "ok" is 0, "fail" anything else
  stale,    \* the handler's intval, or NoThread when the handler is idle
  settled   \* history: the chip without the block that is being written

vars == <<regs, mutex, pc, call, done, frame, outcome, stale, settled>>

FrameSpan == 0..(Long - 1) \union Span
Fresh == [i \in FrameSpan |-> Mark]

NoCall == [op |-> "none", space |-> CHOOSE s \in Spaces : TRUE, at |-> 0, len |-> 0, data |-> Blank]

Init ==
  /\ regs \in Stores /\ settled = regs
  /\ mutex = NoThread
  /\ pc = [t \in Threads |-> "idle"]
  /\ call = [t \in Threads |-> NoCall]
  /\ done = [t \in Threads |-> 0]
  /\ frame = [t \in Threads |-> Fresh]
  /\ outcome = [t \in Threads |-> "none"]
  /\ stale = NoThread

-----------------------------------------------------------------------------
(* The argument struct *)

\* Where the compiler puts the value field of a write's struct: after a
\* uint8_t offset for config space, after an unsigned long address otherwise.
ValueAt(space, width) == IF space = "config" THEN width ELSE Long

\* The width bytes the driver reads one long into the struct.  Past the value
\* field there is whatever the stack holds.
Fetched(c) == IF ValueAt(c.space, c.len) = Long THEN {c.data} ELSE Payloads(c.len)

\* put_user stores a whole long through the caller's pointer.
PutLong(f, value, width) ==
  [i \in FrameSpan |-> IF i < width THEN value[i] ELSE IF i < Long THEN Zero ELSE f[i]]

-----------------------------------------------------------------------------
Goto(t, from, to) == pc[t] = from /\ pc' = [pc EXCEPT ![t] = to]

\* ch36x_read_* and ch36x_write_* of one byte, word or dword
CallAccess(t, c) ==
  /\ c.len \in Widths
  /\ Goto(t, "idle", "lock_access")
  /\ call' = [call EXCEPT ![t] = c]
  /\ UNCHANGED <<regs, mutex, done, frame, outcome, stale, settled>>

\* ch36x_read_mem_block and ch36x_write_mem_block: the library refuses a
\* length of 0 and one beyond the memory window
CallBlock(t, c) ==
  /\ c.space = "mem" /\ c.len \in 1..MaxLen
  /\ Goto(t, "idle", "lock_block")
  /\ call' = [call EXCEPT ![t] = c]
  /\ UNCHANGED <<regs, mutex, done, frame, outcome, stale, settled>>

\* Mutant: a block command runs without io_mutex.
LockBlockUnlocked(t) ==
  /\ Goto(t, "lock_block", "block")
  /\ mutex' = t
  /\ UNCHANGED <<regs, call, done, frame, outcome, stale, settled>>

LockAccess(t) ==
  /\ mutex = NoThread
  /\ Goto(t, "lock_access", "access")
  /\ mutex' = t
  /\ UNCHANGED <<regs, call, done, frame, outcome, stale, settled>>

LockBlock(t) ==
  /\ mutex = NoThread
  /\ Goto(t, "lock_block", "block")
  /\ mutex' = t
  /\ UNCHANGED <<regs, call, done, frame, outcome, stale, settled>>

\* ch36x_cfg_write, ch36x_io_write, ch36x_mmio_write
WriteAccess(t) ==
  LET c == call[t] IN
  /\ c.op = "write" /\ Goto(t, "access", "unlock")
  /\ \E value \in Fetched(c) : regs' = Put(regs, c.space, c.at, value, c.len)
  /\ settled' = regs'
  /\ outcome' = [outcome EXCEPT ![t] = "ok"]
  /\ UNCHANGED <<mutex, call, done, frame, stale>>

\* ch36x_cfg_read, ch36x_io_read, ch36x_mmio_read
ReadAccess(t) ==
  LET c == call[t] IN
  /\ c.op = "read" /\ Goto(t, "access", "unlock")
  /\ \/ /\ frame' = [frame EXCEPT ![t] = PutLong(@, Take(regs, c.space, c.at, c.len), c.len)]
        /\ outcome' = [outcome EXCEPT ![t] = "ok"]
     \/ /\ outcome' = [outcome EXCEPT ![t] = "fail"]     \* -EFAULT
        /\ UNCHANGED frame
  /\ UNCHANGED <<regs, mutex, call, done, stale, settled>>

\* copy_from_user and copy_to_user move one more byte
MoveByte(t) ==
  LET c == call[t]  n == done[t] IN
  /\ pc[t] = "block" /\ n < c.len
  /\ done' = [done EXCEPT ![t] = n + 1]
  /\ IF c.op = "write"
       THEN /\ regs' = [regs EXCEPT ![c.space][c.at + n] = c.data[n]]
            /\ UNCHANGED frame
       ELSE /\ frame' = [frame EXCEPT ![t][n] = regs[c.space][c.at + n]]
            /\ UNCHANGED regs
  /\ UNCHANGED <<mutex, pc, call, outcome, stale, settled>>

\* After a fault copy_from_user fills what it could not read with zeros, and
\* what it fills is the chip; copy_to_user leaves the rest alone.
FillRest(t) ==
  LET c == call[t]  n == done[t] IN
  regs' = IF c.op = "write" THEN Put(regs, c.space, c.at + n, Blank, c.len - n) ELSE regs

\* Mutant: a block that stops short is neither a success nor a failure.
EndBlockPartial(t) ==
  /\ Goto(t, "block", "unlock")
  /\ outcome' = [outcome EXCEPT ![t] = IF done[t] = call[t].len THEN "ok" ELSE "partial"]
  /\ FillRest(t) /\ settled' = regs'
  /\ UNCHANGED <<mutex, call, done, frame, stale>>

\* They return the number of bytes not copied: all moved, or a fault before.
EndBlock(t) ==
  /\ Goto(t, "block", "unlock")
  /\ outcome' = [outcome EXCEPT ![t] = IF done[t] = call[t].len THEN "ok" ELSE "fail"]
  /\ FillRest(t) /\ settled' = regs'
  /\ UNCHANGED <<mutex, call, done, frame, stale>>

\* Mutant: an error path returns with the mutex held.
UnlockOnSuccess(t) ==
  /\ Goto(t, "unlock", "idle")
  /\ mutex' = IF outcome[t] = "ok" THEN NoThread ELSE mutex
  /\ call' = [call EXCEPT ![t] = NoCall]
  /\ done' = [done EXCEPT ![t] = 0]
  /\ frame' = [frame EXCEPT ![t] = Fresh]
  /\ outcome' = [outcome EXCEPT ![t] = "none"]
  /\ UNCHANGED <<regs, stale, settled>>

\* mutex_unlock and the return to the caller, who is done with the result
Unlock(t) ==
  /\ Goto(t, "unlock", "idle")
  /\ mutex' = NoThread
  /\ call' = [call EXCEPT ![t] = NoCall]
  /\ done' = [done EXCEPT ![t] = 0]
  /\ frame' = [frame EXCEPT ![t] = Fresh]
  /\ outcome' = [outcome EXCEPT ![t] = "none"]
  /\ UNCHANGED <<regs, stale, settled>>

-----------------------------------------------------------------------------
(* ch36x_isr, as far as it touches the status register *)

IsrRead ==
  /\ "io" \in Spaces /\ stale = NoThread
  /\ stale' = regs[Status[1]][Status[2]]
  /\ UNCHANGED <<regs, mutex, pc, call, done, frame, outcome, settled>>

\* outb(intval & ~INTA): the client's bits go back as they were read
IsrWrite ==
  /\ stale # NoThread
  /\ regs' = [regs EXCEPT ![Status[1]][Status[2]] = stale]
  /\ settled' = [settled EXCEPT ![Status[1]][Status[2]] = stale]
  /\ stale' = NoThread
  /\ UNCHANGED <<mutex, pc, call, done, frame, outcome>>

-----------------------------------------------------------------------------
Askable == {r \in Requests : /\ r.op # "none" /\ r.at + r.len <= Extent
                             /\ r.data \in IF r.op = "write" THEN Payloads(r.len) ELSE {Blank}}

Call(t)    == \E c \in Askable : CallAccess(t, c) \/ CallBlock(t, c)
Locking(t) == LockAccess(t) \/ LockBlock(t)
Running(t) == WriteAccess(t) \/ ReadAccess(t) \/ MoveByte(t) \/ EndBlock(t) \/ Unlock(t)

Next ==
  \/ \E t \in Threads : Call(t) \/ Locking(t) \/ Running(t)
  \/ IsrRead \/ IsrWrite

\* A call goes on, and the mutex is granted to each waiter in the end.
Fairness == \A t \in Threads : WF_vars(Running(t)) /\ SF_vars(Locking(t))

Spec     == Init /\ [][Next]_vars
FairSpec == Spec /\ Fairness

-----------------------------------------------------------------------------
(* Properties *)

\* The type of every variable.
TypeOK ==
  /\ regs \in Stores /\ settled \in Stores
  /\ mutex \in Threads \union {NoThread}
  /\ pc \in [Threads -> {"idle", "lock_access", "lock_block", "access", "block", "unlock"}]
  /\ call \in [Threads -> Requests]
  /\ done \in [Threads -> 0..MaxLen]
  /\ frame \in [Threads -> [FrameSpan -> Bytes]]
  /\ outcome \in [Threads -> {"none", "ok", "fail"}]
  /\ stale \in Bytes \union {NoThread}

\* What a successful read has put in the caller's variable.
Reply(t) == IF outcome[t] = "ok" /\ call[t].op = "read"
              THEN [i \in Span |-> IF i < call[t].len THEN frame[t][i] ELSE Zero]
              ELSE Blank

\* Every access that succeeds is atomic, a block as well as a byte, however
\* the threads and the handler interleave, and one that fails has written
\* zeros after the part it moved.  (The status register is excepted: the
\* handler's write may undo a client's there.)
File == INSTANCE RegisterFile WITH
          Clients <- Threads, Volatile <- {Status},
          store <- settled, request <- call, answer <- outcome, reply <- [t \in Threads |-> Reply(t)]
AtomicRegisters == File!FileSpec

\* A write that returned 0 wrote the value it was given.
WriteLands ==
  [][\A t \in Threads :
       call[t].op = "write" /\ outcome'[t] = "ok" /\ outcome[t] = "none"
         => regs' = Put(settled, call[t].space, call[t].at, call[t].data, call[t].len)]_vars

\* A read changes the variable its caller passed, and no byte beside it.
ReadKeepsNeighbours ==
  \A t \in Threads : call[t].op = "read" =>
    \A i \in FrameSpan : i >= call[t].len => frame[t][i] = Mark

\* Every library call returns.
CallsReturn == \A t \in Threads : pc[t] # "idle" ~> pc[t] = "idle"
===============================================================================
