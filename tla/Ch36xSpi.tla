------------------------------- MODULE Ch36xSpi -------------------------------
(***************************************************************************)
(* SPI transfers of the V1.21 driver (src/pcie/ch36x_linux-main/drv/       *)
(* ch36x.c): STREAM_SPI selects the peripheral through the GPOR register,  *)
(* shifts ilen bytes out and olen bytes in, and deselects it, one port     *)
(* access at a time under io_mutex, between other clients' SET_STREAM and  *)
(* their own writes to GPOR.                                               *)
(*                                                                         *)
(* Abstracted: the bytes that are shifted; of the GPOR bits a transfer     *)
(* keeps (0x39), one stands for all, and those it only sets (SDX, its      *)
(* direction, SCL) are left out; reads whose value is not used.            *)
(* External: a device pulled off the bus, which answers every read with    *)
(* all ones and ignores writes; memory and user copies, which may fail.    *)
(***************************************************************************)
EXTENDS Naturals

CONSTANTS Threads,   \* the contexts that execute system calls
          SpiModes,  \* the modes clients pass to SET_STREAM
          MaxLen,    \* bound: bytes shifted in one direction (mMAX_BUFFER_LENGTH)
          NoThread   \* the owner of a free mutex, and of no frame

GporBits  == {"keep", "scs"}
SpicrBits == {"newtran", "freq", "sdi"}
ModeBits  == {"freq", "sdi"}      \* BIT(0) and BIT(1) of a SET_STREAM mode

ASSUME ModesAssumption == SpiModes \subseteq SUBSET ModeBits
ASSUME MaxLenAssumption == MaxLen \in Nat
ASSUME NoThreadAssumption == NoThread \notin Threads

VARIABLES
  alive,    \* does the device answer?
  gpor,     \* GPOR; the peripheral is selected while "scs" is not in it
  spicr,    \* SPICR
  spimode,  \* ch36x_dev->spimode
  mutex,    \* ch36x_dev->io_mutex: its holder
  pc,       \* where each thread is
  len,      \* ilen and olen of its STREAM_SPI
  moved,    \* the loop variable i
  regGPOR,  \* its local regGPOR
  retval,   \* what its ioctl will return: "ok" is 0
  frame,    \* history: what the peripheral saw since it was last selected
  kept      \* history: was "keep" in GPOR after the last client's write?

chipVars   == <<alive, gpor, spicr>>
threadVars == <<pc, len, moved, regGPOR, retval>>
history    == <<frame, kept>>
vars == <<chipVars, spimode, mutex, threadVars, history>>

NoFrame == [by |-> NoThread, outs |-> 0, ins |-> 0]

Init ==
  /\ alive = TRUE /\ gpor \in SUBSET GporBits /\ spicr = {} /\ spimode = {}
  /\ mutex = NoThread
  /\ pc = [t \in Threads |-> "idle"]
  /\ len = [t \in Threads |-> [out |-> 0, in |-> 0]]
  /\ moved = [t \in Threads |-> 0]
  /\ regGPOR = [t \in Threads |-> {}]
  /\ retval = [t \in Threads |-> "ok"]
  /\ frame = NoFrame /\ kept = ("keep" \in gpor)

-----------------------------------------------------------------------------
Goto(t, from, to) == pc[t] = from /\ pc' = [pc EXCEPT ![t] = to]

\* inb(GPOR): all ones when nobody answers
Gpor == IF alive THEN gpor ELSE GporBits

\* outb(GPOR).  SCS falling opens a frame, and SCS rising closes it.
WriteGpor(t, bits) ==
  /\ gpor' = IF alive THEN bits ELSE gpor
  /\ frame' = CASE "scs" \in gpor' -> NoFrame
                [] "scs" \in gpor /\ "scs" \notin gpor' -> [by |-> t, outs |-> 0, ins |-> 0]
                [] OTHER -> frame

\* outb(SPICR)
WriteSpicr(bits) == spicr' = IF alive THEN bits ELSE spicr

-----------------------------------------------------------------------------
(* The calls, up to mutex_lock, and their end *)

CallStream(t) ==
  /\ Goto(t, "idle", "lock_stream")
  /\ UNCHANGED <<chipVars, spimode, mutex, len, moved, regGPOR, retval, history>>

CallSetStream(t) ==
  /\ Goto(t, "idle", "lock_mode")
  /\ UNCHANGED <<chipVars, spimode, mutex, len, moved, regGPOR, retval, history>>

CallWriteGpor(t) ==
  /\ Goto(t, "idle", "lock_port")
  /\ UNCHANGED <<chipVars, spimode, mutex, len, moved, regGPOR, retval, history>>

\* Mutant: SET_STREAM does not take io_mutex.
LockModeUnlocked(t) ==
  /\ Goto(t, "lock_mode", "mode")
  /\ UNCHANGED <<chipVars, spimode, mutex, len, moved, regGPOR, retval, history>>

Lock(t, from, to) ==
  /\ mutex = NoThread
  /\ Goto(t, from, to)
  /\ mutex' = t
  /\ UNCHANGED <<chipVars, spimode, len, moved, regGPOR, retval, history>>

LockStream(t) == Lock(t, "lock_stream", "copy_in")
LockMode(t)   == Lock(t, "lock_mode", "mode")
LockPort(t)   == Lock(t, "lock_port", "port")

Unlock(t) ==
  /\ Goto(t, "unlock", "idle")
  /\ mutex' = NoThread
  /\ len' = [len EXCEPT ![t] = [out |-> 0, in |-> 0]]
  /\ regGPOR' = [regGPOR EXCEPT ![t] = {}]
  /\ retval' = [retval EXCEPT ![t] = "ok"]
  /\ UNCHANGED <<chipVars, spimode, moved, history>>

\* CH36x_SET_STREAM
SetStream(t) ==
  /\ Goto(t, "mode", "unlock")
  /\ spimode' \in SpiModes
  /\ UNCHANGED <<chipVars, mutex, len, moved, regGPOR, retval, history>>

\* CH36x_WRITE_IO_BYTE on GPOR: a client drives the pins itself
PortWrite(t) ==
  /\ Goto(t, "port", "unlock")
  /\ \E bits \in SUBSET GporBits : WriteGpor(t, bits)
  /\ kept' = ("keep" \in gpor')
  /\ UNCHANGED <<alive, spicr, spimode, mutex, len, moved, regGPOR, retval>>

-----------------------------------------------------------------------------
(* ch36x_stream_spi and ch36x_start_spi *)

\* get_user of the lengths, kmalloc and copy_from_user
CopyIn(t) ==
  /\ \/ /\ Goto(t, "copy_in", "ctrl")
        /\ \E i, o \in 0..MaxLen : len' = [len EXCEPT ![t] = [out |-> i, in |-> o]]
        /\ UNCHANGED retval
     \/ /\ Goto(t, "copy_in", "unlock")
        /\ retval' = [retval EXCEPT ![t] = "fail"]
        /\ UNCHANGED len
  /\ UNCHANGED <<chipVars, spimode, mutex, moved, regGPOR, history>>

StartCtrl(t) ==
  /\ Goto(t, "ctrl", "gpor")
  /\ WriteSpicr({"newtran"} \union spimode)
  /\ UNCHANGED <<alive, gpor, spimode, mutex, len, moved, regGPOR, retval, history>>

\* Mutant: start_spi does not look whether SCS is low already.
StartGporTrusts(t) ==
  /\ Goto(t, "gpor", "select")
  /\ regGPOR' = [regGPOR EXCEPT ![t] = Gpor]
  /\ UNCHANGED <<chipVars, spimode, mutex, len, moved, retval, history>>

\* *regGPOR = inb(GPOR)
StartGpor(t) ==
  /\ Goto(t, "gpor", IF "scs" \in Gpor THEN "select" ELSE "deselect")
  /\ regGPOR' = [regGPOR EXCEPT ![t] = Gpor]
  /\ UNCHANGED <<chipVars, spimode, mutex, len, moved, retval, history>>

StartDeselect(t) ==
  /\ Goto(t, "deselect", "select")
  /\ WriteGpor(t, regGPOR[t] \union {"scs"})
  /\ UNCHANGED <<alive, spicr, spimode, mutex, len, moved, regGPOR, retval, kept>>

StartSelect(t) ==
  /\ Goto(t, "select", "check")
  /\ WriteGpor(t, regGPOR[t] \intersect {"keep"})
  /\ UNCHANGED <<alive, spicr, spimode, mutex, len, moved, regGPOR, retval, kept>>

\* When the peripheral is not selected, start_spi returns -1, and stream_spi
\* leaves with the 0 that copy_from_user gave retval.
StartCheck(t) ==
  /\ Goto(t, "check", IF "scs" \in Gpor THEN "unlock" ELSE "out")
  /\ moved' = [moved EXCEPT ![t] = 0]
  /\ UNCHANGED <<chipVars, spimode, mutex, len, regGPOR, retval, history>>

\* One byte through SPIData; the peripheral takes part if it is selected.
Shift(t, dir) ==
  /\ moved' = [moved EXCEPT ![t] = @ + 1]
  /\ frame' = IF ~alive \/ frame.by = NoThread THEN frame
                ELSE [frame EXCEPT ![dir] = @ + 1]
  /\ UNCHANGED <<chipVars, spimode, mutex, pc, len, regGPOR, retval, kept>>

\* Mutant: the loop runs to i <= ilen.
ShiftOutBeyond(t) == pc[t] = "out" /\ moved[t] <= len[t].out /\ Shift(t, "outs")

ShiftOut(t) == pc[t] = "out" /\ moved[t] < len[t].out /\ Shift(t, "outs")
ShiftIn(t)  == pc[t] = "in"  /\ moved[t] < len[t].in  /\ Shift(t, "ins")

\* The end of the first loop.  ch36x_start_spi_data_in passes port and value to
\* outb the wrong way round, so it writes no register of the chip.
OutDone(t) ==
  /\ moved[t] = len[t].out
  /\ Goto(t, "out", IF len[t].in > 0 THEN "in" ELSE "stop_ctrl")
  /\ moved' = [moved EXCEPT ![t] = 0]
  /\ UNCHANGED <<chipVars, spimode, mutex, len, regGPOR, retval, history>>

\* Mutant: the loop waits for a byte more than it reads.
InDoneBeyond(t) ==
  /\ moved[t] > len[t].in
  /\ Goto(t, "in", "stop_ctrl")
  /\ moved' = [moved EXCEPT ![t] = 0]
  /\ UNCHANGED <<chipVars, spimode, mutex, len, regGPOR, retval, history>>

InDone(t) ==
  /\ moved[t] = len[t].in
  /\ Goto(t, "in", "stop_ctrl")
  /\ moved' = [moved EXCEPT ![t] = 0]
  /\ UNCHANGED <<chipVars, spimode, mutex, len, regGPOR, retval, history>>

\* ch36x_stop_spi, whose result is not looked at
StopCtrl(t) ==
  /\ Goto(t, "stop_ctrl", "stop_gpor")
  /\ WriteSpicr(spicr \intersect {"freq"})
  /\ UNCHANGED <<alive, gpor, spimode, mutex, len, moved, regGPOR, retval, history>>

\* Mutant: the bits that are not SPI's are not put back.
StopGporDrops(t) ==
  /\ Goto(t, "stop_gpor", "copy_out")
  /\ WriteGpor(t, {"scs"})
  /\ UNCHANGED <<alive, spicr, spimode, mutex, len, moved, regGPOR, retval, kept>>

StopGpor(t) ==
  /\ Goto(t, "stop_gpor", "copy_out")
  /\ WriteGpor(t, (regGPOR[t] \intersect {"keep"}) \union {"scs"})
  /\ UNCHANGED <<alive, spicr, spimode, mutex, len, moved, regGPOR, retval, kept>>

\* copy_to_user, kfree
CopyOut(t) ==
  /\ Goto(t, "copy_out", "unlock")
  /\ \E r \in {"ok", "fail"} : retval' = [retval EXCEPT ![t] = r]
  /\ UNCHANGED <<chipVars, spimode, mutex, len, moved, regGPOR, history>>

\* The device is pulled.
Vanish ==
  /\ alive /\ alive' = FALSE
  /\ UNCHANGED <<gpor, spicr, spimode, mutex, threadVars, history>>

-----------------------------------------------------------------------------
Call(t)    == CallStream(t) \/ CallSetStream(t) \/ CallWriteGpor(t)
Locking(t) == LockStream(t) \/ LockMode(t) \/ LockPort(t)
Starting(t) == CopyIn(t) \/ StartCtrl(t) \/ StartGpor(t) \/ StartDeselect(t) \/ StartSelect(t)
                 \/ StartCheck(t)
Moving(t)  == ShiftOut(t) \/ OutDone(t) \/ ShiftIn(t) \/ InDone(t)
Stopping(t) == StopCtrl(t) \/ StopGpor(t) \/ CopyOut(t)
Running(t) == Starting(t) \/ Moving(t) \/ Stopping(t) \/ SetStream(t) \/ PortWrite(t) \/ Unlock(t)

Next == Vanish \/ \E t \in Threads : Call(t) \/ Locking(t) \/ Running(t)

\* A call goes on, and the mutex is granted to each waiter in the end.
Fairness == \A t \in Threads : WF_vars(Running(t)) /\ SF_vars(Locking(t))

Spec     == Init /\ [][Next]_vars
FairSpec == Spec /\ Fairness

-----------------------------------------------------------------------------
(* Properties *)

PCs == {"idle", "lock_stream", "lock_mode", "lock_port", "mode", "port", "unlock", "copy_in",
        "ctrl", "gpor", "deselect", "select", "check", "out", "in", "stop_ctrl", "stop_gpor",
        "copy_out"}

\* The type of every variable.
TypeOK ==
  /\ alive \in BOOLEAN /\ gpor \in SUBSET GporBits /\ spicr \in SUBSET SpicrBits
  /\ spimode \in SUBSET ModeBits /\ mutex \in Threads \union {NoThread}
  /\ pc \in [Threads -> PCs]
  /\ len \in [Threads -> [out : 0..MaxLen, in : 0..MaxLen]]
  /\ moved \in [Threads -> 0..MaxLen]
  /\ regGPOR \in [Threads -> SUBSET GporBits]
  /\ retval \in [Threads -> {"ok", "fail"}]
  /\ frame \in [by : Threads \union {NoThread}, outs : 0..MaxLen, ins : 0..MaxLen]
  /\ kept \in BOOLEAN

\* A transfer is one frame of its own: when its bytes have moved, the
\* peripheral has been selected anew by this transfer, and has seen all of its
\* output and input and nothing else since (io_mutex, start_spi's raising of SCS).
FrameIntact ==
  \A t \in Threads : alive /\ pc[t] = "stop_ctrl"
    => frame = [by |-> t, outs |-> len[t].out, ins |-> len[t].in]

\* The clock and pinout do not change under a transfer: while bytes move they
\* are what SET_STREAM last asked for.
ModeSteady ==
  \A t \in Threads : alive /\ pc[t] \in {"out", "in"} => spicr = {"newtran"} \union spimode

\* After a transfer the peripheral is deselected, no further byte is clocked,
\* and the other bits of GPOR are as their last writer left them.
PinsRestored ==
  \A t \in Threads : alive /\ pc[t] = "copy_out"
    => /\ "scs" \in gpor /\ "newtran" \notin spicr
       /\ ("keep" \in gpor) = kept

\* STREAM_SPI returns 0 only if its bytes were shifted.
OkMeansShifted ==
  [][\A t \in Threads : pc[t] = "check" /\ pc'[t] = "unlock" => retval'[t] # "ok"]_vars

\* Every call returns.
CallsReturn == \A t \in Threads : pc[t] # "idle" ~> pc[t] = "idle"
===============================================================================
