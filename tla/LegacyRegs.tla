------------------------------- MODULE LegacyRegs -------------------------------
(***************************************************************************)
(* Register access from the older CH36x library (CH36X_LINUX/lib) through  *)
(* its ioctls into the older driver (CH36X_LINUX/drv).  The driver picks   *)
(* longs out of the library's argument struct; a read puts a long back     *)
(* through the caller's pointer, whatever the width; a block goes through  *)
(* copy_to_user and copy_from_user, or byte by byte through put_user and   *)
(* get_user.  An ioctl holds ch36x_fops_ioctl_mutex from end to end, so a  *)
(* call is one step.                                                       *)
(*                                                                         *)
(* A byte is a name for what it held at first.  The caller's memory ends   *)
(* in cells he may not access, where get_user and its kin fail; get_user   *)
(* yields 0 then.  An access to io and mem space goes to the address it is *)
(* given, past the window of the device too.  External: user access, and   *)
(* the PCI core, which refuses a config access that is not aligned.        *)
(***************************************************************************)
EXTENDS Naturals

CONSTANTS Long,      \* sizeof(long)
          CfgSize,   \* the values of an unsigned char config offset
          IntLine,   \* OFFSET_INT_LINE
          IoRange,   \* CH365_IO_SPACE_RANGE, CH367's and CH368's
          MemRange,  \* CH365_MEM_SPACE_RANGE
          VerLen,    \* strlen(DRV_VERSION)
          MemLen,    \* cells of the caller's memory
          Limit,     \* how many of them, from the first, he may access
          Buffers,   \* bound: where in it his buffers start
          MaxCalls   \* bound: calls in a behaviour

ASSUME LegacyRegsAssumption ==
  /\ {Long, CfgSize, IoRange, MemRange, VerLen, MemLen, MaxCalls} \subseteq Nat \ {0}
  /\ Long >= 4     \* a dword fits
  /\ IntLine \in 0 .. CfgSize - 1 /\ Limit \in 0 .. MemLen /\ Buffers \subseteq 0 .. MemLen - 1

VARIABLES
  space,   \* the registers, and "info": what the driver knows of itself and the device
  mem,     \* the caller's memory
  call,    \* the last call
  result,  \* what the library returned: true, false or -1
  calls

regVars == <<space, mem, call, result, calls>>

Spaces  == {"config", "io", "mem", "info"}
Cells(s) == CASE s = "config" -> 0 .. CfgSize - 1
              [] s = "io"     -> 0 .. 2 * IoRange
              [] s = "mem"    -> 0 .. 2 * MemRange
              [] s = "info"   -> 0 .. VerLen + Long
Memory  == 0 .. MemLen - 1
ZeroByte == <<"zero", 0>>
Fault   == [i \in {} |-> i]   \* the value get_user could not read
Arg     == [i \in 0 .. Long - 1 |-> <<"arg", i>>]

NoCall == [op |-> "none", space |-> "io", len |-> 0, at |-> 0, buf |-> 0, err |-> "false"]

RegsInit ==
  /\ space = [s \in Spaces |-> [a \in Cells(s) |-> <<s, a>>]]
  /\ mem = [i \in Memory |-> <<"user", i>>]
  /\ call = NoCall /\ result = "true" /\ calls = 0

--------------------------------------------------------------------------------
(* What a driver function does: the registers and the memory it leaves,    *)
(* and whether it returns 0.                                               *)
Out(s, m, ok) == [space |-> s, mem |-> m, ok |-> ok]

Run(s, at, n) == [i \in 0 .. n - 1 |-> space[s][at + i]]

(* n bytes of v, stored in space s from at.                                *)
Stored(s, at, v, n) ==
  [space EXCEPT ![s] = [a \in Cells(s) |-> IF a \in at .. at + n - 1 THEN v[a - at] ELSE @[a]]]

(* n bytes of v, stored in the caller's memory from buf.                   *)
Given(buf, v, n) == [i \in Memory |-> IF i \in buf .. buf + n - 1 THEN v[i - buf] ELSE mem[i]]

Reach(buf) == IF buf < Limit THEN Limit - buf ELSE 0
Least(m, n) == IF m < n THEN m ELSE n

(* put_user through a pointer to long.                                     *)
PutUser(v, w, buf) ==
  IF buf + Long <= Limit
  THEN Out(space, Given(buf, [i \in 0 .. Long - 1 |-> IF i < w THEN v[i] ELSE ZeroByte], Long), TRUE)
  ELSE Out(space, mem, FALSE)

Value(v, w) == IF v = Fault THEN [i \in 0 .. w - 1 |-> ZeroByte] ELSE v

(* The offset is an unsigned char.  A refused read leaves the value as it  *)
(* was on the stack, a refused write is dropped; neither is looked at.     *)
Offset(off)     == off % CfgSize
Aligned(off, w) == Offset(off) % w = 0

ch36x_cfg_read(w, off, buf) ==
  IF Aligned(off, w)
  THEN {PutUser(Run("config", Offset(off), w), w, buf)}
  ELSE {PutUser([i \in 0 .. w - 1 |-> junk], w, buf) : junk \in {ZeroByte, <<"stack", 0>>}}

ch36x_cfg_write(w, off, v) ==
  {Out(IF Aligned(off, w) THEN Stored("config", Offset(off), Value(v, w), w) ELSE space,
       mem, v # Fault)}

ch36x_io_read(w, addr, buf) == {PutUser(Run("io", addr, w), w, buf)}

(* A write whose value could not be read is made all the same.             *)
ch36x_io_write(w, addr, v) == {Out(Stored("io", addr, Value(v, w), w), mem, v # Fault)}

ch36x_mem_read(w, addr, buf) == {PutUser(Run("mem", addr, w), w, buf)}

ch36x_mem_write(w, addr, v) == {Out(Stored("mem", addr, Value(v, w), w), mem, v # Fault)}

(* Mutant: what copy_to_user returns is not looked at. *)
MemReadBlockTrusts(addr, buf, size) ==
  LET n == Least(size, Reach(buf)) IN
  {IF size > MemRange THEN Out(space, mem, FALSE)
   ELSE Out(space, Given(buf, Run("mem", addr, size), n), TRUE)}

(* copy_to_user and copy_from_user stop at the first cell that faults.     *)
ch36x_mem_read_block(addr, buf, size) ==
  LET n == Least(size, Reach(buf)) IN
  {IF size > MemRange THEN Out(space, mem, FALSE)
   ELSE Out(space, Given(buf, Run("mem", addr, size), n), n = size)}

ch36x_mem_write_block(addr, buf, size) ==
  LET n == Least(size, Reach(buf)) IN
  {IF size > MemRange THEN Out(space, mem, FALSE)
   ELSE Out(Stored("mem", addr, [i \in 0 .. n - 1 |-> mem[buf + i]], n), mem, n = size)}

(* What put_user and get_user return for each byte is not looked at.       *)
ch36x_io_read_block(addr, buf, size) ==
  {IF size > IoRange THEN Out(space, mem, FALSE)
   ELSE Out(space, Given(buf, Run("io", addr, size), Least(size, Reach(buf))), TRUE)}

ch36x_io_write_block(addr, buf, size) ==
  {IF size > IoRange THEN Out(space, mem, FALSE)
   ELSE Out(Stored("io", addr,
                   [i \in 0 .. size - 1 |-> IF i < Reach(buf) THEN mem[buf + i] ELSE ZeroByte],
                   size),
            mem, TRUE)}

--------------------------------------------------------------------------------
(* ch36x_fops_ioctl_do: the op, space and length of c are the command.     *)
IsBlock(c) == c.op \in {"read_block", "write_block"}

ioctl_config(c, v) ==
  IF c.op = "read" THEN ch36x_cfg_read(c.len, c.at, c.buf) ELSE ch36x_cfg_write(c.len, c.at, v)
ioctl_io(c, v) ==
  IF c.op = "read" THEN ch36x_io_read(c.len, c.at, c.buf) ELSE ch36x_io_write(c.len, c.at, v)
ioctl_mem(c, v) ==
  IF c.op = "read" THEN ch36x_mem_read(c.len, c.at, c.buf) ELSE ch36x_mem_write(c.len, c.at, v)
ioctl_block(c) ==
  CASE c.op = "read_block" /\ c.space = "mem"  -> ch36x_mem_read_block(c.at, c.buf, c.len)
    [] c.op = "write_block" /\ c.space = "mem" -> ch36x_mem_write_block(c.at, c.buf, c.len)
    [] c.op = "read_block" /\ c.space = "io"   -> ch36x_io_read_block(c.at, c.buf, c.len)
    [] OTHER                                   -> ch36x_io_write_block(c.at, c.buf, c.len)

(* The version is copied without the zero byte that ends it; a base        *)
(* address and the interrupt line are put as a long.                       *)
ioctl_info(c) ==
  LET n == Least(c.len, Reach(c.buf)) IN
  {IF IsBlock(c) THEN Out(space, Given(c.buf, Run("info", c.at, c.len), n), n = c.len)
   ELSE PutUser(Run("info", c.at, Long), Long, c.buf)}

ch36x_fops_ioctl(c, v) ==
  IF IsBlock(c) /\ c.space # "info" THEN ioctl_block(c)
  ELSE CASE c.space = "info"   -> ioctl_info(c)
         [] c.space = "config" -> ioctl_config(c, v)
         [] c.space = "io"     -> ioctl_io(c, v)
         [] OTHER              -> ioctl_mem(c, v)

(* Any error reaches the caller as -1 from ioctl(2), and as c.err from the *)
(* library.                                                                *)
Ask(c, v) ==
  /\ calls < MaxCalls /\ calls' = calls + 1 /\ call' = c
  /\ \E o \in ch36x_fops_ioctl(c, v) :
       /\ space' = o.space /\ mem' = o.mem
       /\ result' = IF o.ok THEN "true" ELSE c.err

Cmd(op, s, n, at, buf, err) ==
  [op |-> op, space |-> s, len |-> n, at |-> at, buf |-> buf, err |-> err]
Reads(s, n, at, buf) == Ask(Cmd("read", s, n, at, buf, "false"), Arg)
Writes(s, n, at, v)  == Ask(Cmd("write", s, n, at, 0, "false"), v)

--------------------------------------------------------------------------------
(* The library.                                                            *)
CH36xGetDrvVer(buf)      == Ask(Cmd("read_block", "info", VerLen, 0, buf, "false"), Arg)
CH36xGetIoBaseAddr(buf)  == Reads("info", Long, 1, buf)
CH36xGetMemBaseAddr(buf) == Reads("info", Long, 2, buf)
CH36xGetIntLine(buf)     == Reads("info", Long, 3, buf)
CH36xSetIntLine(v)       == Writes("config", 1, IntLine, v)

CH36xReadConfig(off, buf)      == Reads("config", 1, off, buf)
CH36xReadConfigWord(off, buf)  == Reads("config", 2, off, buf)
CH36xReadConfigDword(off, buf) == Reads("config", 4, off, buf)
CH36xWriteConfig(off, v)       == Writes("config", 1, off, v)
CH36xWriteConfigWord(off, v)   == Writes("config", 2, off, v)
CH36xWriteConfigDword(off, v)  == Writes("config", 4, off, v)

CH36xReadIoByte(addr, buf)   == Reads("io", 1, addr, buf)
CH36xReadIoWord(addr, buf)   == Reads("io", 2, addr, buf)
CH36xReadIoDword(addr, buf)  == Reads("io", 4, addr, buf)
CH36xWriteIoByte(addr, v)    == Writes("io", 1, addr, v)
CH36xWriteIoWord(addr, v)    == Writes("io", 2, addr, v)
CH36xWriteIoDword(addr, v)   == Writes("io", 4, addr, v)

CH36xReadMemByte(addr, buf)  == Reads("mem", 1, addr, buf)
CH36xReadMemWord(addr, buf)  == Reads("mem", 2, addr, buf)
CH36xReadMemDword(addr, buf) == Reads("mem", 4, addr, buf)
CH36xWriteMemByte(addr, v)   == Writes("mem", 1, addr, v)
CH36xWriteMemWord(addr, v)   == Writes("mem", 2, addr, v)
CH36xWriteMemDword(addr, v)  == Writes("mem", 4, addr, v)

(* The io blocks return -1, not false, when they fail.                     *)
CH36xReadMemBlock(addr, buf, n)  == Ask(Cmd("read_block", "mem", n, addr, buf, "false"), Arg)
CH36xWriteMemBlock(addr, buf, n) == Ask(Cmd("write_block", "mem", n, addr, buf, "false"), Arg)
CH36xReadIoBlock(addr, buf, n)   == Ask(Cmd("read_block", "io", n, addr, buf, "-1"), Arg)
CH36xWriteIoBlock(addr, buf, n)  == Ask(Cmd("write_block", "io", n, addr, buf, "-1"), Arg)

ConfigCall(off, buf) ==
  \/ CH36xReadConfig(off, buf) \/ CH36xReadConfigWord(off, buf) \/ CH36xReadConfigDword(off, buf)
  \/ CH36xWriteConfig(off, Arg) \/ CH36xWriteConfigWord(off, Arg) \/ CH36xWriteConfigDword(off, Arg)

IoCall(addr, buf) ==
  \/ CH36xReadIoByte(addr, buf) \/ CH36xReadIoWord(addr, buf) \/ CH36xReadIoDword(addr, buf)
  \/ CH36xWriteIoByte(addr, Arg) \/ CH36xWriteIoWord(addr, Arg) \/ CH36xWriteIoDword(addr, Arg)
  \/ \E n \in 0 .. IoRange + 1 : CH36xReadIoBlock(addr, buf, n) \/ CH36xWriteIoBlock(addr, buf, n)

MemCall(addr, buf) ==
  \/ CH36xReadMemByte(addr, buf) \/ CH36xReadMemWord(addr, buf) \/ CH36xReadMemDword(addr, buf)
  \/ CH36xWriteMemByte(addr, Arg) \/ CH36xWriteMemWord(addr, Arg) \/ CH36xWriteMemDword(addr, Arg)
  \/ \E n \in 0 .. MemRange + 1 : CH36xReadMemBlock(addr, buf, n) \/ CH36xWriteMemBlock(addr, buf, n)

InfoCall(buf) ==
  \/ CH36xGetDrvVer(buf) \/ CH36xGetIoBaseAddr(buf) \/ CH36xGetMemBaseAddr(buf)
  \/ CH36xGetIntLine(buf) \/ CH36xSetIntLine(Arg)

(* A caller of the ioctls themselves whose struct ends where his memory    *)
(* does: the address can be read, the value cannot.                        *)
BareWrite(s, n, at) == Writes(s, n, at, Fault)

RegsNext ==
  \E buf \in Buffers :
    \/ \E off \in 0 .. CfgSize + 1 : ConfigCall(off, buf)
    \/ \E addr \in 0 .. IoRange : IoCall(addr, buf)
    \/ \E addr \in 0 .. MemRange : MemCall(addr, buf)
    \/ InfoCall(buf)
    \/ \E s \in {"config", "io", "mem"}, n \in {1, 2, 4} : BareWrite(s, n, 0)

RegsSpec == RegsInit /\ [][RegsNext]_regVars

--------------------------------------------------------------------------------
RegsTypeOK ==
  /\ DOMAIN space = Spaces /\ \A s \in Spaces : DOMAIN space[s] = Cells(s)
  /\ DOMAIN mem = Memory
  /\ call.op \in {"none", "read", "write", "read_block", "write_block"}
  /\ result \in {"true", "false", "-1"} /\ calls \in 0 .. MaxCalls

(* The calls whose word cannot be trusted: a config access past offset 255 *)
(* or not aligned goes elsewhere or nowhere, and an io block ignores the   *)
(* memory it could not access.                                             *)
Unreliable(c) ==
  \/ c.space = "config" /\ ~(c.at < CfgSize /\ Aligned(c.at, c.len))
  \/ c.space = "io" /\ IsBlock(c) /\ c.len > Reach(c.buf)

(* What a call that returns true has done, if its word can be trusted: all *)
(* that was asked for has been moved, from or to the right place, and a    *)
(* write has changed nothing else.  No read, failed or not, changes a      *)
(* register, and no write the memory.                                      *)
MovesAsAsked(c) ==
  LET ok == result' = "true" /\ ~Unreliable(c) IN
  /\ c.op \in {"read", "read_block"} => space' = space
  /\ c.op \in {"read", "read_block"} /\ ok =>
       \A i \in 0 .. c.len - 1 : mem'[c.buf + i] = space[c.space][c.at + i]
  /\ c.op = "write" /\ ok => space' = Stored(c.space, c.at, Arg, c.len)
  /\ c.op = "write_block" /\ ok =>
       space' = Stored(c.space, c.at, [i \in 0 .. c.len - 1 |-> mem[c.buf + i]], c.len)
  /\ c.op \in {"write", "write_block"} => mem' = mem

(* The library tells its caller the truth: every call but the unreliable   *)
(* ones that returns true has done what was asked; a block of which a part *)
(* is missing has failed.                                                  *)
SuccessMeansDone == [][calls' # calls => MovesAsAsked(call')]_regVars
===============================================================================
