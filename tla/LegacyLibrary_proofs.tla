--------------------------- MODULE LegacyLibrary_proofs ---------------------------
(***************************************************************************)
(* Proofs about the older driver's users: register access through the      *)
(* library, for any sizes of the windows and of the caller's memory, and   *)
(* the console demo, for any number of nodes.                              *)
(***************************************************************************)
EXTENDS MCLegacy, LegacyDriver_proofs

-----------------------------------------------------------------------------
(* Register access *)

\* What the library and its bare callers ask the driver.
Command(c) ==
  /\ c \in [op : {"read", "write", "read_block", "write_block"}, space : Spaces, len : Nat,
            at : Nat, buf : Memory, err : {"false", "-1"}]
  /\ ~IsBlock(c) => c.len <= Long
  /\ c.space = "config" => ~IsBlock(c)
  /\ c.space = "info" => c.op \in {"read", "read_block"}

Passes(c, v) == v = Arg \/ (v = Fault /\ c.op = "write")

\* A value that could be read is not the one that could not.
LEMMA ArgIsNoFault == Arg # Fault
<1>1. 0 \in DOMAIN Arg
  BY LegacyRegsAssumption DEF Arg
<1>2. 0 \notin DOMAIN Fault
  BY DEF Fault
<1> QED BY <1>1, <1>2

\* The offsets that fit an unsigned char are themselves.
LEMMA OffsetFits == ASSUME NEW off \in Nat, off < CfgSize PROVE Offset(off) = off
BY LegacyRegsAssumption DEF Offset

\* A long put through the caller's pointer brings the bytes it is made of.
LEMMA PutUserGives ==
  ASSUME NEW s, NEW at \in Nat, NEW w \in Nat, w <= Long, NEW buf \in Memory
  PROVE  LET o == PutUser(Run(s, at, w), w, buf) IN
         /\ o.space = space
         /\ o.ok => \A i \in 0 .. w - 1 : o.mem[buf + i] = space[s][at + i]
<1> DEFINE o == PutUser(Run(s, at, w), w, buf)
           val == [i \in 0 .. Long - 1 |-> IF i < w THEN Run(s, at, w)[i] ELSE ZeroByte]
<1>1. CASE buf + Long <= Limit
  <2>1. o = Out(space, Given(buf, val, Long), TRUE)
    BY <1>1 DEF PutUser
  <2>2. ASSUME NEW i \in 0 .. w - 1
        PROVE  Given(buf, val, Long)[buf + i] = space[s][at + i]
    <3>1. i \in 0 .. Long - 1 /\ buf + i \in Memory
          /\ buf + i \in buf .. buf + Long - 1 /\ (buf + i) - buf = i
      BY <1>1, LegacyRegsAssumption DEF Memory
    <3>2. val[i] = space[s][at + i]
      BY <3>1 DEF Run
    <3> HIDE DEF val
    <3> QED BY <3>1, <3>2 DEF Given
  <2> HIDE DEF o, val
  <2>3. o.space = space /\ \A i \in 0 .. w - 1 : o.mem[buf + i] = space[s][at + i]
    BY <2>1, <2>2 DEF Out
  <2> QED BY <2>3 DEF o
<1>2. CASE ~(buf + Long <= Limit)
  BY <1>2 DEF PutUser, Out
<1> QED BY <1>1, <1>2

\* A block that is copied whole brings the bytes it is made of.
LEMMA GivenWhole ==
  ASSUME NEW s, NEW at \in Nat, NEW n \in Nat, NEW buf \in Memory, n <= Reach(buf),
         NEW i \in 0 .. n - 1
  PROVE  Given(buf, Run(s, at, n), n)[buf + i] = space[s][at + i]
<1>1. buf + i \in Memory /\ buf + i \in buf .. buf + n - 1 /\ (buf + i) - buf = i
  BY LegacyRegsAssumption DEF Reach, Memory
<1> QED BY <1>1 DEF Given, Run

\* A read that succeeds, and can be trusted, has brought the bytes of the register.
LEMMA ReadMoves ==
  ASSUME NEW c, Command(c), c.op = "read", NEW v, NEW o \in ch36x_fops_ioctl(c, v)
  PROVE  /\ o.space = space
         /\ o.ok /\ ~Unreliable(c) =>
              \A i \in 0 .. c.len - 1 : o.mem[c.buf + i] = space[c.space][c.at + i]
<1>1. /\ ~IsBlock(c) /\ c.at \in Nat /\ c.buf \in Memory /\ c.space \in Spaces
      /\ c.len \in Nat /\ c.len <= Long /\ Long \in Nat /\ Long <= Long
  BY LegacyRegsAssumption DEF IsBlock, Command
<1> DEFINE at == c.at  buf == c.buf
<1>2. ASSUME NEW s, NEW w \in Nat, w <= Long, o = PutUser(Run(s, at, w), w, buf)
      PROVE  /\ o.space = space
             /\ o.ok => \A i \in 0 .. w - 1 : o.mem[buf + i] = space[s][at + i]
  <2>1. at \in Nat /\ buf \in Memory
    BY <1>1
  <2> HIDE DEF at, buf
  <2> QED BY <1>2, <2>1, PutUserGives
<1>3. CASE c.space = "info"
  <2>1. o = PutUser(Run("info", at, Long), Long, buf)
    BY <1>1, <1>3 DEF ch36x_fops_ioctl, ioctl_info
  <2>2. /\ o.space = space
        /\ o.ok => \A i \in 0 .. Long - 1 : o.mem[buf + i] = space["info"][at + i]
    <3> HIDE DEF at, buf
    <3> QED BY <1>1, <1>2, <2>1
  <2>3. 0 .. c.len - 1 \subseteq 0 .. Long - 1
    BY <1>1
  <2> QED BY <1>3, <2>2, <2>3
<1>4. CASE c.space \in {"io", "mem"}
  <2>1. o = PutUser(Run(c.space, at, c.len), c.len, buf)
    BY <1>1, <1>4 DEF ch36x_fops_ioctl, ioctl_io, ioctl_mem, ch36x_io_read, ch36x_mem_read
  <2>2. /\ o.space = space
        /\ o.ok => \A i \in 0 .. c.len - 1 : o.mem[buf + i] = space[c.space][at + i]
    <3> HIDE DEF at, buf
    <3> QED BY <1>1, <1>2, <2>1
  <2> QED BY <2>2
<1>5. CASE c.space = "config"
  <2>1. o \in ch36x_cfg_read(c.len, at, buf)
    BY <1>1, <1>5 DEF ch36x_fops_ioctl, ioctl_config
  <2>2. o.space = space
    BY <2>1 DEF ch36x_cfg_read, PutUser, Out
  <2>3. CASE ~Unreliable(c)
    <3>1. at < CfgSize /\ Aligned(at, c.len) /\ Offset(at) = at
      BY <1>1, <1>5, <2>3, OffsetFits DEF Unreliable
    <3>2. o = PutUser(Run("config", at, c.len), c.len, buf)
      BY <2>1, <3>1 DEF ch36x_cfg_read
    <3>3. o.ok => \A i \in 0 .. c.len - 1 : o.mem[buf + i] = space["config"][at + i]
      <4> HIDE DEF at, buf
      <4> QED BY <1>1, <1>2, <3>2
    <3> QED BY <1>5, <2>2, <3>3
  <2> QED BY <2>2, <2>3
<1> QED BY <1>1, <1>3, <1>4, <1>5 DEF Spaces

\* A write that succeeds, and can be trusted, has stored the value and nothing else.
LEMMA WriteMoves ==
  ASSUME NEW c, Command(c), c.op = "write", NEW v, Passes(c, v), NEW o \in ch36x_fops_ioctl(c, v)
  PROVE  /\ o.mem = mem
         /\ o.ok /\ ~Unreliable(c) => o.space = Stored(c.space, c.at, Arg, c.len)
<1>1. ~IsBlock(c) /\ c.len \in 0 .. Long /\ c.at \in Nat /\ c.space \in {"config", "io", "mem"}
  BY DEF IsBlock, Command, Spaces
<1>2. v # Fault => v = Arg /\ Value(v, c.len) = Arg
  BY DEF Passes, Value
<1>3. CASE c.space \in {"io", "mem"}
  <2>1. o = Out(Stored(c.space, c.at, Value(v, c.len), c.len), mem, v # Fault)
    BY <1>1, <1>3 DEF ch36x_fops_ioctl, ioctl_io, ioctl_mem, ch36x_io_write, ch36x_mem_write
  <2> QED BY <1>2, <2>1 DEF Out
<1>4. CASE c.space = "config"
  <2>1. o = Out(IF Aligned(c.at, c.len) THEN Stored("config", Offset(c.at), Value(v, c.len), c.len)
                ELSE space, mem, v # Fault)
    BY <1>1, <1>4 DEF ch36x_fops_ioctl, ioctl_config, ch36x_cfg_write
  <2>2. o.mem = mem
    BY <2>1 DEF Out
  <2>3. CASE o.ok /\ ~Unreliable(c)
    <3>1. c.at < CfgSize /\ Aligned(c.at, c.len) /\ Offset(c.at) = c.at
      BY <1>1, <1>4, <2>3, OffsetFits DEF Unreliable
    <3>2. v # Fault
      <4>1. o.ok = (v # Fault)
        BY <2>1 DEF Out
      <4> QED BY <2>3, <4>1, Zenon
    <3> QED BY <1>2, <1>4, <2>1, <2>2, <3>1, <3>2 DEF Out
  <2> QED BY <2>2, <2>3
<1> QED BY <1>1, <1>3, <1>4

\* A block read that succeeds, and can be trusted, has brought all its bytes.
LEMMA ReadBlockMoves ==
  ASSUME NEW c, Command(c), c.op = "read_block", NEW v, NEW o \in ch36x_fops_ioctl(c, v)
  PROVE  /\ o.space = space
         /\ o.ok /\ ~Unreliable(c) =>
              \A i \in 0 .. c.len - 1 : o.mem[c.buf + i] = space[c.space][c.at + i]
<1> DEFINE n == Least(c.len, Reach(c.buf))
<1>1. /\ IsBlock(c) /\ c.len \in Nat /\ c.at \in Nat /\ c.buf \in Memory
      /\ c.space \in {"io", "mem", "info"}
  BY DEF IsBlock, Command, Spaces
<1>2. Reach(c.buf) \in Nat
  BY <1>1, LegacyRegsAssumption DEF Reach, Memory
<1>3. o.space = space /\ (o.ok => o.mem = Given(c.buf, Run(c.space, c.at, c.len), n))
  <2>1. CASE c.space = "info"
    BY <1>1, <2>1 DEF ch36x_fops_ioctl, ioctl_info, Out
  <2>2. CASE c.space = "mem"
    BY <1>1, <2>2 DEF ch36x_fops_ioctl, ioctl_block, ch36x_mem_read_block, Out
  <2>3. CASE c.space = "io"
    BY <1>1, <2>3 DEF ch36x_fops_ioctl, ioctl_block, ch36x_io_read_block, Out
  <2> QED BY <1>1, <2>1, <2>2, <2>3
<1>4. o.ok /\ ~Unreliable(c) => c.len <= Reach(c.buf)
  <2>1. CASE c.space = "info"
    <3>1. o.ok = (n = c.len)
      BY <1>1, <2>1 DEF ch36x_fops_ioctl, ioctl_info, Out
    <3>2. o.ok => n = c.len
      BY <3>1, Zenon
    <3> QED BY <1>1, <1>2, <3>2 DEF Least
  <2>2. CASE c.space = "mem"
    <3>1. o \in ch36x_mem_read_block(c.at, c.buf, c.len)
      BY <1>1, <2>2 DEF ch36x_fops_ioctl, ioctl_block
    <3>2. o.ok => n = c.len
      <4>1. o.ok = FALSE \/ o.ok = (n = c.len)
        BY <3>1 DEF ch36x_mem_read_block, Out
      <4> QED BY <4>1, Zenon
    <3> QED BY <1>1, <1>2, <3>2 DEF Least
  <2>3. CASE c.space = "io"
    BY <1>1, <1>2, <2>3 DEF Unreliable
  <2> QED BY <1>1, <2>1, <2>2, <2>3
<1>5. c.len <= Reach(c.buf) => n = c.len
  BY <1>1, <1>2 DEF Least
<1> HIDE DEF n
<1>6. o.ok /\ ~Unreliable(c) => o.mem = Given(c.buf, Run(c.space, c.at, c.len), c.len)
  BY <1>3, <1>4, <1>5
<1>7. c.len <= Reach(c.buf) => \A i \in 0 .. c.len - 1 :
        Given(c.buf, Run(c.space, c.at, c.len), c.len)[c.buf + i] = space[c.space][c.at + i]
  BY <1>1, GivenWhole
<1> QED BY <1>3, <1>4, <1>6, <1>7

\* A block write that succeeds, and can be trusted, has stored all its bytes and no other.
LEMMA WriteBlockMoves ==
  ASSUME NEW c, Command(c), c.op = "write_block", NEW v, NEW o \in ch36x_fops_ioctl(c, v)
  PROVE  /\ o.mem = mem
         /\ o.ok /\ ~Unreliable(c) =>
              o.space = Stored(c.space, c.at, [i \in 0 .. c.len - 1 |-> mem[c.buf + i]], c.len)
<1>1. IsBlock(c) /\ c.len \in Nat /\ c.at \in Nat /\ c.buf \in Memory /\ c.space \in {"io", "mem"}
  BY DEF IsBlock, Command, Spaces
<1>2. Reach(c.buf) \in Nat
  BY <1>1, LegacyRegsAssumption DEF Reach, Memory
<1>3. CASE c.space = "mem"
  <2>1. o \in ch36x_mem_write_block(c.at, c.buf, c.len)
    BY <1>1, <1>3 DEF ch36x_fops_ioctl, ioctl_block
  <2>2. o.mem = mem
    BY <2>1 DEF ch36x_mem_write_block, Out
  <2>3. o.ok => Least(c.len, Reach(c.buf)) = c.len
    <3>1. o.ok = FALSE \/ o.ok = (Least(c.len, Reach(c.buf)) = c.len)
      BY <2>1 DEF ch36x_mem_write_block, Out
    <3> QED BY <3>1, Zenon
  <2>4. o.ok => o.space = Stored("mem", c.at, [i \in 0 .. c.len - 1 |-> mem[c.buf + i]], c.len)
    <3> DEFINE n == Least(c.len, Reach(c.buf))
    <3>1. o.ok = FALSE \/ o.space = Stored("mem", c.at, [i \in 0 .. n - 1 |-> mem[c.buf + i]], n)
      BY <2>1 DEF ch36x_mem_write_block, Out
    <3>2. o.ok => n = c.len
      BY <2>3
    <3> HIDE DEF n
    <3> QED BY <3>1, <3>2
  <2> QED BY <1>3, <2>2, <2>4
<1>4. CASE c.space = "io"
  <2>1. o \in ch36x_io_write_block(c.at, c.buf, c.len)
    BY <1>1, <1>4 DEF ch36x_fops_ioctl, ioctl_block
  <2>2. o.mem = mem
    BY <2>1 DEF ch36x_io_write_block, Out
  <2>3. CASE ~Unreliable(c)
    <3> DEFINE sent == [i \in 0 .. c.len - 1 |-> IF i < Reach(c.buf) THEN mem[c.buf + i] ELSE ZeroByte]
    <3>1. c.len <= Reach(c.buf)
      BY <1>1, <1>2, <1>4, <2>3 DEF Unreliable
    <3>2. sent = [i \in 0 .. c.len - 1 |-> mem[c.buf + i]]
      BY <1>1, <1>2, <3>1
    <3>3. o.ok => o.space = Stored("io", c.at, sent, c.len)
      BY <2>1 DEF ch36x_io_write_block, Out
    <3> HIDE DEF sent
    <3> QED BY <1>4, <2>2, <3>2, <3>3
  <2> QED BY <2>2, <2>3
<1> QED BY <1>1, <1>3, <1>4

\* Whatever the library is asked for, what it says is true.
LEMMA AskMoves ==
  ASSUME NEW c, Command(c), NEW v, Passes(c, v), Ask(c, v)
  PROVE  MovesAsAsked(c)
<1>1. PICK o \in ch36x_fops_ioctl(c, v) :
        space' = o.space /\ mem' = o.mem /\ result' = IF o.ok THEN "true" ELSE c.err
  BY DEF Ask
<1>2. result' = "true" => o.ok
  BY <1>1 DEF Command
<1>3. c.op \in {"read", "write", "read_block", "write_block"}
  BY DEF Command
<1>4. CASE c.op = "read"
  BY <1>1, <1>2, <1>4, ReadMoves DEF MovesAsAsked
<1>5. CASE c.op = "write"
  BY <1>1, <1>2, <1>5, WriteMoves DEF MovesAsAsked
<1>6. CASE c.op = "read_block"
  BY <1>1, <1>2, <1>6, ReadBlockMoves DEF MovesAsAsked
<1>7. CASE c.op = "write_block"
  BY <1>1, <1>2, <1>7, WriteBlockMoves DEF MovesAsAsked
<1> QED BY <1>3, <1>4, <1>5, <1>6, <1>7
\* Every call of the library, and every bare write, is such a command.
Asked == \E c, v : Command(c) /\ Passes(c, v) /\ Ask(c, v)

LEMMA ReadsAsk ==
  ASSUME NEW s \in {"config", "io", "mem"}, NEW n \in {1, 2, 4}, NEW at \in Nat,
         NEW buf \in Memory, Reads(s, n, at, buf)
  PROVE  Asked
<1>1. Command(Cmd("read", s, n, at, buf, "false"))
  BY LegacyRegsAssumption DEF Command, Cmd, IsBlock, Spaces
<1> QED BY <1>1 DEF Reads, Asked, Passes

LEMMA InfoAsk ==
  ASSUME NEW at \in Nat, NEW buf \in Memory,
         \/ Reads("info", Long, at, buf)
         \/ Ask(Cmd("read_block", "info", VerLen, at, buf, "false"), Arg)
  PROVE  Asked
<1>1. /\ Command(Cmd("read", "info", Long, at, buf, "false"))
      /\ Command(Cmd("read_block", "info", VerLen, at, buf, "false"))
  BY LegacyRegsAssumption DEF Command, Cmd, IsBlock, Spaces
<1> QED BY <1>1 DEF Reads, Asked, Passes

LEMMA WritesAsk ==
  ASSUME NEW s \in {"config", "io", "mem"}, NEW n \in {1, 2, 4}, NEW at \in Nat,
         NEW v \in {Arg, Fault}, Writes(s, n, at, v)
  PROVE  Asked
<1>1. 0 \in Memory
  BY LegacyRegsAssumption DEF Memory
<1>2. Command(Cmd("write", s, n, at, 0, "false"))
  BY <1>1, LegacyRegsAssumption DEF Command, Cmd, IsBlock, Spaces
<1>3. Passes(Cmd("write", s, n, at, 0, "false"), v)
  BY DEF Passes, Cmd
<1> QED BY <1>2, <1>3 DEF Writes, Asked

LEMMA BlocksAsk ==
  ASSUME NEW op \in {"read_block", "write_block"}, NEW s \in {"io", "mem"}, NEW n \in Nat,
         NEW at \in Nat, NEW buf \in Memory, NEW err \in {"false", "-1"},
         Ask(Cmd(op, s, n, at, buf, err), Arg)
  PROVE  Asked
<1>1. Command(Cmd(op, s, n, at, buf, err))
  BY DEF Command, Cmd, IsBlock, Spaces
<1> QED BY <1>1 DEF Asked, Passes

LEMMA NextAsks == ASSUME RegsNext PROVE Asked
<1>1. PICK buf \in Buffers :
        \/ \E off \in 0 .. CfgSize + 1 : ConfigCall(off, buf)
        \/ \E addr \in 0 .. IoRange : IoCall(addr, buf)
        \/ \E addr \in 0 .. MemRange : MemCall(addr, buf)
        \/ InfoCall(buf)
        \/ \E s \in {"config", "io", "mem"}, n \in {1, 2, 4} : BareWrite(s, n, 0)
  BY DEF RegsNext
<1>2. buf \in Memory
  BY LegacyRegsAssumption DEF Memory
<1>3. ASSUME NEW off \in 0 .. CfgSize + 1, ConfigCall(off, buf) PROVE Asked
  <2>1. off \in Nat
    BY LegacyRegsAssumption
  <2>2. \E n \in {1, 2, 4} : Reads("config", n, off, buf) \/ Writes("config", n, off, Arg)
    BY <1>3 DEF ConfigCall, CH36xReadConfig, CH36xReadConfigWord, CH36xReadConfigDword,
                CH36xWriteConfig, CH36xWriteConfigWord, CH36xWriteConfigDword
  <2> QED BY <1>2, <2>1, <2>2, ReadsAsk, WritesAsk
<1>4. ASSUME NEW addr \in 0 .. IoRange, IoCall(addr, buf) PROVE Asked
  <2>1. addr \in Nat /\ \A n \in 0 .. IoRange + 1 : n \in Nat
    BY LegacyRegsAssumption
  <2>2. \/ \E n \in {1, 2, 4} : Reads("io", n, addr, buf) \/ Writes("io", n, addr, Arg)
        \/ \E n \in 0 .. IoRange + 1, op \in {"read_block", "write_block"} :
             Ask(Cmd(op, "io", n, addr, buf, "-1"), Arg)
    BY <1>4 DEF IoCall, CH36xReadIoByte, CH36xReadIoWord, CH36xReadIoDword, CH36xWriteIoByte,
                CH36xWriteIoWord, CH36xWriteIoDword, CH36xReadIoBlock, CH36xWriteIoBlock
  <2> QED BY <1>2, <2>1, <2>2, ReadsAsk, WritesAsk, BlocksAsk
<1>5. ASSUME NEW addr \in 0 .. MemRange, MemCall(addr, buf) PROVE Asked
  <2>1. addr \in Nat /\ \A n \in 0 .. MemRange + 1 : n \in Nat
    BY LegacyRegsAssumption
  <2>2. \/ \E n \in {1, 2, 4} : Reads("mem", n, addr, buf) \/ Writes("mem", n, addr, Arg)
        \/ \E n \in 0 .. MemRange + 1, op \in {"read_block", "write_block"} :
             Ask(Cmd(op, "mem", n, addr, buf, "false"), Arg)
    BY <1>5 DEF MemCall, CH36xReadMemByte, CH36xReadMemWord, CH36xReadMemDword, CH36xWriteMemByte,
                CH36xWriteMemWord, CH36xWriteMemDword, CH36xReadMemBlock, CH36xWriteMemBlock
  <2> QED BY <1>2, <2>1, <2>2, ReadsAsk, WritesAsk, BlocksAsk
<1>6. ASSUME InfoCall(buf) PROVE Asked
  <2>1. IntLine \in Nat
    BY LegacyRegsAssumption
  <2>2. \/ Ask(Cmd("read_block", "info", VerLen, 0, buf, "false"), Arg)
        \/ \E at \in {1, 2, 3} : Reads("info", Long, at, buf)
        \/ Writes("config", 1, IntLine, Arg)
    BY <1>6 DEF InfoCall, CH36xGetDrvVer, CH36xGetIoBaseAddr, CH36xGetMemBaseAddr,
                CH36xGetIntLine, CH36xSetIntLine
  <2> QED BY <1>2, <2>1, <2>2, InfoAsk, WritesAsk
<1>7. ASSUME NEW s \in {"config", "io", "mem"}, NEW n \in {1, 2, 4}, BareWrite(s, n, 0) PROVE Asked
  BY <1>7, WritesAsk DEF BareWrite
<1> QED BY <1>1, <1>3, <1>4, <1>5, <1>6, <1>7

\* For any sizes of the windows, of the caller's memory and of what he may access of it:
\* when the library says that a call has succeeded, and it is not one of the two kinds whose
\* word cannot be trusted, then all that was asked for has been moved and nothing else.
THEOREM LegacySuccessMeansDone == RegsSpec => SuccessMeansDone
<1>1. [RegsNext]_regVars => [calls' # calls => MovesAsAsked(call')]_regVars
  <2>1. ASSUME Asked PROVE MovesAsAsked(call')
    <3>1. PICK c, v : Command(c) /\ Passes(c, v) /\ Ask(c, v)
      BY <2>1 DEF Asked
    <3>2. call' = c
      BY <3>1 DEF Ask
    <3>3. MovesAsAsked(c)
      BY <3>1, AskMoves
    <3> QED BY <3>2, <3>3
  <2> QED BY <2>1, NextAsks
<1> QED BY <1>1, PTL DEF RegsSpec, SuccessMeansDone

\* Registers and memory keep their cells, whatever a driver function stores in them.
Shaped(s, m) == /\ DOMAIN s = Spaces /\ \A t \in Spaces : DOMAIN s[t] = Cells(t)
                /\ DOMAIN m = Memory

LEMMA StoredShaped ==
  ASSUME Shaped(space, mem), NEW s \in Spaces, NEW at, NEW v, NEW n
  PROVE  Shaped(Stored(s, at, v, n), mem)
<1> DEFINE cells == [a \in Cells(s) |-> IF a \in at .. at + n - 1 THEN v[a - at] ELSE space[s][a]]
<1>1. Stored(s, at, v, n) = [space EXCEPT ![s] = cells]
  BY DEF Stored
<1>2. DOMAIN cells = Cells(s)
  OBVIOUS
<1> HIDE DEF cells
<1> QED BY <1>1, <1>2 DEF Shaped

LEMMA GivenShaped ==
  ASSUME Shaped(space, mem), NEW buf, NEW v, NEW n
  PROVE  Shaped(space, Given(buf, v, n))
BY DEF Shaped, Given

LEMMA PutShaped ==
  ASSUME Shaped(space, mem), NEW v, NEW w, NEW buf
  PROVE  Shaped(PutUser(v, w, buf).space, PutUser(v, w, buf).mem)
<1> DEFINE val == [i \in 0 .. Long - 1 |-> IF i < w THEN v[i] ELSE ZeroByte]
<1>1. \/ PutUser(v, w, buf) = Out(space, Given(buf, val, Long), TRUE)
      \/ PutUser(v, w, buf) = Out(space, mem, FALSE)
  BY DEF PutUser
<1> HIDE DEF val
<1> QED BY <1>1, GivenShaped DEF Out

LEMMA IoctlShaped ==
  ASSUME Shaped(space, mem), NEW c, NEW v, Command(c), NEW o \in ch36x_fops_ioctl(c, v)
  PROVE  Shaped(o.space, o.mem)
<1> DEFINE Stores(s) == \E at, b, n, ok : o = Out(Stored(s, at, b, n), mem, ok)
           Gives     == \E buf, b, n, ok : o = Out(space, Given(buf, b, n), ok)
           Puts      == \E b, w, buf : o = PutUser(b, w, buf)
           Refuses(s)  == \E ok : o = Out(s, mem, ok)
<1>1. ASSUME NEW s \in Spaces, Stores(s) PROVE Shaped(o.space, o.mem)
  BY <1>1, StoredShaped DEF Out
<1>2. ASSUME Gives PROVE Shaped(o.space, o.mem)
  BY <1>2, GivenShaped DEF Out
<1>3. ASSUME Puts PROVE Shaped(o.space, o.mem)
  BY <1>3, PutShaped
<1>4. ASSUME Refuses(space) PROVE Shaped(o.space, o.mem)
  BY <1>4 DEF Out
<1>5. Stores("config") \/ Stores("io") \/ Stores("mem") \/ Gives \/ Puts \/ Refuses(space)
  <2>1. CASE IsBlock(c) /\ c.space # "info"
    <3> DEFINE n == Least(c.len, Reach(c.buf))
    <3>1. o \in ioctl_block(c)
      BY <2>1 DEF ch36x_fops_ioctl
    <3>2. CASE c.op = "read_block" /\ c.space = "mem"
      <4>1. \/ o = Out(space, mem, FALSE)
            \/ o = Out(space, Given(c.buf, Run("mem", c.at, c.len), n), n = c.len)
        BY <3>1, <3>2 DEF ioctl_block, ch36x_mem_read_block
      <4> DEFINE ok == n = c.len
      <4>2. \/ o = Out(space, mem, FALSE)
            \/ o = Out(space, Given(c.buf, Run("mem", c.at, c.len), n), ok)
        BY <4>1
      <4> HIDE DEF ok, n
      <4> QED BY <4>2, Zenon
    <3>3. CASE c.op = "write_block" /\ c.space = "mem"
      <4>1. \/ o = Out(space, mem, FALSE)
            \/ o = Out(Stored("mem", c.at, [i \in 0 .. n - 1 |-> mem[c.buf + i]], n), mem, n = c.len)
        BY <3>1, <3>3 DEF ioctl_block, ch36x_mem_write_block
      <4> DEFINE ok == n = c.len  moved == [i \in 0 .. n - 1 |-> mem[c.buf + i]]
      <4>2. o = Out(space, mem, FALSE) \/ o = Out(Stored("mem", c.at, moved, n), mem, ok)
        BY <4>1
      <4> HIDE DEF ok, moved, n
      <4> QED BY <4>2, Zenon
    <3>4. CASE c.op = "read_block" /\ c.space = "io"
      <4>1. \/ o = Out(space, mem, FALSE)
            \/ o = Out(space, Given(c.buf, Run("io", c.at, c.len), n), TRUE)
        BY <3>1, <3>4 DEF ioctl_block, ch36x_io_read_block
      <4> QED BY <4>1
    <3>5. CASE c.op = "write_block" /\ c.space = "io"
      <4>1. \/ o = Out(space, mem, FALSE)
            \/ o = Out(Stored("io", c.at,
                 [i \in 0 .. c.len - 1 |-> IF i < Reach(c.buf) THEN mem[c.buf + i] ELSE ZeroByte],
                 c.len), mem, TRUE)
        BY <3>1, <3>5 DEF ioctl_block, ch36x_io_write_block
      <4> QED BY <4>1
    <3> QED BY <2>1, <3>2, <3>3, <3>4, <3>5 DEF Command, IsBlock, Spaces
  <2>2. CASE ~(IsBlock(c) /\ c.space # "info") /\ c.space = "info"
    BY <2>2 DEF ch36x_fops_ioctl, ioctl_info
  <2>3. CASE ~(IsBlock(c) /\ c.space # "info") /\ c.space = "config"
    BY <2>3 DEF ch36x_fops_ioctl, ioctl_config, ch36x_cfg_read, ch36x_cfg_write
  <2>4. CASE ~(IsBlock(c) /\ c.space # "info") /\ c.space = "io"
    BY <2>4 DEF ch36x_fops_ioctl, ioctl_io, ch36x_io_read, ch36x_io_write
  <2>5. CASE ~(IsBlock(c) /\ c.space # "info") /\ c.space = "mem"
    BY <2>5 DEF ch36x_fops_ioctl, ioctl_mem, ch36x_mem_read, ch36x_mem_write
  <2> QED BY <2>1, <2>2, <2>3, <2>4, <2>5 DEF Command, Spaces
<1> HIDE DEF Stores, Gives, Puts, Refuses
<1> QED BY <1>1, <1>2, <1>3, <1>4, <1>5 DEF Spaces

LEMMA RegsStart == RegsInit => RegsTypeOK
BY LegacyRegsAssumption DEF RegsInit, RegsTypeOK, NoCall, Spaces

LEMMA RegsTypeStep == RegsTypeOK /\ [RegsNext]_regVars => RegsTypeOK'
<1> SUFFICES ASSUME RegsTypeOK, [RegsNext]_regVars PROVE RegsTypeOK'
  OBVIOUS
<1>1. CASE UNCHANGED regVars
  BY <1>1 DEF regVars, RegsTypeOK
<1>2. CASE RegsNext
  <2>1. PICK c, v : Command(c) /\ Ask(c, v)
    BY <1>2, NextAsks DEF Asked
  <2>2. PICK o \in ch36x_fops_ioctl(c, v) :
          space' = o.space /\ mem' = o.mem /\ result' = IF o.ok THEN "true" ELSE c.err
    BY <2>1 DEF Ask
  <2>3. Shaped(o.space, o.mem)
    BY <2>1, IoctlShaped DEF RegsTypeOK, Shaped
  <2>4. call'.op \in {"read", "write", "read_block", "write_block"}
        /\ result' \in {"true", "false", "-1"}
    BY <2>1, <2>2 DEF Ask, Command
  <2>5. calls' \in 0 .. MaxCalls
    BY <2>1, LegacyRegsAssumption DEF Ask, RegsTypeOK
  <2> QED BY <2>2, <2>3, <2>4, <2>5 DEF RegsTypeOK, Shaped
<1> QED BY <1>1, <1>2

\* For any sizes: a call leaves every space with the registers it has and the caller's memory
\* with its cells, and the library returns true, false or -1.
THEOREM LegacyRegsTypeCorrect == RegsSpec => []RegsTypeOK
BY RegsStart, RegsTypeStep, PTL DEF RegsSpec

-----------------------------------------------------------------------------
(* Recursion over numbers, and remainders *)

LEMMA SetInduction ==
  ASSUME NEW S \in SUBSET Nat, 0 \in S, \A n \in S : n + 1 \in S
  PROVE  S = Nat
<1> DEFINE T == Nat \ S
<1> SUFFICES ASSUME T # {} PROVE FALSE
  OBVIOUS
<1>1. PICK x \in T : \A y \in T : <<y, x>> \notin OpToRel(<,Nat)
  BY NatLessThanWellFounded, WFMin
<1>2. x - 1 \in S /\ x # 0
  <2>1. x \in Nat \ {0}
   OBVIOUS
  <2>2. x - 1 \in Nat /\ x - 1 < x
   BY <2>1
  <2>3. <<x-1, x>> \in OpToRel(<,Nat)
   BY <2>1, <2>2 DEF OpToRel
  <2> QED BY <1>1, <2>1, <2>2, <2>3
<1> QED BY <1>2

LEMMA FiniteInduction ==
  ASSUME NEW n \in Nat, NEW S \in SUBSET (0 .. n), 0 \in S, \A i \in 1 .. n : i - 1 \in S => i \in S
  PROVE  S = 0 .. n
<1> DEFINE T == {k \in Nat : k <= n => k \in S}
<1>1. 0 \in T
  OBVIOUS
<1>2. ASSUME NEW k \in T PROVE k + 1 \in T
  <2>1. k \in Nat /\ k + 1 \in Nat /\ (k + 1 <= n => k + 1 \in 1 .. n /\ k <= n /\ (k + 1) - 1 = k)
    OBVIOUS
  <2> QED BY <2>1
<1> HIDE DEF T
<1>3. T = Nat
  <2>1. T \in SUBSET Nat
    BY DEF T
  <2> QED BY <1>1, <1>2, <2>1, SetInduction
<1>4. ASSUME NEW k \in 0 .. n PROVE k \in S
  <2>1. k \in T
    BY <1>3
  <2> QED BY <2>1 DEF T
<1> QED BY <1>4

LEMMA FiniteRecursion ==
  ASSUME NEW n \in Nat, NEW a \in Nat, NEW F \in [(1 .. n) \X Nat -> Nat]
  PROVE  \E g \in [0 .. n -> Nat] : g[0] = a /\ \A i \in 1 .. n : g[i] = F[<<i, g[i - 1]>>]
<1> DEFINE Upto(k, g) == g[0] = a /\ \A i \in 1 .. k : g[i] = F[<<i, g[i - 1]>>]
           S == {k \in Nat : k <= n => \E g \in [0 .. k -> Nat] : Upto(k, g)}
<1>1. 0 \in S
  <2>1. [i \in 0 .. 0 |-> a] \in [0 .. 0 -> Nat] /\ Upto(0, [i \in 0 .. 0 |-> a])
    OBVIOUS
  <2> QED BY <2>1
<1>2. ASSUME NEW k \in S PROVE k + 1 \in S
  <2> k \in Nat /\ k + 1 \in Nat
    OBVIOUS
  <2> SUFFICES ASSUME k + 1 <= n PROVE \E g \in [0 .. k + 1 -> Nat] : Upto(k + 1, g)
    BY Zenon
  <2>1. PICK g \in [0 .. k -> Nat] : Upto(k, g)
    OBVIOUS
  <2> DEFINE h == [i \in 0 .. k + 1 |-> IF i = k + 1 THEN F[<<k + 1, g[k]>>] ELSE g[i]]
  <2>2. g[k] \in Nat /\ <<k + 1, g[k]>> \in (1 .. n) \X Nat
    BY <2>1
  <2>3. h \in [0 .. k + 1 -> Nat]
    BY <2>1, <2>2
  <2>4. h[0] = a
    BY <2>1
  <2>5. ASSUME NEW i \in 1 .. k + 1 PROVE h[i] = F[<<i, h[i - 1]>>]
    <3>1. i - 1 \in 0 .. k /\ i - 1 # k + 1 /\ h[i - 1] = g[i - 1]
      OBVIOUS
    <3>2. CASE i = k + 1
      <4>1. i - 1 = k /\ h[i] = F[<<k + 1, g[k]>>]
        BY <3>2
      <4> HIDE DEF h
      <4> QED BY <3>1, <3>2, <4>1
    <3>3. CASE i # k + 1
      <4>1. i \in 1 .. k /\ h[i] = g[i]
        BY <3>3
      <4> HIDE DEF h
      <4> QED BY <2>1, <3>1, <4>1
    <3> QED BY <3>2, <3>3
  <2> HIDE DEF h
  <2>6. Upto(k + 1, h)
    BY <2>4, <2>5
  <2> QED BY <2>3, <2>6
<1> HIDE DEF S
<1>3. S = Nat
  <2>1. S \in SUBSET Nat
    BY DEF S
  <2> QED BY <1>1, <1>2, <2>1, SetInduction
<1>4. \E g \in [0 .. n -> Nat] : Upto(n, g)
  <2>1. n \in S
    BY <1>3
  <2> QED BY <2>1 DEF S
<1> QED BY <1>4

-----------------------------------------------------------------------------
LEMMA Remainder ==
  ASSUME NEW a \in Nat, NEW w \in Nat \ {0}
  PROVE  a % w \in 0 .. (w - 1) /\ a \div w \in Nat /\ a = (a \div w) * w + (a % w)
OBVIOUS

LEMMA RemainderUnique ==
  ASSUME NEW w \in Nat \ {0}, NEW q \in Int, NEW p \in Int,
         NEW r \in 0 .. (w - 1), NEW s \in 0 .. (w - 1), q * w + r = p * w + s
  PROVE  r = s
OBVIOUS

\* Multiples of w do not change a remainder.
LEMMA RemainderShift ==
  ASSUME NEW w \in Nat \ {0}, NEW a \in Nat, NEW b \in Nat, NEW q \in Nat, b = q * w + a
  PROVE  b % w = a % w
<1>1. /\ a % w \in 0 .. (w - 1) /\ a \div w \in Nat /\ a = (a \div w) * w + (a % w)
      /\ b % w \in 0 .. (w - 1) /\ b \div w \in Nat /\ b = (b \div w) * w + (b % w)
  BY Remainder
<1> DEFINE r == a % w  s == b % w  c == a \div w  d == b \div w
<1> HIDE DEF r, s, c, d
<1>2. r \in 0 .. (w - 1) /\ s \in 0 .. (w - 1) /\ c \in Nat /\ d \in Int
      /\ a = c * w + r /\ b = d * w + s
  BY <1>1 DEF r, s, c, d
<1> DEFINE e == q + c
<1>3. e * w = q * w + c * w /\ e \in Int
  BY <1>2
<1> HIDE DEF e
<1>4. e * w + r = d * w + s
  BY <1>2, <1>3
<1>5. \A n, k \in Int : \A x, y \in 0 .. (w - 1) : n * w + x = k * w + y => x = y
  BY RemainderUnique
<1>6. r = s
  BY <1>2, <1>3, <1>4, <1>5, Zenon
<1> QED BY <1>6 DEF r, s

\* A digit can be put behind a number before or after it is cut to a width.
LEMMA DigitAfterCut ==
  ASSUME NEW w \in Nat \ {0}, NEW a \in Nat, NEW d \in Nat
  PROVE  ((a % w) * 16 + d) % w = (a * 16 + d) % w
<1> DEFINE r == a % w  q == a \div w
<1>1. r \in Nat /\ q \in Nat /\ a = q * w + r
  BY Remainder
<1> HIDE DEF r, q
<1> DEFINE x == r * 16 + d  y == a * 16 + d  k == 16 * q
<1>2. y = k * w + x /\ x \in Nat /\ y \in Nat /\ k \in Nat
  BY <1>1
<1> HIDE DEF x, y, k
<1>3. y % w = x % w
  BY <1>2, RemainderShift
<1> QED BY <1>3 DEF r, x, y

LEMMA ProductNat == \A a, b, c \in Nat : a + b * c \in Nat
OBVIOUS

LEMMA HornerStep ==
  ASSUME NEW a \in Nat, NEW b \in Nat, NEW d \in Nat
  PROVE  (16 * a + d) * b = a * (16 * b) + d * b
OBVIOUS

-----------------------------------------------------------------------------
\* One character of a text: a digit is put behind the number, another sign is passed over.
Append16(v, c) == IF c \in HexDigit THEN 16 * v + c ELSE v

\* A step by step reading of a text, without a width.
Reading(h, str) == /\ h \in [0 .. Len(str) -> Nat] /\ h[0] = 0
                   /\ \A i \in 1 .. Len(str) : h[i] = Append16(h[i - 1], str[i])

\* What is put behind a number is a number.
LEMMA AppendType ==
  ASSUME NEW v \in Nat, NEW c \in Int
  PROVE  Append16(v, c) \in Nat
<1>1. CASE c \in HexDigit
  <2>1. c \in Nat
    BY <1>1 DEF HexDigit
  <2>2. 16 * v + c \in Nat
    BY <2>1
  <2> QED BY <1>1, <2>2 DEF Append16
<1>2. CASE c \notin HexDigit
  BY <1>2 DEF Append16
<1> QED BY <1>1, <1>2

LEMMA SomeReading ==
  ASSUME NEW str \in Seq(Int)
  PROVE  \E h : Reading(h, str)
<1> DEFINE n == Len(str)
           F == [p \in (1 .. n) \X Nat |-> Append16(p[2], str[p[1]])]
<1>1. n \in Nat /\ 0 \in Nat
  OBVIOUS
<1>2. F \in [(1 .. n) \X Nat -> Nat]
  <2>1. ASSUME NEW i \in 1 .. n, NEW v \in Nat PROVE Append16(v, str[i]) \in Nat
    <3>1. str[i] \in Int
      OBVIOUS
    <3> QED BY <3>1, AppendType
  <2> QED BY <2>1
<1>3. ASSUME NEW i \in 1 .. n, NEW v \in Nat PROVE F[<<i, v>>] = Append16(v, str[i])
  OBVIOUS
<1> HIDE DEF F, n
<1>4. PICK h \in [0 .. n -> Nat] : h[0] = 0 /\ \A i \in 1 .. n : h[i] = F[<<i, h[i - 1]>>]
  BY <1>1, <1>2, FiniteRecursion
<1>5. \A i \in 1 .. n : h[i] = Append16(h[i - 1], str[i])
  <2> TAKE i \in 1 .. n
  <2>1. h[i - 1] \in Nat
    BY <1>1
  <2> QED BY <1>3, <1>4, <2>1
<1> QED BY <1>4, <1>5 DEF Reading, n

LEMMA WeightsDown ==
  ASSUME NEW str \in Seq(Int)
  PROVE  /\ Weights(str) \in [0 .. Len(str) -> Nat] /\ Weights(str)[Len(str)] = 1
         /\ \A i \in 1 .. Len(str) :
              Weights(str)[i - 1] = IF str[i] \in HexDigit THEN 16 * Weights(str)[i]
                                                           ELSE Weights(str)[i]
<1> DEFINE n == Len(str)
           Up(v, c) == IF c \in HexDigit THEN 16 * v ELSE v
           F == [p \in (1 .. n) \X Nat |-> Up(p[2], str[n + 1 - p[1]])]
           Body(g) == [i \in 0 .. n |-> IF i = n THEN 1 ELSE
               IF str[i + 1] \in HexDigit THEN 16 * g[i + 1] ELSE g[i + 1]]
<1>1. n \in Nat /\ 1 \in Nat
  OBVIOUS
<1>2. F \in [(1 .. n) \X Nat -> Nat]
  OBVIOUS
<1>3. ASSUME NEW i \in 1 .. n, NEW v \in Nat PROVE F[<<i, v>>] = Up(v, str[n + 1 - i])
  OBVIOUS
<1> HIDE DEF F, n
<1>4. PICK h \in [0 .. n -> Nat] : h[0] = 1 /\ \A i \in 1 .. n : h[i] = F[<<i, h[i - 1]>>]
  BY <1>1, <1>2, FiniteRecursion
<1> DEFINE g == [i \in 0 .. n |-> h[n - i]]
<1>5. g = Body(g)
  <2>1. ASSUME NEW i \in 0 .. n PROVE g[i] = Body(g)[i]
    <3>1. CASE i = n
      BY <1>1, <1>4, <3>1
    <3>2. CASE i # n
      <4>1. /\ n - i \in 1 .. n /\ i + 1 \in 0 .. n /\ (n - i) - 1 \in 0 .. n /\ n + 1 - (n - i) = i + 1
            /\ n - (i + 1) = (n - i) - 1 /\ g[i + 1] = h[(n - i) - 1]
            /\ g[i] = h[n - i] 
        BY <1>1, <3>2
      <4>2. h[(n - i) - 1] \in Nat
        BY <4>1
      <4>3. g[i] = Up(g[i + 1], str[i + 1])
        BY <1>3, <1>4, <4>1, <4>2
      <4> HIDE DEF g
      <4> QED BY <3>2, <4>3
    <3> QED BY <3>1, <3>2
  <2> QED BY <2>1
<1> DEFINE w == CHOOSE x : x = Body(x)
<1>6. w = Body(w)
  BY <1>5
<1>7. w = Weights(str)
  BY DEF Weights, n
<1> HIDE DEF w
<1>8. /\ w = [i \in 0 .. n |-> w[i]] /\ w[n] = 1
      /\ \A i \in 1 .. n : w[i - 1] = Up(w[i], str[i])
  <2>1. \A i \in 1 .. n : i - 1 \in 0 .. n /\ i - 1 # n /\ (i - 1) + 1 = i
    BY <1>1
  <2>2. \A i \in 0 .. n : w[i] = Body(w)[i]
    BY <1>6
  <2>3. w = [i \in 0 .. n |-> w[i]]
    BY <1>6
  <2>4. w[n] = 1
    BY <1>1, <2>2
  <2>5. ASSUME NEW i \in 1 .. n PROVE w[i - 1] = Up(w[i], str[i])
    <3>1. w[i - 1] = Body(w)[i - 1]
      BY <2>1, <2>2
    <3> QED BY <2>1, <3>1
  <2> QED BY <2>3, <2>4, <2>5
<1>9. \A i \in 0 .. n : w[i] \in Nat
  <2> DEFINE S == {j \in 0 .. n : w[n - j] \in Nat}
  <2>1. 0 \in S
    BY <1>1, <1>8
  <2>2. ASSUME NEW j \in 1 .. n, j - 1 \in S PROVE j \in S
    <3>1. /\ n - (j - 1) \in 1 .. n /\ (n - (j - 1)) - 1 = n - j /\ j \in 0 .. n
          /\ w[n - (j - 1)] \in Nat
      BY <1>1, <2>2
    <3>2. w[n - j] = Up(w[n - (j - 1)], str[n - (j - 1)])
      BY <1>8, <3>1
    <3>3. w[n - j] \in Nat
      BY <3>1, <3>2
    <3> QED BY <3>1, <3>3
  <2>3. S = 0 .. n
    <3> HIDE DEF S
    <3>1. S \in SUBSET (0 .. n)
      BY DEF S
    <3> QED BY <1>1, <2>1, <2>2, <3>1, FiniteInduction
  <2>4. ASSUME NEW i \in 0 .. n PROVE w[i] \in Nat
    <3>1. n - i \in 0 .. n /\ n - (n - i) = i
      BY <1>1
    <3> QED BY <2>3, <3>1
  <2> QED BY <2>4
<1>10. w \in [0 .. n -> Nat]
  BY <1>8, <1>9
<1> QED BY <1>7, <1>8, <1>10 DEF n

LEMMA ExactlySums ==
  ASSUME NEW str \in Seq(Int)
  PROVE  \E s : /\ s \in [0 .. Len(str) -> Nat] /\ s[0] = 0 /\ Exactly(str) = s[Len(str)]
                /\ \A i \in 1 .. Len(str) :
                     s[i] = IF str[i] \in HexDigit THEN s[i - 1] + str[i] * Weights(str)[i]
                                                   ELSE s[i - 1]
<1> DEFINE n == Len(str)
           w == Weights(str)
           Add(v, i) == IF str[i] \in HexDigit THEN v + str[i] * w[i] ELSE v
           F == [p \in (1 .. n) \X Nat |-> Add(p[2], p[1])]
           Body(g) == [i \in 0 .. n |-> IF i = 0 THEN 0
                         ELSE IF str[i] \in HexDigit THEN g[i - 1] + str[i] * w[i] ELSE g[i - 1]]
<1>1. n \in Nat /\ 0 \in Nat
  OBVIOUS
<1>2. w \in [0 .. n -> Nat]
  BY WeightsDown
<1>3. F \in [(1 .. n) \X Nat -> Nat]
  <2>1. ASSUME NEW i \in 1 .. n, NEW v \in Nat PROVE Add(v, i) \in Nat
    <3>1. w[i] \in Nat
      <4> HIDE DEF w, n
      <4> QED BY <1>1, <1>2
    <3> HIDE DEF w
    <3>2. str[i] \in HexDigit => str[i] \in Nat
      BY DEF HexDigit
    <3> QED BY <3>1, <3>2, ProductNat
  <2> HIDE DEF Add
  <2> QED BY <2>1
<1>4. ASSUME NEW i \in 1 .. n, NEW v \in Nat PROVE F[<<i, v>>] = Add(v, i)
  <2> HIDE DEF Add
  <2> QED OBVIOUS
<1> HIDE DEF F, n, w
<1>5. PICK g \in [0 .. n -> Nat] : g[0] = 0 /\ \A i \in 1 .. n : g[i] = F[<<i, g[i - 1]>>]
  BY <1>1, <1>3, FiniteRecursion
<1>6. ASSUME NEW i \in 1 .. n PROVE g[i] = Add(g[i - 1], i)
  <2>1. g[i - 1] \in Nat
    BY <1>1
  <2> HIDE DEF Add
  <2> QED BY <1>4, <1>5, <2>1
<1>7. g = Body(g)
  <2>1. \A i \in 0 .. n : g[i] = Body(g)[i]
    BY <1>1, <1>5, <1>6
  <2> QED BY <2>1
<1> DEFINE s == CHOOSE x : x = Body(x)
<1>8. s = Body(s)
  BY <1>7
<1>9. Exactly(str) = s[n]
  BY DEF Exactly, n, w
<1> HIDE DEF s
<1>10. \A i \in 0 .. n : s[i] = Body(s)[i]
  BY <1>8
<1>11. s[0] = 0 /\ \A i \in 1 .. n : s[i] = Add(s[i - 1], i)
  BY <1>1, <1>10
<1>12. s = [i \in 0 .. n |-> s[i]]
  BY <1>8
<1>13. \A i \in 0 .. n : s[i] \in Nat
  <2> DEFINE S == {j \in 0 .. n : s[j] \in Nat}
  <2>1. 0 \in S
    BY <1>1, <1>11
  <2>2. ASSUME NEW j \in 1 .. n, j - 1 \in S PROVE j \in S
    <3>1. s[j - 1] \in Nat /\ w[j] \in Nat /\ j \in 0 .. n
      BY <1>1, <1>2, <2>2
    <3>2. Add(s[j - 1], j) \in Nat
      <4>1. str[j] \in HexDigit => str[j] \in Nat
        BY DEF HexDigit
      <4> QED BY <3>1, <4>1, ProductNat
    <3> QED BY <1>11, <3>1, <3>2
  <2>3. S = 0 .. n
    <3> HIDE DEF S
    <3>1. S \in SUBSET (0 .. n)
      BY DEF S
    <3> QED BY <1>1, <2>1, <2>2, <3>1, FiniteInduction
  <2> QED BY <2>3
<1>14. s \in [0 .. n -> Nat]
  BY <1>12, <1>13
<1> QED BY <1>9, <1>11, <1>14 DEF n, w

LEMMA DigitNat == \A c \in HexDigit : c \in Nat
BY DEF HexDigit

\* Reading a text from its start makes the sum of its weighted digits.
LEMMA ReadingIsExact ==
  ASSUME NEW str \in Seq(Int), NEW h, Reading(h, str)
  PROVE  h[Len(str)] = Exactly(str)
<1> DEFINE n == Len(str)  w == Weights(str)
<1>1. n \in Nat /\ \A i \in 1 .. n : i \in 0 .. n /\ i - 1 \in 0 .. n
  OBVIOUS
<1>2. /\ w \in [0 .. n -> Nat] /\ w[n] = 1
      /\ \A i \in 1 .. n : w[i - 1] = IF str[i] \in HexDigit THEN 16 * w[i] ELSE w[i]
  BY WeightsDown
<1>3. PICK s : /\ s \in [0 .. n -> Nat] /\ s[0] = 0 /\ Exactly(str) = s[n]
               /\ \A i \in 1 .. n : s[i] = IF str[i] \in HexDigit THEN s[i - 1] + str[i] * w[i]
                                                                  ELSE s[i - 1]
  BY ExactlySums
<1>4. /\ h \in [0 .. n -> Nat] /\ h[0] = 0
      /\ \A i \in 1 .. n : h[i] = IF str[i] \in HexDigit THEN 16 * h[i - 1] + str[i] ELSE h[i - 1]
  BY DEF Reading, Append16
<1> HIDE DEF n, w
<1> DEFINE S == {i \in 0 .. n : h[i] * w[i] = s[i]}
<1>5. 0 \in S
  BY <1>1, <1>2, <1>3, <1>4
<1>6. ASSUME NEW i \in 1 .. n, i - 1 \in S PROVE i \in S
  <2>1. /\ i \in 0 .. n /\ h[i] \in Nat /\ w[i] \in Nat /\ s[i] \in Nat /\ h[i - 1] \in Nat
        /\ w[i - 1] \in Nat /\ s[i - 1] \in Nat /\ h[i - 1] * w[i - 1] = s[i - 1]
    BY <1>1, <1>2, <1>3, <1>4, <1>6
  <2>2. CASE str[i] \in HexDigit
    <3>1. /\ h[i] = 16 * h[i - 1] + str[i] /\ w[i - 1] = 16 * w[i]
          /\ s[i] = s[i - 1] + str[i] * w[i] /\ str[i] \in Nat
      <4>1. str[i] \in Nat
        BY <2>2, DigitNat
      <4> QED BY <1>2, <1>3, <1>4, <2>2, <4>1
    <3> DEFINE a == h[i - 1]  b == w[i]  d == str[i]
    <3>2. h[i] * w[i] = (16 * a + d) * b /\ s[i] = a * (16 * b) + d * b
      BY <2>1, <3>1
    <3>3. h[i] * w[i] = s[i]
      <4>1. a \in Nat /\ b \in Nat /\ d \in Nat
        BY <2>1, <3>1
      <4> HIDE DEF a, b, d
      <4> QED BY <3>2, <4>1, HornerStep
    <3> QED BY <2>1, <3>3
  <2>3. CASE str[i] \notin HexDigit
    BY <1>2, <1>3, <1>4, <2>1, <2>3
  <2> QED BY <2>2, <2>3
<1>7. S = 0 .. n
  <2> HIDE DEF S
  <2>1. S \in SUBSET (0 .. n)
    BY DEF S
  <2> QED BY <1>1, <1>5, <1>6, <2>1, FiniteInduction
<1>8. h[n] * w[n] = s[n] /\ h[n] \in Nat
  BY <1>1, <1>4, <1>7
<1>9. h[n] = Exactly(str)
  BY <1>2, <1>3, <1>8
<1> QED BY <1>9 DEF n

\* The demo's reading of a text, cut to an unsigned int at every digit, is what it denotes.
LEMMA ChrToHexDenotes ==
  ASSUME NEW str \in Seq(Int)
  PROVE  ChrToHex(str) = Denotes(str)
<1> DEFINE n == Len(str)
           Body(g) == [i \in 0 .. n |-> IF i = 0 THEN 0
                         ELSE IF str[i] \notin HexDigit THEN g[i - 1]
                         ELSE ((IF i # 1 THEN g[i - 1] * 16 ELSE g[i - 1]) + str[i]) % UInt]
           d == CHOOSE g : g = Body(g)
<1>1. n \in Nat /\ \A i \in 1 .. n : i \in 0 .. n /\ i - 1 \in 0 .. n /\ i # 0
  OBVIOUS
<1>2. ChrToHex(str) = d[n]
  BY DEF ChrToHex
<1>3. PICK h : Reading(h, str)
  BY SomeReading
<1>4. /\ h \in [0 .. n -> Nat] /\ h[0] = 0
      /\ \A i \in 1 .. n : h[i] = IF str[i] \in HexDigit THEN 16 * h[i - 1] + str[i] ELSE h[i - 1]
  BY <1>3 DEF Reading, Append16
<1>5. UInt \in Nat \ {0}
  BY DemoAssumption
<1> HIDE DEF n
\* Cutting what is read so far, and not the digits after it, changes nothing.
<1>6. ASSUME NEW i \in 1 .. n, NEW v, v = h[i - 1] % UInt, str[i] \in HexDigit
      PROVE  ((IF i # 1 THEN v * 16 ELSE v) + str[i]) % UInt = h[i] % UInt
  <2>1. h[i - 1] \in Nat /\ str[i] \in Nat /\ h[i] = 16 * h[i - 1] + str[i] /\ v \in Nat
    <3>1. h[i - 1] \in Nat /\ str[i] \in Nat /\ h[i] = 16 * h[i - 1] + str[i]
      <4>1. i - 1 \in 0 .. n /\ h[i] = 16 * h[i - 1] + str[i]
        BY <1>1, <1>4, <1>6
      <4>2. h[i - 1] \in Nat
        BY <1>4, <4>1
      <4>3. str[i] \in Nat
        BY <1>6, DigitNat
      <4> QED BY <4>1, <4>2, <4>3
    <3> QED BY <1>5, <1>6, <3>1
  <2>2. CASE i = 1
    <3>1. h[i - 1] = 0 /\ v = 0
      BY <1>4, <1>5, <1>6, <2>2
    <3> QED BY <2>1, <2>2, <3>1
  <2>3. CASE i # 1
    <3> DEFINE a == h[i - 1]  b == str[i]
    <3>1. h[i] = a * 16 + b /\ a \in Nat /\ b \in Nat
      BY <2>1
    <3> HIDE DEF a, b
    <3>2. ((a % UInt) * 16 + b) % UInt = (a * 16 + b) % UInt
      BY <1>5, <3>1, DigitAfterCut
    <3>3. (v * 16 + str[i]) % UInt = h[i] % UInt
      BY <1>6, <3>1, <3>2 DEF a, b
    <3> QED BY <2>3, <3>3
  <2> QED BY <2>2, <2>3
<1>7. d = Body(d)
  <2> DEFINE g == [i \in 0 .. n |-> h[i] % UInt]
  <2>1. ASSUME NEW i \in 0 .. n PROVE g[i] = Body(g)[i]
    <3>1. CASE i = 0
      BY <1>1, <1>4, <1>5, <3>1
    <3>2. CASE i # 0
      <4>1. i \in 1 .. n /\ i - 1 \in 0 .. n /\ g[i] = h[i] % UInt /\ g[i - 1] = h[i - 1] % UInt
        BY <1>1, <3>2
      <4> HIDE DEF g
      <4>2. CASE str[i] \in HexDigit
        BY <1>6, <3>2, <4>1, <4>2
      <4>3. CASE str[i] \notin HexDigit
        BY <1>4, <3>2, <4>1, <4>3
      <4> QED BY <4>2, <4>3
    <3> QED BY <3>1, <3>2
  <2>2. g = Body(g)
    BY <2>1
  <2> QED BY <2>2
<1> HIDE DEF d
<1>8. \A i \in 0 .. n : d[i] = Body(d)[i]
  BY <1>7
<1> DEFINE S == {i \in 0 .. n : d[i] = h[i] % UInt}
<1>9. 0 \in S
  BY <1>1, <1>4, <1>5, <1>8
<1>10. ASSUME NEW i \in 1 .. n, i - 1 \in S PROVE i \in S
  <2>1. i \in 0 .. n /\ i # 0 /\ d[i - 1] = h[i - 1] % UInt
    BY <1>1, <1>10
  <2>2. CASE str[i] \in HexDigit
    BY <1>6, <1>8, <2>1, <2>2
  <2>3. CASE str[i] \notin HexDigit
    BY <1>4, <1>8, <2>1, <2>3
  <2> QED BY <2>2, <2>3
<1>11. S = 0 .. n
  <2> HIDE DEF S
  <2>1. S \in SUBSET (0 .. n)
    BY DEF S
  <2> QED BY <1>1, <1>9, <1>10, <2>1, FiniteInduction
<1>12. d[n] = h[n] % UInt
  BY <1>1, <1>11
<1>13. h[n] = Exactly(str)
  BY <1>3, ReadingIsExact DEF n
<1> QED BY <1>2, <1>12, <1>13 DEF Denotes

LEMMA PowersOf16 ==
  /\ 16 ^ 0 = 1 /\ 16 ^ 1 = 16 /\ 16 ^ 2 = 256 /\ 16 ^ 3 = 4096 /\ 16 ^ 4 = 65536
  /\ 16 ^ 5 = 1048576 /\ 16 ^ 6 = 16777216 /\ 16 ^ 7 = 268435456 /\ 16 ^ 8 = 4294967296
OBVIOUS

LEMMA DigitOff ==
  ASSUME NEW v \in Nat, NEW m \in 0 .. 7
  PROVE  /\ v \div 16 ^ m \in Nat /\ v \div 16 ^ (m + 1) \in Nat
         /\ v \div 16 ^ m = 16 * (v \div 16 ^ (m + 1)) + ((v \div 16 ^ m) % 16)
<1>1. CASE m = 0
  BY <1>1, PowersOf16
<1>2. CASE m = 1
  BY <1>2, PowersOf16
<1>3. CASE m = 2
  BY <1>3, PowersOf16
<1>4. CASE m = 3
  BY <1>4, PowersOf16
<1>5. CASE m = 4
  BY <1>5, PowersOf16
<1>6. CASE m = 5
  BY <1>6, PowersOf16
<1>7. CASE m = 6
  BY <1>7, PowersOf16
<1>8. CASE m = 7
  BY <1>8, PowersOf16
<1> QED BY <1>1, <1>2, <1>3, <1>4, <1>5, <1>6, <1>7, <1>8

LEMMA BelowPower ==
  ASSUME NEW v \in Nat, NEW k \in 0 .. 8, v < 16 ^ k
  PROVE  v \div 16 ^ k = 0
<1>1. CASE k = 0
  BY <1>1, PowersOf16
<1>2. CASE k = 1
  BY <1>2, PowersOf16
<1>3. CASE k = 2
  BY <1>3, PowersOf16
<1>4. CASE k = 3
  BY <1>4, PowersOf16
<1>5. CASE k = 4
  BY <1>5, PowersOf16
<1>6. CASE k = 5
  BY <1>6, PowersOf16
<1>7. CASE k = 6
  BY <1>7, PowersOf16
<1>8. CASE k = 7
  BY <1>8, PowersOf16
<1>9. CASE k = 8
  BY <1>9, PowersOf16
<1> QED BY <1>1, <1>2, <1>3, <1>4, <1>5, <1>6, <1>7, <1>8, <1>9

LEMMA SomeLength ==
  ASSUME NEW v \in 0 .. UInt - 1
  PROVE  \E k \in 0 .. 8 : v < 16 ^ k /\ \A j \in 0 .. k - 1 : v >= 16 ^ j
<1> DEFINE P(k) == v < 16 ^ k /\ \A j \in 0 .. k - 1 : v >= 16 ^ j
<1>1. v \in Nat /\ v < 16 ^ 8
  <2>1. (UInt - 1) \div 16 < 268435456 /\ UInt \in Nat
    BY DemoAssumption, PowersOf16
  <2> QED BY <2>1, PowersOf16
<1>2. ASSUME NEW k \in 0 .. 8, v < 16 ^ k PROVE \E j \in 0 .. 8 : P(j)
  <2>1. CASE v < 16 ^ 0
    <3>1. P(0)
      BY <1>1, <2>1, PowersOf16
    <3> QED BY <3>1
  <2>2. CASE v >= 16 ^ 0 /\ v < 16 ^ 1
    <3>1. P(1)
      BY <1>1, <2>2, PowersOf16
    <3> QED BY <3>1
  <2>3. CASE v >= 16 ^ 1 /\ v < 16 ^ 2
    <3>1. P(2)
      BY <1>1, <2>3, PowersOf16
    <3> QED BY <3>1
  <2>4. CASE v >= 16 ^ 2 /\ v < 16 ^ 3
    <3>1. P(3)
      BY <1>1, <2>4, PowersOf16
    <3> QED BY <3>1
  <2>5. CASE v >= 16 ^ 3 /\ v < 16 ^ 4
    <3>1. P(4)
      BY <1>1, <2>5, PowersOf16
    <3> QED BY <3>1
  <2>6. CASE v >= 16 ^ 4 /\ v < 16 ^ 5
    <3>1. P(5)
      BY <1>1, <2>6, PowersOf16
    <3> QED BY <3>1
  <2>7. CASE v >= 16 ^ 5 /\ v < 16 ^ 6
    <3>1. P(6)
      BY <1>1, <2>7, PowersOf16
    <3> QED BY <3>1
  <2>8. CASE v >= 16 ^ 6 /\ v < 16 ^ 7
    <3>1. P(7)
      BY <1>1, <2>8, PowersOf16
    <3> QED BY <3>1
  <2>9. CASE v >= 16 ^ 7 /\ v < 16 ^ 8
    <3>1. P(8)
      BY <1>1, <2>9, PowersOf16
    <3> QED BY <3>1
  <2> QED BY <1>1, <1>2, <2>1, <2>2, <2>3, <2>4, <2>5, <2>6, <2>7, <2>8, <2>9, PowersOf16
<1> QED BY <1>1, <1>2

\* A value that fits is its own remainder.
LEMMA FitsModulo ==
  ASSUME NEW m \in Nat \ {0}, NEW x \in 0 .. m - 1
  PROVE  x % m = x
OBVIOUS

\* The digits of a value, read back, are the value.
LEMMA HexToChrDenotes ==
  ASSUME NEW v \in 0 .. UInt - 1
  PROVE  HexToChr(v) \in Seq(Int) /\ Denotes(HexToChr(v)) = v
<1> DEFINE P(k) == v < 16 ^ k /\ \A j \in 0 .. k - 1 : v >= 16 ^ j
           n == CHOOSE k \in 0 .. 8 : P(k)
           t == HexToChr(v)
           h == [i \in 0 .. n |-> v \div 16 ^ (n - i)]
<1>1. n \in 0 .. 8 /\ v < 16 ^ n
  BY SomeLength
<1>2. t = [j \in 1 .. n |-> (v \div 16 ^ (n - j)) % 16]
  BY DEF HexToChr
<1>3. v \in Nat /\ UInt \in Nat \ {0} /\ v % UInt = v
  <2>1. UInt \in Nat \ {0}
    BY DemoAssumption
  <2> QED BY <2>1, FitsModulo
<1> HIDE DEF n, t
<1>4. ASSUME NEW i \in 1 .. n
      PROVE  /\ h[i - 1] \in Nat /\ h[i] \in Nat /\ t[i] = h[i] % 16 /\ t[i] \in HexDigit
             /\ h[i] = 16 * h[i - 1] + t[i]
  <2>1. /\ n - i \in 0 .. 7 /\ (n - i) + 1 = n - (i - 1) /\ i \in 0 .. n /\ i - 1 \in 0 .. n
        /\ h[i] = v \div 16 ^ (n - i) /\ h[i - 1] = v \div 16 ^ (n - (i - 1))
        /\ t[i] = (v \div 16 ^ (n - i)) % 16
    BY <1>1, <1>2
  <2> DEFINE m == n - i  a == v \div 16 ^ m  b == v \div 16 ^ (m + 1)
  <2>2. m \in 0 .. 7 /\ h[i] = a /\ h[i - 1] = b /\ t[i] = a % 16
    <3>1. m + 1 = n - (i - 1)
      BY <2>1
    <3> HIDE DEF h
    <3> QED BY <2>1, <3>1
  <2> HIDE DEF h, m
  <2>3. a \in Nat /\ b \in Nat /\ a = 16 * b + (a % 16)
    BY <1>3, <2>2, DigitOff
  <2> HIDE DEF a, b
  <2>4. a % 16 \in HexDigit
    BY <2>3 DEF HexDigit
  <2> QED BY <2>2, <2>3, <2>4
<1> HIDE DEF h
<1>5. t \in Seq(Int) /\ Len(t) = n
  <2>1. \A i \in 1 .. n : t[i] \in Int
    BY <1>4 DEF HexDigit
  <2>2. t \in [1 .. n -> Int] /\ n \in Nat
    <3>1. t = [i \in 1 .. n |-> t[i]]
      BY <1>2
    <3> QED BY <1>1, <2>1, <3>1
  <2> QED BY <2>2
<1>6. h[0] = 0 /\ h[n] = v /\ \A i \in 0 .. n : h[i] \in Nat
  <2>1. h[n] = v
    <3>1. n \in 0 .. n /\ n - n = 0
      BY <1>1
    <3>2. h[n] = v \div 16 ^ 0
      BY <3>1 DEF h
    <3> QED BY <1>3, <3>2, PowersOf16
  <2>2. h[0] = 0
    <3>1. h[0] = v \div 16 ^ n
      BY <1>1 DEF h
    <3> QED BY <1>1, <1>3, <3>1, BelowPower
  <2>3. \A i \in 0 .. n : h[i] \in Nat
    <3> TAKE i \in 0 .. n
    <3>1. i = n \/ i + 1 \in 1 .. n
      BY <1>1
    <3>2. i + 1 \in 1 .. n => (i + 1) - 1 = i
      OBVIOUS
    <3> QED BY <1>3, <1>4, <2>1, <3>1, <3>2
  <2> QED BY <2>1, <2>2, <2>3
<1>7. Reading(h, t)
  <2>1. h \in [0 .. n -> Nat]
    BY <1>6 DEF h
  <2>2. \A i \in 1 .. n : h[i] = Append16(h[i - 1], t[i])
    BY <1>4 DEF Append16
  <2> QED BY <1>5, <1>6, <2>1, <2>2 DEF Reading
<1> HIDE DEF h
<1>8. Exactly(t) = v
  BY <1>5, <1>6, <1>7, ReadingIsExact
<1> QED BY <1>3, <1>5, <1>8 DEF Denotes, t

-----------------------------------------------------------------------------
(* The console demo *)

\* The round is a record of these fields, whatever is in them.
RoundIs(l, t, d, g, n, z, v, s, a) ==
  round = [loop |-> l, text |-> t, did |-> d, reg |-> g, node |-> n, sized |-> z,
           value |-> v, shown |-> s, said |-> a]
RoundShape == \E l, t, d, g, n, z, v, s, a : RoundIs(l, t, d, g, n, z, v, s, a)

\* Below the main menu the device the user chose is open, and its bases have been read.
OpenInv ==
  screen \in Menus \union {"menu", "loop"} => dev_fd = chosen /\ bases = chosen /\ fds > 0

LoopInv == screen = "loop" => round.loop \in Loops

\* What a round that called the library keeps of it, and what it says.
RoundInv ==
  LET r == round IN
  /\ r.did # "nothing" =>
       /\ r.node = chosen
       /\ r.reg = <<r.loop.space, IF r.loop.space = "config" THEN Denotes(r.text) % CfgOffsets
                                                             ELSE Denotes(r.text)>>
       /\ Denotes(r.shown) = r.value
  /\ r.did = "failed" => r.said = "error" \/ r.loop \in Silent
  /\ r.said = "success" => r.did = "ok" \/ (r.loop \in Repeats /\ ~r.sized)

DemoInv == DemoTypeOK /\ RoundShape /\ OpenInv /\ LoopInv /\ RoundInv

\* What sets the loops apart.
LEMMA LoopFacts ==
  ASSUME NEW f \in Loops
  PROVE  /\ f.space \in Menus /\ f.tells \in BOOLEAN /\ f.block \in BOOLEAN /\ f.keeps \in BOOLEAN
         /\ ~f.tells => f \in Silent
         /\ f.block /\ f.space = "io" => f \in Silent
         /\ ~f.block /\ f.keeps => f \in Repeats
         /\ f = write_cfg => f.space = "config"
<1> USE DEF Loop, Menus, Silent, Repeats
<1>1. CASE f = read_cfg
  BY <1>1 DEF read_cfg, write_cfg
<1>2. CASE f = write_cfg
  BY <1>2 DEF write_cfg
<1>3. CASE f = read_io
  BY <1>3 DEF read_io, write_cfg
<1>4. CASE f = write_io
  BY <1>4 DEF write_io, write_cfg
<1>5. CASE f = read_mem
  BY <1>5 DEF read_mem, write_cfg
<1>6. CASE f = write_mem
  BY <1>6 DEF write_mem, write_cfg
<1>7. CASE f = read_io_block
  BY <1>7 DEF read_io_block, write_cfg
<1>8. CASE f = write_io_block
  BY <1>8 DEF write_io_block, write_cfg
<1>9. CASE f = read_mem_block
  BY <1>9 DEF read_mem_block, write_cfg
<1>10. CASE f = write_mem_block
  BY <1>10 DEF write_mem_block, write_cfg
<1> QED BY <1>1, <1>2, <1>3, <1>4, <1>5, <1>6, <1>7, <1>8, <1>9, <1>10
        DEF Loops, read_write_cfg, read_write_io, read_write_mem

\* The register a loop reaches is the one the text denotes.
LEMMA RegisterMeant ==
  ASSUME NEW f \in Loops, NEW text \in Seq(Int)
  PROVE  Register(f, Address(f, ChrToHex(text))) =
           <<f.space, IF f.space = "config" THEN Denotes(text) % CfgOffsets ELSE Denotes(text)>>
<1> DEFINE dst == ChrToHex(text)
<1>1. dst = Denotes(text) /\ dst \in Nat
  <2>1. PICK h : Reading(h, text)
    BY SomeReading
  <2>2. h[Len(text)] \in Nat
    BY <2>1 DEF Reading
  <2>3. Exactly(text) \in Nat /\ UInt \in Nat \ {0}
    BY <2>1, <2>2, ReadingIsExact, DemoAssumption
  <2>4. Denotes(text) \in Nat
    BY <2>3 DEF Denotes
  <2> QED BY <2>4, ChrToHexDenotes
<1> HIDE DEF dst
<1>2. IoBase \in Nat /\ MemBase \in Nat /\ CfgOffsets \in Nat \ {0} /\ IoBase % CfgOffsets = 0
  BY DemoAssumption
<1>3. (IoBase + dst) % CfgOffsets = dst % CfgOffsets
  <2> DEFINE q == IoBase \div CfgOffsets
  <2>1. q \in Nat /\ IoBase = q * CfgOffsets + (IoBase % CfgOffsets)
    BY <1>2, Remainder
  <2> HIDE DEF q
  <2>2. IoBase + dst \in Nat /\ IoBase + dst = q * CfgOffsets + dst
    <3>1. IoBase = q * CfgOffsets
      BY <1>2, <2>1, ProductNat
    <3> QED BY <1>1, <1>2, <3>1
  <2> DEFINE w == CfgOffsets  b == IoBase + dst
  <2>3. w \in Nat \ {0} /\ dst \in Nat /\ b \in Nat /\ q \in Nat /\ b = q * w + dst
    BY <1>1, <1>2, <2>1, <2>2
  <2> HIDE DEF w, b
  <2>4. b % w = dst % w
    BY <2>3, RemainderShift
  <2> QED BY <2>4 DEF w, b
<1>4. f.space \in Menus /\ (f = write_cfg => f.space = "config")
  BY LoopFacts
<1>5. CASE f.space = "config"
  <2>1. Address(f, dst) = IoBase + dst \/ Address(f, dst) = dst
    BY <1>5 DEF Address
  <2> QED BY <1>1, <1>3, <1>5, <2>1 DEF Register, dst
<1>6. CASE f.space = "io"
  <2>1. Address(f, dst) = IoBase + dst
    BY <1>6 DEF Address
  <2>2. (IoBase + dst) - IoBase = dst
    BY <1>1, <1>2
  <2> QED BY <1>1, <1>6, <2>1, <2>2 DEF Register, dst
<1>7. CASE f.space = "mem"
  <2>1. Address(f, dst) = MemBase + dst
    BY <1>4, <1>7 DEF Address
  <2>2. (MemBase + dst) - MemBase = dst
    BY <1>1, <1>2
  <2> QED BY <1>1, <1>7, <2>1, <2>2 DEF Register, dst
<1> QED BY <1>4, <1>5, <1>6, <1>7 DEF Menus

LEMMA DemoStart == DemoInit => DemoInv
<1> SUFFICES ASSUME DemoInit PROVE DemoInv
  OBVIOUS
<1>1. DemoTypeOK
  BY DemoAssumption DEF DemoInit, DemoTypeOK, NoRound
<1>2. RoundShape /\ RoundInv
  <2>1. RoundIs(NoLoop, << >>, "nothing", <<"none", 0>>, -1, TRUE, 0, << >>, "nothing")
    BY DEF DemoInit, NoRound, RoundIs
  <2> QED BY <2>1 DEF RoundShape, RoundIs, RoundInv
<1>3. OpenInv /\ LoopInv
  BY DEF DemoInit, OpenInv, LoopInv, Menus
<1> QED BY <1>1, <1>2, <1>3 DEF DemoInv

LEMMA SameRound ==
  ASSUME DemoInv, UNCHANGED <<round, chosen>>
  PROVE  RoundShape' /\ RoundInv'
<1>1. RoundShape'
  BY DEF DemoInv, RoundShape, RoundIs
<1>2. RoundInv'
  BY DEF DemoInv, RoundInv
<1> QED BY <1>1, <1>2

LEMMA NewRound ==
  ASSUME NEW l, NEW t, NEW d, NEW g, NEW n, NEW z, NEW v, NEW s, NEW a,
         round' = [loop |-> l, text |-> t, did |-> d, reg |-> g, node |-> n, sized |-> z,
                   value |-> v, shown |-> s, said |-> a]
  PROVE  /\ RoundShape' /\ round'.loop = l /\ round'.text = t /\ round'.did = d
         /\ round'.reg = g /\ round'.node = n /\ round'.sized = z /\ round'.value = v
         /\ round'.shown = s /\ round'.said = a
<1>1. RoundShape'
  BY Zenon DEF RoundShape, RoundIs
<1> QED BY <1>1

LEMMA ShowMenuKeeps == ASSUME DemoInv, ShowMenu PROVE DemoInv'
<1> USE DEF DemoInv
<1>1. UNCHANGED <<nodes, chosen, retval, round>> /\ screen = "top"
  BY DEF ShowMenu
<1>2. RoundShape' /\ RoundInv'
  BY <1>1, SameRound
<1>3. screen' \in {"menu", "gone"} /\ LoopInv'
  BY DEF ShowMenu, LoopInv
<1>4. dev_fd' \in {chosen, -1, dev_fd} /\ bases' \in {dev_fd', bases} /\ fds' \in 0 .. MaxFds
  <2>1. fds \in 0 .. MaxFds /\ MaxFds \in Nat
    BY DemoAssumption DEF DemoTypeOK
  <2>2. fds < MaxFds => fds + 1 \in 0 .. MaxFds
    BY <2>1
  <2>3. CASE get_ch36x_dev_list
    <3>1. open_choosed_dev /\ bases' \in {dev_fd', bases}
      BY <2>3 DEF ShowMenu, get_ID_BaseAddr
    <3> QED BY <2>1, <2>2, <3>1 DEF open_choosed_dev
  <2>4. CASE ~get_ch36x_dev_list
    <3>1. UNCHANGED <<dev_fd, fds, bases>>
      BY <2>4 DEF ShowMenu
    <3> QED BY <2>1, <3>1
  <2> QED BY <2>3, <2>4
<1>5. DemoTypeOK'
  BY <1>1, <1>3, <1>4 DEF DemoTypeOK
<1>6. OpenInv'
  <2> SUFFICES ASSUME screen' = "menu" PROVE dev_fd' = chosen' /\ bases' = chosen' /\ fds' > 0
    BY <1>3 DEF OpenInv, Menus
  <2>1. open_choosed_dev /\ dev_fd' # -1 /\ bases' = dev_fd'
    BY DEF ShowMenu, get_ID_BaseAddr
  <2>2. dev_fd' = chosen /\ fds' = fds + 1
    BY <2>1 DEF open_choosed_dev
  <2> QED BY <1>1, <2>1, <2>2, DemoAssumption DEF DemoTypeOK
<1> QED BY <1>2, <1>3, <1>5, <1>6

LEMMA MenuKeeps == ASSUME DemoInv, oper_menu_cmd PROVE DemoInv'
<1> USE DEF DemoInv
<1>1. UNCHANGED <<nodes, chosen, bases, retval, round>> /\ screen = "menu"
  BY DEF oper_menu_cmd
<1>2. RoundShape' /\ RoundInv'
  BY <1>1, SameRound
<1>3. fds > 0 /\ dev_fd = chosen /\ bases = chosen
  BY <1>1 DEF OpenInv
<1>4. CASE screen' \in Menus \union {"top"} /\ UNCHANGED <<dev_fd, fds>>
  BY <1>1, <1>2, <1>3, <1>4 DEF DemoTypeOK, OpenInv, LoopInv, Menus
<1>5. CASE screen' = "gone" /\ dev_fd' = -1 /\ fds' = fds - 1
  BY <1>1, <1>2, <1>3, <1>5, DemoAssumption DEF DemoTypeOK, OpenInv, LoopInv, Menus
<1> QED BY <1>4, <1>5 DEF oper_menu_cmd

LEMMA ChooseKeeps == ASSUME DemoInv, ChooseLoop PROVE DemoInv'
<1> USE DEF DemoInv
<1>1. UNCHANGED <<nodes, chosen, dev_fd, fds, bases>> /\ screen \in Menus
  BY DEF ChooseLoop
<1>2. fds > 0 /\ dev_fd = chosen /\ bases = chosen
  BY <1>1 DEF OpenInv
<1>3. CASE screen' = "top" /\ UNCHANGED <<retval, round>>
  BY <1>1, <1>3, SameRound DEF DemoTypeOK, OpenInv, LoopInv, Menus
<1>4. ASSUME NEW f \in LoopsOf(screen), screen' = "loop", round' = [NoRound EXCEPT !.loop = f],
             retval' = "false"
      PROVE  DemoInv'
  <2>1. f \in Loops
    BY DEF LoopsOf, Loops
  <2>2. round' = [loop |-> f, text |-> << >>, did |-> "nothing", reg |-> <<"none", 0>>,
                  node |-> -1, sized |-> TRUE, value |-> 0, shown |-> << >>, said |-> "nothing"]
    BY <1>4 DEF NoRound
  <2>3. /\ RoundShape' /\ round'.loop = f /\ round'.did = "nothing" /\ round'.said = "nothing"
    BY ONLY <2>2, NewRound
  <2> QED BY <1>1, <1>2, <1>4, <2>1, <2>3 DEF DemoTypeOK, OpenInv, LoopInv, RoundInv
<1> QED BY <1>3, <1>4 DEF ChooseLoop

LEMMA VanishKeeps == ASSUME DemoInv, Vanish PROVE DemoInv'
<1>1. RoundShape' /\ RoundInv'
  BY SameRound DEF Vanish
<1>2. OpenInv' /\ LoopInv'
  BY DEF DemoInv, Vanish, OpenInv, LoopInv
<1>3. DemoTypeOK'
  BY DEF DemoInv, Vanish, DemoTypeOK
<1> QED BY <1>1, <1>2, <1>3 DEF DemoInv

LEMMA CallsKeeps == ASSUME DemoInv, NEW f \in Loops, Calls(f) PROVE DemoInv'
<1> USE DEF DemoInv
<1>1. /\ screen = "loop" /\ f = round.loop /\ UNCHANGED <<nodes, chosen, dev_fd, fds, bases>>
      /\ fds > 0 /\ dev_fd = chosen /\ bases = chosen
  BY DEF Calls, OpenInv
<1>2. PICK text \in Text, r \in {"true", IF f.block /\ f.space = "io" THEN "-1" ELSE "false"},
           v \in (IF f.op = "read" /\ ~f.block THEN Datum ELSE {0}) :
        /\ retval' = IF f.tells THEN r ELSE retval
        /\ round' = Rounds(f, [text |-> text, did |-> IF r = "true" THEN "ok" ELSE "failed",
                               reg |-> Register(f, Address(f, ChrToHex(text))), node |-> bases,
                               sized |-> TRUE, value |-> v, shown |-> HexToChr(v),
                               said |-> Said(f, r)])
        /\ Leave(f, Ends(f, r))
  BY DEF Calls
<1>3. /\ RoundShape' /\ round'.loop = f /\ round'.text = text /\ round'.node = bases
      /\ round'.did = (IF r = "true" THEN "ok" ELSE "failed")
      /\ round'.reg = Register(f, Address(f, ChrToHex(text)))
      /\ round'.value = v /\ round'.shown = HexToChr(v) /\ round'.said = Said(f, r)
  <2>1. round' = [loop |-> f, text |-> text, did |-> IF r = "true" THEN "ok" ELSE "failed",
                  reg |-> Register(f, Address(f, ChrToHex(text))), node |-> bases,
                  sized |-> TRUE, value |-> v, shown |-> HexToChr(v), said |-> Said(f, r)]
    <3>1. PICK l, t, d, g, n, z, w, s, a : RoundIs(l, t, d, g, n, z, w, s, a)
      BY DEF RoundShape
    <3> QED BY <1>1, <1>2, <3>1 DEF RoundIs, Rounds
  <2> QED BY ONLY <2>1, NewRound
<1>4. /\ f.space \in Menus /\ f.tells \in BOOLEAN /\ (~f.tells => f \in Silent)
      /\ (f.block /\ f.space = "io" => f \in Silent)
  BY LoopFacts
<1>5. text \in Seq(Int) /\ v \in 0 .. UInt - 1
  BY DemoAssumption
<1>6. Denotes(HexToChr(v)) = v
  BY <1>5, HexToChrDenotes
<1>7. RoundInv'
  <2>1. round'.reg = <<f.space, IF f.space = "config" THEN Denotes(text) % CfgOffsets
                                                     ELSE Denotes(text)>>
    BY <1>3, <1>5, RegisterMeant
  <2>2. round'.did = "failed" => round'.said = "error" \/ f \in Silent
    BY <1>2, <1>3, <1>4 DEF Said
  <2>3. round'.said = "success" => round'.did = "ok"
    BY <1>3 DEF Said
  <2> QED BY <1>1, <1>3, <1>6, <2>1, <2>2, <2>3 DEF RoundInv
<1>8. screen' \in {"loop", f.space}
  BY <1>2 DEF Leave
<1>9. DemoTypeOK'
  BY <1>1, <1>2, <1>3, <1>4, <1>8 DEF DemoTypeOK, Said
<1> QED BY <1>1, <1>3, <1>4, <1>7, <1>8, <1>9 DEF OpenInv, LoopInv

LEMMA OutOfRangeKeeps == ASSUME DemoInv, NEW f \in Loops, OutOfRange(f) PROVE DemoInv'
<1> USE DEF DemoInv
<1>1. /\ UNCHANGED <<nodes, chosen, dev_fd, fds, bases, retval>> /\ screen' = f.space
      /\ fds > 0 /\ dev_fd = chosen /\ bases = chosen
  BY DEF OutOfRange, OpenInv
<1>2. RoundShape' /\ round'.loop = f /\ round'.did = "nothing" /\ round'.said = "error"
  <2>1. round' = [loop |-> f, text |-> << >>, did |-> "nothing", reg |-> <<"none", 0>>,
                  node |-> -1, sized |-> TRUE, value |-> 0, shown |-> << >>, said |-> "error"]
    BY DEF OutOfRange, NoRound
  <2> QED BY ONLY <2>1, NewRound
<1>3. f.space \in Menus
  BY LoopFacts
<1> QED BY <1>1, <1>2, <1>3 DEF DemoTypeOK, OpenInv, LoopInv, RoundInv, Menus

LEMMA NoSuchSizeKeeps == ASSUME DemoInv, NEW f \in Loops, NoSuchSize(f) PROVE DemoInv'
<1> USE DEF DemoInv
<1> DEFINE r == IF f.keeps THEN retval ELSE "false"
<1>1. /\ UNCHANGED <<nodes, chosen, dev_fd, fds, bases, retval>> /\ screen' \in {"loop", f.space}
      /\ fds > 0 /\ dev_fd = chosen /\ bases = chosen /\ ~f.block
      /\ round' = [NoRound EXCEPT !.loop = f, !.sized = FALSE, !.said = Said(f, r)]
  BY DEF NoSuchSize, Leave, OpenInv
<1>2. /\ RoundShape' /\ round'.loop = f /\ round'.did = "nothing" /\ round'.said = Said(f, r)
      /\ round'.sized = FALSE
  <2>1. round' = [loop |-> f, text |-> << >>, did |-> "nothing", reg |-> <<"none", 0>>,
                  node |-> -1, sized |-> FALSE, value |-> 0, shown |-> << >>, said |-> Said(f, r)]
    BY <1>1 DEF NoRound
  <2> DEFINE says == Said(f, r)
  <2>2. round' = [loop |-> f, text |-> << >>, did |-> "nothing", reg |-> <<"none", 0>>,
                  node |-> -1, sized |-> FALSE, value |-> 0, shown |-> << >>, said |-> says]
    BY <2>1
  <2> HIDE DEF says
  <2>3. RoundShape' /\ round'.loop = f /\ round'.did = "nothing" /\ round'.said = says
        /\ round'.sized = FALSE
    BY ONLY <2>2, NewRound
  <2> QED BY <2>3 DEF says
<1>3. f.space \in Menus /\ f.keeps \in BOOLEAN /\ (f.keeps => f \in Repeats)
  BY <1>1, LoopFacts
<1>4. Said(f, r) = "success" => f \in Repeats
  BY <1>3 DEF Said
<1>5. Said(f, r) \in {"nothing", "value", "success", "error"}
  BY DEF Said
<1> HIDE DEF r
<1>6. DemoTypeOK' /\ RoundInv'
  BY <1>1, <1>2, <1>3, <1>4, <1>5 DEF DemoTypeOK, RoundInv
<1> QED BY <1>1, <1>2, <1>3, <1>6 DEF OpenInv, LoopInv, Menus

LEMMA DemoStep == DemoInv /\ [DemoNext]_demoVars => DemoInv'
<1> SUFFICES ASSUME DemoInv, [DemoNext]_demoVars PROVE DemoInv'
  OBVIOUS
<1>1. CASE UNCHANGED demoVars
  <2>1. RoundShape' /\ RoundInv'
    BY <1>1, SameRound DEF demoVars
  <2>2. DemoTypeOK' /\ OpenInv' /\ LoopInv'
    BY <1>1 DEF demoVars, DemoInv, DemoTypeOK, OpenInv, LoopInv
  <2> QED BY <2>1, <2>2 DEF DemoInv
<1>2. CASE DemoNext
  BY <1>2, ShowMenuKeeps, MenuKeeps, ChooseKeeps, VanishKeeps, CallsKeeps, OutOfRangeKeeps,
     NoSuchSizeKeeps DEF DemoNext
<1> QED BY <1>1, <1>2

\* For any nodes, texts and data: the demo's menus, files and rounds stay what they are, and
\* it never closes a file it has not opened.
THEOREM LegacyDemoTypeCorrect == DemoSpec => []DemoTypeOK
<1>1. DemoInv => DemoTypeOK
  BY DEF DemoInv
<1> QED BY <1>1, DemoStart, DemoStep, PTL DEF DemoSpec

\* For any nodes and texts, any data of an unsigned int's width and any place of the windows:
\* an operation of the demo reaches the register the user typed, of the device he chose, the
\* value shown is the value read, and success is said of what succeeded, save where
\* DemoTellsTruth says otherwise.
THEOREM LegacyDemoTellsTruth == DemoSpec => []DemoTellsTruth
<1>1. DemoInv => DemoTellsTruth
  BY DEF DemoInv, OpenInv, RoundInv, DemoTellsTruth
<1> QED BY <1>1, DemoStart, DemoStep, PTL DEF DemoSpec
-----------------------------------------------------------------------------
(* The parts together *)

LegacyInv == IrqInv /\ NoSleeperMissed /\ ProbeInv /\ RegsTypeOK /\ DemoInv

\* Whatever part a step moves, it is a step of that part or leaves it alone.
LEMMA PartSteps ==
  ASSUME [Next]_vars
  PROVE  [IrqNext]_irqVars /\ [ProbeNext]_probeVars /\ [RegsNext]_regVars /\ [DemoNext]_demoVars
<1>1. IrqPart \/ PollPart => IrqNext
  BY DEF IrqPart, PollPart, IrqNext
<1>2. CASE UNCHANGED vars
  BY <1>2 DEF vars
<1>3. CASE Next
  BY <1>1, <1>3 DEF Next, Only
<1> QED BY <1>2, <1>3

LEMMA LegacyInvariant == Spec => []LegacyInv
<1>1. Init => LegacyInv
  BY IrqStart, SleeperStart, ProbeStart, RegsStart, DemoStart DEF Init, LegacyInv
<1>2. LegacyInv /\ [Next]_vars => LegacyInv'
  <2> SUFFICES ASSUME LegacyInv, [Next]_vars PROVE LegacyInv'
    OBVIOUS
  <2>1. [IrqNext]_irqVars /\ [ProbeNext]_probeVars /\ [RegsNext]_regVars /\ [DemoNext]_demoVars
    BY PartSteps
  <2>2. IrqInv'
    BY <2>1, IrqStep DEF LegacyInv
  <2>3. NoSleeperMissed'
    BY <2>1, SleeperStep DEF LegacyInv, IrqInv
  <2>4. ProbeInv'
    BY <2>1, ProbeStep DEF LegacyInv
  <2>5. RegsTypeOK'
    BY <2>1, RegsTypeStep DEF LegacyInv
  <2>6. DemoInv'
    BY <2>1, DemoStep DEF LegacyInv
  <2> QED BY <2>2, <2>3, <2>4, <2>5, <2>6 DEF LegacyInv
<1> QED BY <1>1, <1>2, PTL DEF Spec

\* For any users, devices, sizes, texts and data: the driver, the library and the demo keep
\* their types, in whatever part a behaviour moves.
THEOREM LegacyTypeCorrect == Spec => []TypeOK
<1>1. LegacyInv => TypeOK
  BY DEF LegacyInv, IrqInv, ProbeInv, DemoInv, TypeOK
<1> QED BY <1>1, LegacyInvariant, PTL
===================================================================================
