------------------------------ MODULE Ch36xRegs_proofs ------------------------------
(***************************************************************************)
(* Proofs about register access, for any number of threads, any size of    *)
(* the register spaces and of sizeof(long), and any bound on a block.      *)
(***************************************************************************)
EXTENDS Ch36xRegs, TLAPS

\* The spaces whose argument structs the driver reads as the library wrote
\* them.  (In config space it does not: the run regs_config shows it.)
NoConfig == "config" \notin Spaces

-----------------------------------------------------------------------------
(* Putting bytes into a register space *)

\* A store with bytes put in it is a store.
LEMMA PutType ==
  ASSUME NEW store \in Stores, NEW s \in Spaces, NEW at \in Addrs, NEW d \in Values,
         NEW n \in 0..MaxLen
  PROVE  Put(store, s, at, d, n) \in Stores
<1> DEFINE new == [a \in Addrs |-> IF at <= a /\ a < at + n THEN d[a - at] ELSE store[s][a]]
<1>1. \A a \in Addrs : at <= a /\ a < at + n => a - at \in Span
  BY ExtentAssumption DEF Addrs, Span
<1>2. new \in [Addrs -> Bytes]
  BY <1>1 DEF Values, Stores
<1> QED BY <1>2 DEF Put, Stores

\* A block of which nothing has been moved yet has changed nothing.
LEMMA PutNothing ==
  ASSUME NEW store \in Stores, NEW s \in Spaces, NEW at \in Addrs, NEW d \in Values
  PROVE  Put(store, s, at, d, 0) = store
<1> DEFINE new == [a \in Addrs |-> IF at <= a /\ a < at + 0 THEN d[a - at] ELSE store[s][a]]
<1>1. \A a \in Addrs : ~(at <= a /\ a < at + 0)
  BY ExtentAssumption DEF Addrs
<1>2. new = store[s]
  BY <1>1 DEF Stores
<1> HIDE DEF new
<1>3. [store EXCEPT ![s] = new] = store
  BY <1>2 DEF Stores
<1> QED BY <1>3 DEF Put, new

\* One byte more of a block is one more register changed.
LEMMA PutNext ==
  ASSUME NEW store \in Stores, NEW s \in Spaces, NEW at \in Addrs, NEW d \in Values,
         NEW n \in 0..(MaxLen - 1), at + n \in Addrs
  PROVE  Put(store, s, at, d, n + 1) = [Put(store, s, at, d, n) EXCEPT ![s][at + n] = d[n]]
<1> DEFINE upTo(k) == [a \in Addrs |-> IF at <= a /\ a < at + k THEN d[a - at] ELSE store[s][a]]
<1>1. upTo(n + 1) = [upTo(n) EXCEPT ![at + n] = d[n]]
  <2>1. \A a \in Addrs : upTo(n + 1)[a] = [upTo(n) EXCEPT ![at + n] = d[n]][a]
    BY ExtentAssumption DEF Addrs
  <2> QED BY <2>1
<1> HIDE DEF upTo
<1>2. [store EXCEPT ![s] = upTo(n + 1)] = [[store EXCEPT ![s] = upTo(n)] EXCEPT ![s][at + n] = d[n]]
  BY <1>1 DEF Stores
<1> QED BY <1>2 DEF Put, upTo

\* What changes in another space changes under a block as it does without it.
LEMMA PutElsewhere ==
  ASSUME NEW store \in Stores, NEW s \in Spaces, NEW at \in Addrs, NEW d \in Values,
         NEW n \in 0..MaxLen, NEW old, old = Put(store, s, at, d, n),
         NEW new \in Stores, NEW other \in Stores,
         new[s] = old[s], other[s] = store[s],
         \A v \in Spaces : v # s => new[v] = other[v]
  PROVE  new = Put(other, s, at, d, n)
<1> DEFINE block(st) == [x \in Addrs |-> IF at <= x /\ x < at + n THEN d[x - at] ELSE st[s][x]]
<1>1. new[s] = block(store) /\ block(other) = block(store)
  BY DEF Put, Stores
<1> HIDE DEF block
<1>2. new = [other EXCEPT ![s] = block(other)]
  BY <1>1 DEF Stores
<1> QED BY <1>2 DEF Put, block

\* A part of a value, and zeros, is a value.
LEMMA CutType ==
  ASSUME NEW d \in Values, NEW n \in Nat
  PROVE  Cut(d, n) \in Values
BY BytesAssumption DEF Cut, Values

\* A block that has been moved up to n and filled with zeros from there on is
\* a block of the value cut off at n.
LEMMA PutCut ==
  ASSUME NEW store \in Stores, NEW s \in Spaces, NEW at \in Addrs, NEW d \in Values,
         NEW len \in 0..MaxLen, NEW n \in 0..len,
         NEW part, part = Put(store, s, at, d, n)
  PROVE  Put(part, s, at + n, Blank, len - n) = Put(store, s, at, Cut(d, n), len)
<1> DEFINE moved == [a \in Addrs |-> IF at <= a /\ a < at + n THEN d[a - at] ELSE store[s][a]]
           rest  == [a \in Addrs |-> IF at + n <= a /\ a < at + n + (len - n)
                                       THEN Blank[a - (at + n)] ELSE part[s][a]]
           whole == [a \in Addrs |-> IF at <= a /\ a < at + len
                                       THEN Cut(d, n)[a - at] ELSE store[s][a]]
<1>1. part = [store EXCEPT ![s] = moved] /\ part[s] = moved
  BY DEF Put, Stores
<1>2. ASSUME NEW a \in Addrs PROVE rest[a] = whole[a]
  <2> USE ExtentAssumption DEF Addrs, Span
  <2>1. CASE a < at
    BY <1>1, <2>1
  <2>2. CASE at <= a /\ a < at + n
    <3>1. a - at \in Span /\ a - at < n
      BY <2>2
    <3> QED BY <1>1, <2>2, <3>1 DEF Cut
  <2>3. CASE at + n <= a /\ a < at + len
    <3>1. a - at \in Span /\ ~(a - at < n) /\ a - (at + n) \in Span
      BY <2>3
    <3> QED BY <2>3, <3>1 DEF Cut, Blank
  <2>4. CASE at + len <= a
    BY <1>1, <2>4
  <2> QED BY <2>1, <2>2, <2>3, <2>4
<1>3. rest = whole
  BY <1>2
<1> HIDE DEF moved, rest, whole
<1>4. [part EXCEPT ![s] = rest] = [store EXCEPT ![s] = whole]
  BY <1>1, <1>3 DEF Stores
<1> QED BY <1>4 DEF Put, rest, whole

\* Of a value that is moved whole nothing is cut off.
LEMMA PutWhole ==
  ASSUME NEW store \in Stores, NEW s \in Spaces, NEW at \in Addrs, NEW d \in Values,
         NEW len \in 0..MaxLen
  PROVE  Put(store, s, at, Cut(d, len), len) = Put(store, s, at, d, len)
<1> DEFINE cut   == [a \in Addrs |-> IF at <= a /\ a < at + len THEN Cut(d, len)[a - at] ELSE store[s][a]]
           plain == [a \in Addrs |-> IF at <= a /\ a < at + len THEN d[a - at] ELSE store[s][a]]
<1>1. ASSUME NEW a \in Addrs, at <= a, a < at + len PROVE Cut(d, len)[a - at] = d[a - at]
  <2>1. a - at \in Span /\ a - at < len
    BY <1>1, ExtentAssumption DEF Addrs, Span
  <2> QED BY <2>1 DEF Cut
<1>2. cut = plain
  BY <1>1
<1> HIDE DEF cut, plain
<1>3. [store EXCEPT ![s] = cut] = [store EXCEPT ![s] = plain]
  BY <1>2
<1> QED BY <1>3 DEF Put, cut, plain

-----------------------------------------------------------------------------
(* The inductive invariant *)

\* io_mutex is held from mutex_lock to mutex_unlock.
Exclusive == \A t \in Threads : pc[t] \in {"access", "block", "unlock"} => mutex = t

\* What a thread has asked for, and how far it is.
Progress(t) ==
  LET c == call[t] IN
  /\ pc[t] = "idle" => c.op = "none"
  /\ pc[t] # "idle" => c.op # "none" /\ c.at + c.len <= Extent
  /\ pc[t] \in {"lock_block", "block"} => c.space = "mem"
  /\ pc[t] # "unlock" => outcome[t] = "none"
  /\ pc[t] = "unlock" => outcome[t] # "none"
  /\ pc[t] \in {"idle", "lock_block"} => done[t] = 0
  /\ pc[t] = "block" => done[t] <= c.len
  /\ pc[t] = "block" /\ c.op = "read"
       => \A i \in 0..(done[t] - 1) : frame[t][i] = regs[c.space][c.at + i]

\* The chip is as the accesses that ended made it, and the first bytes of
\* the block that is being written.
Writing(t) == pc[t] = "block" /\ call[t].op = "write"
Settled ==
  /\ (\A t \in Threads : ~Writing(t)) => settled = regs
  /\ \A t \in Threads : Writing(t) =>
       regs = Put(settled, call[t].space, call[t].at, call[t].data, done[t])

\* The handler only has something to write back where there is I/O space.
IsrInIo == stale # NoThread => "io" \in Spaces

RegsInv == TypeOK /\ Exclusive /\ (\A t \in Threads : Progress(t)) /\ Settled /\ IsrInIo

-----------------------------------------------------------------------------
(* It holds in every state *)

\* What nobody asked for is a request too.
LEMMA NoCallType == NoCall \in Requests /\ NoCall.op = "none" /\ Blank \in Values
BY SpacesAssumption, ExtentAssumption, BytesAssumption
DEF NoCall, Requests, Blank, Values, Addrs

\* The chip as the driver finds it, and nobody calling.
LEMMA InitInv == Init => RegsInv
<1> SUFFICES ASSUME Init PROVE RegsInv
  OBVIOUS
<1>1. Fresh \in [FrameSpan -> Bytes]
  BY MarkAssumption DEF Fresh
<1>2. TypeOK
  BY <1>1, NoCallType, ExtentAssumption DEF Init, TypeOK
<1> QED
  BY <1>2, NoCallType DEF Init, RegsInv, Exclusive, Progress, Settled, Writing, IsrInIo

\* Whoever holds the mutex is the only one between lock and unlock.
LEMMA Alone ==
  ASSUME TypeOK, Exclusive, NEW t \in Threads, mutex = t, NEW u \in Threads, u # t
  PROVE  pc[u] \in {"idle", "lock_access", "lock_block"}
BY DEF TypeOK, Exclusive

\* Outside a block of its own a thread's progress does not depend on the chip.
LEMMA ProgressKept ==
  ASSUME NEW u \in Threads, Progress(u), pc[u] # "block",
         pc'[u] = pc[u], call'[u] = call[u], done'[u] = done[u], outcome'[u] = outcome[u]
  PROVE  Progress(u)'
BY DEF Progress

\* The start of a call.
LEMMA CallStep ==
  ASSUME RegsInv, NEW t \in Threads, Call(t)
  PROVE  RegsInv'
<1> USE DEF RegsInv, IsrInIo
<1> PICK c \in Askable : CallAccess(t, c) \/ CallBlock(t, c)
  BY DEF Call
<1>1. c \in Requests /\ c.op # "none" /\ c.at + c.len <= Extent
  BY DEF Askable
<1>2. /\ call' = [call EXCEPT ![t] = c]
      /\ pc[t] = "idle"
      /\ pc' = [pc EXCEPT ![t] = "lock_access"] \/ (c.space = "mem" /\ pc' = [pc EXCEPT ![t] = "lock_block"])
      /\ UNCHANGED <<regs, mutex, done, frame, outcome, stale, settled>>
  BY DEF CallAccess, CallBlock, Goto
<1>3. TypeOK'
  BY <1>1, <1>2 DEF TypeOK
<1>4. Exclusive'
  BY <1>2 DEF TypeOK, Exclusive
<1>5. \A u \in Threads : Progress(u)'
  BY <1>1, <1>2 DEF TypeOK, Progress
<1>6. Settled'
  BY <1>2 DEF TypeOK, Settled, Writing
<1> QED BY <1>2, <1>3, <1>4, <1>5, <1>6

\* mutex_lock.
LEMMA LockStep ==
  ASSUME RegsInv, NEW t \in Threads, Locking(t)
  PROVE  RegsInv'
<1> USE DEF RegsInv, IsrInIo
<1>1. /\ mutex = NoThread /\ mutex' = t
      /\ \/ pc[t] = "lock_access" /\ pc' = [pc EXCEPT ![t] = "access"]
         \/ pc[t] = "lock_block" /\ pc' = [pc EXCEPT ![t] = "block"]
      /\ UNCHANGED <<regs, call, done, frame, outcome, stale, settled>>
  BY DEF Locking, LockAccess, LockBlock, Goto
<1>2. \A u \in Threads : pc[u] \in {"idle", "lock_access", "lock_block"}
  BY <1>1, ThreadAssumption DEF TypeOK, Exclusive
<1>3. TypeOK'
  BY <1>1 DEF TypeOK
<1>4. Exclusive'
  BY <1>1, <1>2 DEF TypeOK, Exclusive
<1>5. call[t] \in Requests /\ (done[t] = 0 \/ pc[t] = "lock_access")
  BY <1>1 DEF TypeOK, Progress
<1>6. \A u \in Threads : Progress(u)'
  BY <1>1, <1>2 DEF TypeOK, Progress, Requests
<1>7. settled = regs
  BY <1>2 DEF Settled, Writing
<1>8. Settled'
  <2>1. regs' = Put(settled', call'[t].space, call'[t].at, call'[t].data, 0)
    BY <1>1, <1>7, PutNothing DEF TypeOK, Requests
  <2>2. ASSUME NEW u \in Threads, Writing(u)' PROVE u = t /\ done'[u] = 0
    BY <1>1, <1>2, <2>2 DEF TypeOK, Writing, Progress
  <2> QED BY <1>1, <1>7, <2>1, <2>2 DEF Settled
<1> QED BY <1>1, <1>3, <1>4, <1>6, <1>8

\* Between lock and unlock of an access nobody writes a block.
LEMMA NobodyWrites ==
  ASSUME TypeOK, Exclusive, Settled, NEW t \in Threads, pc[t] \in {"access", "unlock"}
  PROVE  /\ settled = regs
         /\ \A u \in Threads : ~Writing(u)
<1>1. \A u \in Threads : ~Writing(u)
  BY DEF Exclusive, Writing
<1> QED BY <1>1 DEF Settled

\* One access to a register, and the return from it.
LEMMA AccessStep ==
  ASSUME RegsInv, NEW t \in Threads, WriteAccess(t) \/ ReadAccess(t)
  PROVE  RegsInv'
<1> USE DEF RegsInv, IsrInIo
<1>1. /\ pc[t] = "access" /\ pc' = [pc EXCEPT ![t] = "unlock"]
      /\ \E r \in {"ok", "fail"} : outcome' = [outcome EXCEPT ![t] = r]
      /\ UNCHANGED <<mutex, call, done, stale>>
  BY DEF WriteAccess, ReadAccess, Goto
<1>2. mutex = t /\ settled = regs
  BY <1>1, NobodyWrites DEF Exclusive
<1>3. \A u \in Threads \ {t} : pc[u] \in {"idle", "lock_access", "lock_block"}
  BY <1>2, Alone
<1>4. call[t] \in Requests
  BY DEF TypeOK
<1>5. /\ regs' \in Stores /\ settled' = regs'
      /\ frame' \in [Threads -> [FrameSpan -> Bytes]]
  <2>1. CASE WriteAccess(t)
    <3> PICK value \in Fetched(call[t]) : regs' = Put(regs, call[t].space, call[t].at, value, call[t].len)
      BY <2>1 DEF WriteAccess
    <3>1. value \in Values
      BY <1>4 DEF Fetched, Payloads, Requests
    <3> QED BY <1>4, <2>1, <3>1, PutType DEF WriteAccess, TypeOK, Requests
  <2>2. CASE ReadAccess(t)
    <3> DEFINE value == Take(regs, call[t].space, call[t].at, call[t].len)
    <3>1. \A i \in FrameSpan : i < call[t].len => value[i] \in Bytes
      <4> TAKE i \in FrameSpan
      <4> HAVE i < call[t].len
      <4>1. i \in Span /\ call[t].at + i \in Addrs
        BY <1>1, <1>4, ExtentAssumption, WidthsAssumption
        DEF FrameSpan, Span, Addrs, Requests, Progress
      <4> QED BY <1>4, <4>1 DEF Take, TypeOK, Stores, Requests
    <3> HIDE DEF value
    <3>2. PutLong(frame[t], value, call[t].len) \in [FrameSpan -> Bytes]
      BY <3>1, BytesAssumption DEF PutLong, TypeOK
    <3>3. frame' = frame \/ frame' = [frame EXCEPT ![t] = PutLong(@, value, call[t].len)]
      BY <2>2 DEF ReadAccess, value
    <3> QED BY <1>2, <2>2, <3>2, <3>3 DEF ReadAccess, TypeOK
  <2> QED BY <2>1, <2>2
<1>6. TypeOK'
  BY <1>1, <1>5 DEF TypeOK
<1>7. Exclusive'
  BY <1>1, <1>2 DEF TypeOK, Exclusive
<1>8. \A u \in Threads : Progress(u)'
  <2>1. \A u \in Threads \ {t} : Progress(u)'
    BY <1>1, <1>3, ProgressKept DEF TypeOK
  <2>2. Progress(t)'
    BY <1>1 DEF TypeOK, Progress
  <2> QED BY <2>1, <2>2
<1>9. Settled'
  BY <1>1, <1>3, <1>5 DEF TypeOK, Settled, Writing
<1> QED BY <1>1, <1>6, <1>7, <1>8, <1>9

\* One byte of a block.
LEMMA MoveStep ==
  ASSUME RegsInv, NEW t \in Threads, MoveByte(t)
  PROVE  RegsInv'
<1> USE DEF RegsInv, IsrInIo
<1> DEFINE c == call[t]
           n == done[t]
<1>1. /\ pc[t] = "block" /\ n < c.len
      /\ done' = [done EXCEPT ![t] = n + 1]
      /\ UNCHANGED <<mutex, pc, call, outcome, stale, settled>>
  BY DEF MoveByte
<1>2. mutex = t
  BY <1>1 DEF Exclusive
<1>3. \A u \in Threads \ {t} : pc[u] \in {"idle", "lock_access", "lock_block"}
  BY <1>2, Alone
<1>4. /\ c \in Requests /\ c.space \in Spaces /\ c.at \in Addrs /\ c.data \in Values
      /\ c.op \in {"read", "write"} /\ c.at + c.len <= Extent
      /\ c.len \in 0..MaxLen /\ n \in 0..MaxLen
  BY <1>1 DEF TypeOK, Requests, Progress
<1>5. n \in 0..(MaxLen - 1) /\ n \in Span /\ n \in FrameSpan /\ c.at + n \in Addrs
  BY <1>1, <1>4, ExtentAssumption DEF Span, FrameSpan, Addrs
<1>6. \A u \in Threads \ {t} : Progress(u)'
  BY <1>1, <1>3, ProgressKept DEF TypeOK
<1>7. done' \in [Threads -> 0..MaxLen] /\ done'[t] = n + 1
  BY <1>1, <1>4, <1>5, ExtentAssumption DEF TypeOK
<1>8. CASE c.op = "write"
  <2>1. regs' = [regs EXCEPT ![c.space][c.at + n] = c.data[n]] /\ frame' = frame
    BY <1>8 DEF MoveByte
  <2>2. c.data[n] \in Bytes
    BY <1>4, <1>5 DEF Values
  <2>3. regs' \in Stores
    BY <2>1, <2>2, <1>4, <1>5 DEF TypeOK, Stores
  <2>4. regs' = Put(settled, c.space, c.at, c.data, n + 1)
    <3>1. regs = Put(settled, c.space, c.at, c.data, n) /\ settled \in Stores
      BY <1>1, <1>8 DEF TypeOK, Settled, Writing
    <3> HIDE DEF c, n
    <3>2. Put(settled, c.space, c.at, c.data, n + 1)
            = [Put(settled, c.space, c.at, c.data, n) EXCEPT ![c.space][c.at + n] = c.data[n]]
      BY <1>4, <1>5, <3>1, PutNext
    <3> QED BY <2>1, <3>1, <3>2
  <2>5. TypeOK'
    BY <1>1, <1>7, <2>1, <2>3 DEF TypeOK
  <2>6. Progress(t)'
    BY <1>1, <1>4, <1>7, <1>8 DEF Progress
  <2>7. Settled'
    BY <1>1, <1>3, <1>7, <1>8, <2>4 DEF Settled, Writing
  <2> QED BY <1>1, <1>6, <2>5, <2>6, <2>7 DEF Exclusive
<1>9. CASE c.op = "read"
  <2>1. regs' = regs /\ frame' = [frame EXCEPT ![t][n] = regs[c.space][c.at + n]]
    BY <1>9 DEF MoveByte
  <2>2. regs[c.space][c.at + n] \in Bytes
    BY <1>4, <1>5 DEF TypeOK, Stores
  <2>3. frame' \in [Threads -> [FrameSpan -> Bytes]]
    BY <2>1, <2>2, <1>5 DEF TypeOK
  <2>4. TypeOK'
    BY <1>1, <1>7, <2>1, <2>3 DEF TypeOK
  <2>5. \A i \in 0..n : frame'[t][i] = regs[c.space][c.at + i]
    <3> TAKE i \in 0..n
    <3>1. i \in FrameSpan
      BY <1>5, ExtentAssumption DEF FrameSpan, Span
    <3>2. frame'[t] = [frame[t] EXCEPT ![n] = regs[c.space][c.at + n]]
      BY <2>1 DEF TypeOK
    <3>3. frame[t] \in [FrameSpan -> Bytes]
      BY DEF TypeOK
    <3>4. i # n => frame[t][i] = regs[c.space][c.at + i]
      BY <1>1, <1>4, <1>9 DEF Progress
    <3> QED BY <1>5, <3>1, <3>2, <3>3, <3>4
  <2>6. Progress(t)'
    BY <1>1, <1>4, <1>7, <1>9, <2>1, <2>5 DEF Progress
  <2>7. Settled'
    BY <1>1, <1>3, <1>9, <2>1 DEF Settled, Writing
  <2> QED BY <1>1, <1>6, <2>4, <2>6, <2>7 DEF Exclusive
<1> QED BY <1>4, <1>8, <1>9

\* What a block write leaves: as much of the value as was moved, and zeros.
LEMMA FilledRest ==
  ASSUME RegsInv, NEW t \in Threads, Writing(t), FillRest(t)
  PROVE  /\ call[t] \in Requests /\ done[t] \in 0..call[t].len
         /\ regs' = Put(settled, call[t].space, call[t].at, Cut(call[t].data, done[t]), call[t].len)
<1> USE DEF RegsInv
<1>1. /\ call[t].space \in Spaces /\ call[t].at \in Addrs /\ call[t].data \in Values
      /\ call[t].len \in 0..MaxLen /\ call[t] \in Requests /\ settled \in Stores
  BY DEF TypeOK, Requests
<1>2. done[t] \in 0..call[t].len
  BY <1>1 DEF Writing, Progress, TypeOK
<1>3. regs = Put(settled, call[t].space, call[t].at, call[t].data, done[t])
  BY DEF Settled
<1>4. regs' = Put(regs, call[t].space, call[t].at + done[t], Blank, call[t].len - done[t])
  BY DEF Writing, FillRest
<1> QED BY <1>1, <1>2, <1>3, <1>4, PutCut

\* The end of a block, whole or not.
LEMMA EndStep ==
  ASSUME RegsInv, NEW t \in Threads, EndBlock(t)
  PROVE  RegsInv'
<1> USE DEF RegsInv, IsrInIo
<1>1. /\ pc[t] = "block" /\ pc' = [pc EXCEPT ![t] = "unlock"]
      /\ \E r \in {"ok", "fail"} : outcome' = [outcome EXCEPT ![t] = r]
      /\ FillRest(t) /\ settled' = regs'
      /\ UNCHANGED <<mutex, call, done, frame, stale>>
  BY DEF EndBlock, Goto
<1>2. mutex = t
  BY <1>1 DEF Exclusive
<1>3. \A u \in Threads \ {t} : pc[u] \in {"idle", "lock_access", "lock_block"}
  BY <1>2, Alone
<1>4. TypeOK'
  <2>1. regs' \in Stores
    <3>1. CASE Writing(t)
      <4>1. /\ call[t] \in Requests /\ done[t] \in 0..call[t].len
            /\ regs' = Put(settled, call[t].space, call[t].at, Cut(call[t].data, done[t]),
                           call[t].len)
        BY <1>1, <3>1, FilledRest
      <4> QED BY <4>1, CutType, PutType DEF TypeOK, Requests
    <3>2. CASE ~Writing(t)
      BY <1>1, <3>2 DEF Writing, FillRest, TypeOK
    <3> QED BY <3>1, <3>2
  <2> QED BY <1>1, <2>1 DEF TypeOK
<1>5. Exclusive'
  BY <1>1, <1>2 DEF TypeOK, Exclusive
<1>6. \A u \in Threads : Progress(u)'
  <2>1. \A u \in Threads \ {t} : Progress(u)'
    BY <1>1, <1>3, ProgressKept DEF TypeOK
  <2>2. Progress(t)'
    BY <1>1 DEF TypeOK, Progress
  <2> QED BY <2>1, <2>2
<1>7. Settled'
  BY <1>1, <1>3 DEF TypeOK, Settled, Writing
<1> QED BY <1>1, <1>4, <1>5, <1>6, <1>7

\* mutex_unlock.
LEMMA UnlockStep ==
  ASSUME RegsInv, NEW t \in Threads, Unlock(t)
  PROVE  RegsInv'
<1> USE DEF RegsInv, IsrInIo
<1>1. /\ pc[t] = "unlock" /\ pc' = [pc EXCEPT ![t] = "idle"]
      /\ call' = [call EXCEPT ![t] = NoCall]
      /\ done' = [done EXCEPT ![t] = 0]
      /\ frame' = [frame EXCEPT ![t] = Fresh]
      /\ outcome' = [outcome EXCEPT ![t] = "none"]
      /\ mutex' = NoThread
      /\ UNCHANGED <<regs, stale, settled>>
  BY DEF Unlock, Goto
<1>2. mutex = t /\ settled = regs
  BY <1>1, NobodyWrites DEF Exclusive
<1>3. \A u \in Threads \ {t} : pc[u] \in {"idle", "lock_access", "lock_block"}
  BY <1>2, Alone
<1>4. Fresh \in [FrameSpan -> Bytes]
  BY MarkAssumption DEF Fresh
<1>5. TypeOK'
  BY <1>1, <1>4, NoCallType, ExtentAssumption DEF TypeOK
<1>6. Exclusive'
  BY <1>1, <1>3 DEF TypeOK, Exclusive
<1>7. \A u \in Threads : Progress(u)'
  <2>1. \A u \in Threads \ {t} : Progress(u)'
    BY <1>1, <1>3, ProgressKept DEF TypeOK
  <2>2. Progress(t)'
    BY <1>1, NoCallType DEF TypeOK, Progress
  <2> QED BY <2>1, <2>2
<1>8. Settled'
  BY <1>1, <1>2, <1>3 DEF TypeOK, Settled, Writing
<1> QED BY <1>1, <1>5, <1>6, <1>7, <1>8

\* The handler, which takes no mutex, and keeps out of memory space.
LEMMA IsrStep ==
  ASSUME RegsInv, IsrRead \/ IsrWrite
  PROVE  RegsInv'
<1> USE DEF RegsInv, IsrInIo
<1>1. CASE IsrRead
  BY <1>1, StatusAssumption
  DEF IsrRead, TypeOK, Stores, Exclusive, Progress, Settled, Writing
<1>2. CASE IsrWrite
  <2>1. /\ stale \in Bytes /\ Status[1] = "io" /\ "io" \in Spaces /\ Status[2] \in Addrs
    BY <1>2, StatusAssumption DEF IsrWrite, TypeOK
  <2>2. /\ regs' = [regs EXCEPT !["io"][Status[2]] = stale]
        /\ settled' = [settled EXCEPT !["io"][Status[2]] = stale]
        /\ stale' = NoThread
        /\ UNCHANGED <<mutex, pc, call, done, frame, outcome>>
    BY <1>2, <2>1 DEF IsrWrite
  <2>3. TypeOK'
    BY <2>1, <2>2 DEF TypeOK, Stores
  <2>4. \A s \in Spaces : s # "io" => regs'[s] = regs[s]
    BY <2>2 DEF TypeOK, Stores
  <2>5. ASSUME NEW u \in Threads PROVE Progress(u)'
    <3>1. pc[u] = "block" => regs'[call[u].space] = regs[call[u].space]
      BY <2>4 DEF TypeOK, Progress, Requests
    <3> QED BY <2>2, <3>1 DEF Progress
  <2>6. Settled'
    <3>1. ASSUME NEW u \in Threads, Writing(u)
          PROVE  regs' = Put(settled', call[u].space, call[u].at, call[u].data, done[u])
      <4>1. call[u].space = "mem" /\ call[u] \in Requests /\ done[u] \in 0..MaxLen
        BY <3>1 DEF Writing, Progress, TypeOK
      <4>2. regs = Put(settled, call[u].space, call[u].at, call[u].data, done[u])
        BY <3>1 DEF Settled
      <4>3. /\ settled \in Stores /\ call[u].space \in Spaces /\ call[u].space # "io"
            /\ call[u].at \in Addrs /\ call[u].data \in Values
        BY <4>1 DEF TypeOK, Requests
      <4>4. /\ regs'[call[u].space] = regs[call[u].space]
            /\ settled'[call[u].space] = settled[call[u].space]
            /\ \A v \in Spaces : v # call[u].space => regs'[v] = settled'[v]
        <5>1. \A v \in Spaces : v # call[u].space => regs[v] = settled[v]
          BY <4>2, <4>3 DEF Put, Stores
        <5> QED BY <2>1, <2>2, <4>3, <5>1 DEF TypeOK, Stores
      <4> QED BY <2>3, <4>1, <4>2, <4>3, <4>4, PutElsewhere DEF TypeOK
    <3> QED BY <2>2, <3>1 DEF Settled, Writing
  <2>7. Exclusive'
    BY <2>2 DEF Exclusive
  <2> QED BY <2>1, <2>2, <2>3, <2>5, <2>6, <2>7
<1> QED BY <1>1, <1>2

\* Every step keeps the invariant.
LEMMA StepInv == RegsInv /\ [Next]_vars => RegsInv'
<1> SUFFICES ASSUME RegsInv, [Next]_vars PROVE RegsInv'
  OBVIOUS
<1>1. CASE UNCHANGED vars
  BY <1>1 DEF vars, RegsInv, TypeOK, Exclusive, Progress, Settled, Writing, IsrInIo
<1> QED
  BY <1>1, CallStep, LockStep, AccessStep, MoveStep, EndStep, UnlockStep, IsrStep
  DEF Next, Running

\* The mutex excludes, and the chip is what the accesses made of it.
THEOREM RegsInvariant == Spec => []RegsInv
BY InitInv, StepInv, PTL DEF Spec

\* Every variable keeps its type, whatever the callers ask for: no access and
\* no block leaves its register space, the caller's memory or its values.
THEOREM RegsTypeCorrect == Spec => []TypeOK
<1>1. RegsInv => TypeOK
  BY DEF RegsInv
<1> QED BY <1>1, RegsInvariant, PTL

-----------------------------------------------------------------------------
(* Every access is atomic *)

\* The promise and the driver speak of the same requests and values.
LEMMA SameOps ==
  /\ File!Requests = Requests /\ File!Stores = Stores /\ File!Blank = Blank
  /\ \A st, s, at, d, n : File!Put(st, s, at, d, n) = Put(st, s, at, d, n)
  /\ \A d, n : File!Cut(d, n) = Cut(d, n)
  /\ \A st, s, at, n : File!Take(st, s, at, n) = Take(st, s, at, n)
BY DEF File!Requests, Requests, File!Stores, Stores, File!Blank, Blank, File!Put, Put,
       File!Cut, Cut, File!Take, Take, File!Values, Values, File!Addrs, Addrs, File!Span, Span

\* A call that has not ended, or is not a read, has no reply.
LEMMA NoReply ==
  ASSUME NEW t, outcome[t] # "ok" \/ call[t].op # "read"
  PROVE  Reply(t) = Blank
BY DEF Reply

\* A step that leaves every call, outcome and result alone is none of the promise's.
LEMMA ReplyKept ==
  ASSUME NEW u, call'[u] = call[u], outcome'[u] = outcome[u],
         frame'[u] = frame[u] \/ outcome[u] # "ok"
  PROVE  Reply(u)' = Reply(u)
BY DEF Reply

\* The whole of a write.
LEMMA WriteServes ==
  ASSUME NoConfig, RegsInv, NEW t \in Threads, WriteAccess(t)
  PROVE  File!ServeWrite(t)
<1> USE DEF RegsInv
<1> DEFINE c == call[t]
<1>1. /\ c.op = "write" /\ pc[t] = "access" /\ outcome[t] = "none"
      /\ c \in Requests /\ settled = regs
  BY NobodyWrites DEF WriteAccess, Goto, Progress, TypeOK
<1>2. Fetched(c) = {c.data}
  BY <1>1, SpacesAssumption DEF NoConfig, Fetched, ValueAt, Requests
<1>3. settled' = Put(settled, c.space, c.at, Cut(c.data, c.len), c.len)
  <2>1. settled' = Put(settled, c.space, c.at, c.data, c.len)
    BY <1>1, <1>2 DEF WriteAccess
  <2>2. /\ c.space \in Spaces /\ c.at \in Addrs /\ c.data \in Values /\ c.len \in 0..MaxLen
        /\ settled \in Stores
    BY <1>1 DEF TypeOK, Requests
  <2> HIDE DEF c
  <2> QED BY <2>1, <2>2, PutWhole
<1>4. outcome' = [outcome EXCEPT ![t] = "ok"] /\ UNCHANGED <<call, frame>>
  BY DEF WriteAccess
<1>5. \A u \in Threads : Reply(u)' = Reply(u)
  <2> TAKE u \in Threads
  <2>1. CASE u = t
    BY <1>1, <1>4, <2>1, NoReply DEF Reply
  <2>2. CASE u # t
    BY <1>4, <2>2, ReplyKept DEF TypeOK
  <2> QED BY <2>1, <2>2
<1>6. c.len \in 0..c.len
  BY <1>1 DEF Requests
<1> QED
  BY <1>1, <1>3, <1>4, <1>5, <1>6, SameOps DEF File!ServeWrite

\* The whole of a read.
LEMMA ReadServes ==
  ASSUME RegsInv, NEW t \in Threads, ReadAccess(t)
  PROVE  File!ServeRead(t)
<1> USE DEF RegsInv
<1> DEFINE c == call[t]
           value == Take(regs, c.space, c.at, c.len)
<1>1. /\ c.op = "read" /\ pc[t] = "access" /\ outcome[t] = "none"
      /\ c \in Requests /\ settled = regs
      /\ UNCHANGED <<regs, call, settled>>
  BY NobodyWrites DEF ReadAccess, Goto, Progress, TypeOK
<1>2. CASE /\ frame' = [frame EXCEPT ![t] = PutLong(@, value, c.len)]
           /\ outcome' = [outcome EXCEPT ![t] = "ok"]
  <2>1. Reply(t)' = Take(settled, c.space, c.at, c.len)
    <3>1. \A i \in Span : i \in FrameSpan
      BY DEF FrameSpan
    <3>2. frame'[t] = PutLong(frame[t], value, c.len)
      BY <1>2 DEF TypeOK
    <3>3. outcome'[t] = "ok" /\ call'[t] = c
      BY <1>1, <1>2 DEF TypeOK
    <3> QED BY <1>1, <3>1, <3>2, <3>3 DEF Reply, PutLong, Take
  <2>2. \A u \in Threads \ {t} : Reply(u)' = Reply(u)
    BY <1>1, <1>2, ReplyKept DEF TypeOK
  <2>3. [u \in Threads |-> Reply(u)]'
          = [[u \in Threads |-> Reply(u)] EXCEPT ![t] = Take(settled, c.space, c.at, c.len)]
    BY <2>1, <2>2
  <2> HIDE DEF c
  <2> QED BY <1>1, <1>2, <2>3, SameOps DEF File!ServeRead, c
<1>3. CASE outcome' = [outcome EXCEPT ![t] = "fail"] /\ UNCHANGED frame
  <2>1. \A u \in Threads : Reply(u)' = Reply(u)
    BY <1>1, <1>3 DEF TypeOK, Reply
  <2> QED BY <1>1, <1>3, <2>1 DEF File!ServeRead
<1> QED BY <1>2, <1>3 DEF ReadAccess

\* The end of a block is its instant: of a write as far as it came, or of a
\* whole read, for nobody else has written memory space meanwhile.
LEMMA BlockServes ==
  ASSUME RegsInv, NEW t \in Threads, EndBlock(t)
  PROVE  File!ServeWrite(t) \/ File!ServeRead(t)
<1> USE DEF RegsInv
<1> DEFINE c == call[t]
<1>1. /\ pc[t] = "block" /\ outcome[t] = "none" /\ mutex = t
      /\ c \in Requests /\ c.op \in {"read", "write"} /\ done[t] \in 0..c.len
      /\ outcome' = [outcome EXCEPT ![t] = IF done[t] = c.len THEN "ok" ELSE "fail"]
      /\ FillRest(t) /\ settled' = regs' /\ UNCHANGED <<call, frame>>
  BY DEF EndBlock, Goto, Progress, TypeOK, Exclusive, Requests
<1>2. \A u \in Threads \ {t} : Reply(u)' = Reply(u) /\ ~Writing(u)
  BY <1>1, ReplyKept, Alone DEF TypeOK, Writing
<1>3. CASE c.op = "write"
  <2>1. settled' = Put(settled, c.space, c.at, Cut(c.data, done[t]), c.len)
    BY <1>1, <1>3, FilledRest DEF Writing
  <2>2. \A u \in Threads : Reply(u)' = Reply(u)
    BY <1>1, <1>2, <1>3 DEF Reply
  <2> QED BY <1>1, <1>3, <2>1, <2>2, SameOps DEF File!ServeWrite
<1>4. CASE c.op = "read"
  <2>1. settled = regs /\ regs' = regs
    BY <1>1, <1>2, <1>4 DEF Settled, Writing, FillRest
  <2>2. CASE done[t] = c.len
    <3>1. \A i \in Span : i < c.len => frame[t][i] = settled[c.space][c.at + i]
      BY <1>1, <1>4, <2>1, <2>2 DEF Progress, Span, Requests
    <3>2. Reply(t)' = Take(settled, c.space, c.at, c.len)
      BY <1>1, <1>4, <2>2, <3>1 DEF Reply, Take, TypeOK
    <3>3. [u \in Threads |-> Reply(u)]'
            = [[u \in Threads |-> Reply(u)] EXCEPT ![t] = Take(settled, c.space, c.at, c.len)]
      BY <1>2, <3>2
    <3> HIDE DEF c
    <3> QED BY <1>1, <1>4, <2>1, <2>2, <3>3, SameOps DEF File!ServeRead, c
  <2>3. CASE done[t] # c.len
    <3>1. \A u \in Threads : Reply(u)' = Reply(u)
      BY <1>1, <1>2, <2>3 DEF Reply, TypeOK
    <3> QED BY <1>1, <1>4, <2>1, <2>3, <3>1 DEF File!ServeRead
  <2> QED BY <2>2, <2>3
<1> QED BY <1>1, <1>3, <1>4

\* What the driver does, the promise allows.
LEMMA StepServes ==
  ASSUME NoConfig, RegsInv, [Next]_vars
  PROVE  File!FileNext \/ UNCHANGED File!fileVars
<1> USE DEF RegsInv, File!fileVars, File!FileNext
<1>1. CASE UNCHANGED vars
  BY <1>1 DEF vars, Reply
<1>2. ASSUME NEW t \in Threads, Call(t) PROVE File!Invoke(t)
  <2> PICK c \in Askable : CallAccess(t, c) \/ CallBlock(t, c)
    BY <1>2 DEF Call
  <2>1. /\ call[t].op = "none" /\ c \in Requests /\ c.op # "none"
        /\ call' = [call EXCEPT ![t] = c]
        /\ UNCHANGED <<settled, outcome, frame>>
    BY DEF Askable, CallAccess, CallBlock, Goto, Progress
  <2>2. \A u \in Threads : Reply(u)' = Reply(u)
    <3>1. outcome[t] # "ok"
      BY DEF Progress, CallAccess, CallBlock, Goto
    <3> QED BY <2>1, <3>1 DEF Reply, TypeOK
  <2> QED BY <2>1, <2>2, SameOps DEF File!Invoke
<1>3. ASSUME NEW t \in Threads, Locking(t) PROVE UNCHANGED File!fileVars
  BY <1>3 DEF Locking, LockAccess, LockBlock, Reply
<1>4. ASSUME NEW t \in Threads, MoveByte(t) PROVE UNCHANGED File!fileVars
  <2>1. UNCHANGED <<call, outcome, settled>> /\ outcome[t] # "ok"
    BY <1>4 DEF MoveByte, Progress
  <2>2. \A u \in Threads \ {t} : frame'[u] = frame[u]
    BY <1>4 DEF MoveByte, TypeOK
  <2>3. \A u \in Threads : Reply(u)' = Reply(u)
    BY <2>1, <2>2, ReplyKept
  <2> QED BY <2>1, <2>3
<1>5. ASSUME NEW t \in Threads, Unlock(t) PROVE File!Return(t)
  <2>1. /\ outcome[t] # "none" /\ call' = [call EXCEPT ![t] = NoCall]
        /\ outcome' = [outcome EXCEPT ![t] = "none"]
        /\ UNCHANGED settled
    BY <1>5 DEF Unlock, Goto, Progress
  <2>2. Reply(t)' = Blank
    BY <2>1, NoReply DEF TypeOK, Reply
  <2>3. \A u \in Threads \ {t} : Reply(u)' = Reply(u)
    BY <1>5 DEF Unlock, TypeOK, Reply
  <2>4. [u \in Threads |-> Reply(u)]' = [[u \in Threads |-> Reply(u)] EXCEPT ![t] = Blank]
    BY <2>2, <2>3
  <2> QED BY <2>1, <2>4, NoCallType, SameOps DEF File!Return
<1>6. CASE IsrRead
  BY <1>6 DEF IsrRead, Reply
<1>7. CASE IsrWrite
  <2>1. stale \in Bytes
    BY <1>7 DEF IsrWrite, TypeOK
  <2> QED BY <1>7, <2>1 DEF IsrWrite, File!Device, Reply
<1> QED
  BY <1>1, <1>2, <1>3, <1>4, <1>5, <1>6, <1>7, WriteServes, ReadServes, BlockServes
  DEF Next, Running

\* The library and the driver implement RegisterFile: outside config space
\* every access and every block that succeeds takes effect whole, at one
\* instant between call and return, whatever the other threads and the
\* interrupt handler do; one that fails is seen to fail, and if it is a write
\* it has stored a first part of its bytes, and zeros for the rest.
THEOREM ImplementsRegisterFile == ASSUME NoConfig PROVE Spec => AtomicRegisters
<1>1. Init => File!FileInit
  <2> SUFFICES ASSUME Init PROVE File!FileInit
    OBVIOUS
  <2>1. \A t \in Threads : Reply(t) = Blank
    BY DEF Init, Reply
  <2> QED BY <2>1, NoCallType, SameOps DEF Init, File!FileInit
<1>2. RegsInv /\ [Next]_vars => [File!FileNext]_(File!fileVars)
  BY StepServes
<1> QED
  BY <1>1, <1>2, RegsInvariant, PTL DEF Spec, AtomicRegisters, File!FileSpec
===============================================================================
