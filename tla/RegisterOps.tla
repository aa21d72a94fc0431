------------------------------ MODULE RegisterOps ------------------------------
(***************************************************************************)
(* Byte-addressed register spaces, and requests on a run of their bytes.   *)
(* A value of several bytes is a function from its byte positions, lowest  *)
(* first, which is the order the bytes have in the chip and in memory.     *)
(***************************************************************************)
EXTENDS Naturals

CONSTANTS Spaces,   \* the register spaces: config, io, mem
          Extent,   \* bytes in a space
          MaxLen,   \* the longest request: sizeof(mCH368_MEM_REG)
          Bytes,    \* values of a byte
          Zero      \* the zero byte

ASSUME ExtentAssumption == Extent \in Nat \ {0} /\ MaxLen \in Nat \ {0}
ASSUME BytesAssumption  == Zero \in Bytes

Addrs  == 0..(Extent - 1)
Span   == 0..(MaxLen - 1)
Values == [Span -> Bytes]
Stores == [Spaces -> [Addrs -> Bytes]]

\* A request: the run of len bytes from at, and for a write what to store there.
Requests == [op : {"none", "read", "write"}, space : Spaces, at : Addrs,
             len : 0..MaxLen, data : Values]

Blank == [i \in Span |-> Zero]

\* The values of n bytes.
Payloads(n) == {d \in Values : \A i \in Span : i >= n => d[i] = Zero}

\* store with the first n bytes of d put at space s, address at.
Put(store, s, at, d, n) ==
  [store EXCEPT ![s] = [a \in Addrs |-> IF at <= a /\ a < at + n THEN d[a - at]
                                                                 ELSE store[s][a]]]

\* The first n bytes of d, and zeros after them.
Cut(d, n) == [i \in Span |-> IF i < n THEN d[i] ELSE Zero]

\* The n bytes at space s, address at.
Take(store, s, at, n) == [i \in Span |-> IF i < n THEN store[s][at + i] ELSE Zero]
===============================================================================
