------------------------------ MODULE RegisterFile ------------------------------
(***************************************************************************)
(* What the CH36x library promises its callers: each register access that  *)
(* succeeds takes effect at one instant between its call and its return,   *)
(* whole, whatever its length and whoever else is calling.  One that fails *)
(* is seen to fail; a failed write has stored a first part of its bytes    *)
(* and zeros for the rest.                                                 *)
(* Registers the device itself changes are volatile.                       *)
(***************************************************************************)
EXTENDS RegisterOps

CONSTANTS Clients, Volatile   \* Volatile: set of <<space, address>>

VARIABLES store, request, answer, reply

fileVars == <<store, request, answer, reply>>

FileInit ==
  /\ store \in Stores
  /\ request \in [Clients -> {r \in Requests : r.op = "none"}]
  /\ answer = [c \in Clients |-> "none"]
  /\ reply = [c \in Clients |-> Blank]

Invoke(c) ==
  /\ request[c].op = "none"
  /\ \E r \in Requests : r.op # "none" /\ request' = [request EXCEPT ![c] = r]
  /\ UNCHANGED <<store, answer, reply>>

ServeWrite(c) ==
  /\ request[c].op = "write" /\ answer[c] = "none"
  /\ \E n \in 0..request[c].len :
       /\ store' = Put(store, request[c].space, request[c].at, Cut(request[c].data, n),
                       request[c].len)
       /\ answer' = [answer EXCEPT ![c] = IF n = request[c].len THEN "ok" ELSE "fail"]
  /\ UNCHANGED <<request, reply>>

ServeRead(c) ==
  /\ request[c].op = "read" /\ answer[c] = "none"
  /\ \/ /\ answer' = [answer EXCEPT ![c] = "ok"]
        /\ reply' = [reply EXCEPT ![c] = Take(store, request[c].space, request[c].at, request[c].len)]
     \/ /\ answer' = [answer EXCEPT ![c] = "fail"]
        /\ UNCHANGED reply
  /\ UNCHANGED <<store, request>>

Return(c) ==
  /\ answer[c] # "none"
  /\ request' \in {[request EXCEPT ![c] = r] : r \in {q \in Requests : q.op = "none"}}
  /\ answer' = [answer EXCEPT ![c] = "none"]
  /\ reply' = [reply EXCEPT ![c] = Blank]
  /\ UNCHANGED store

Device ==
  /\ \E v \in Volatile, b \in Bytes : store' = [store EXCEPT ![v[1]][v[2]] = b]
  /\ UNCHANGED <<request, answer, reply>>

FileNext == Device \/ \E c \in Clients : Invoke(c) \/ ServeWrite(c) \/ ServeRead(c) \/ Return(c)

FileSpec == FileInit /\ [][FileNext]_fileVars
===============================================================================
