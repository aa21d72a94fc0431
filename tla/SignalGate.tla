------------------------------ MODULE SignalGate ------------------------------
(***************************************************************************)
(* What the CH36x driver promises a process that asked for SIGIO: a signal *)
(* is sent only on the strength of a grant, a grant is made only while     *)
(* interrupts are authorised, and one grant pays for one round of signals. *)
(* Authorisation may be withdrawn between the grant and the delivery (the  *)
(* handler runs beside the system calls), so one late round is allowed and *)
(* a second one is not.                                                    *)
(***************************************************************************)
CONSTANT Files          \* who may be subscribed

VARIABLES authorised,   \* may a new grant be made?
          granted,      \* is a grant outstanding?
          delivered     \* the subscribers with an unhandled signal

gateVars == <<authorised, granted, delivered>>

GateInit ==
  /\ authorised \in BOOLEAN
  /\ granted = FALSE
  /\ delivered = {}

Authorise ==
  /\ authorised' \in BOOLEAN
  /\ UNCHANGED <<granted, delivered>>

Grant ==
  /\ authorised
  /\ ~granted
  /\ granted' = TRUE
  /\ UNCHANGED <<authorised, delivered>>

Deliver ==
  /\ granted
  /\ granted' = FALSE
  /\ delivered' \in {delivered \union S : S \in SUBSET Files}
  /\ UNCHANGED authorised

Handle ==
  /\ \E f \in delivered : delivered' = delivered \ {f}
  /\ UNCHANGED <<authorised, granted>>

GateNext == Authorise \/ Grant \/ Deliver \/ Handle

GateSpec == GateInit /\ [][GateNext]_gateVars

===============================================================================
