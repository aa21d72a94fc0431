------------------------------- MODULE GpioButton -------------------------------
(***************************************************************************)
(* The button and the LED of gpio_intr.c and gpio_wakeup.c: the handler of *)
(* a rising edge, which filters bounces by the jiffies counter and toggles *)
(* the output, and the device file, which sets the output from another CPU *)
(* at any moment.  jiffies is an unsigned long that starts shortly before  *)
(* it wraps; clock is the time it counts.                                  *)
(***************************************************************************)
EXTENDS Integers

CONSTANTS Window,    \* ticks within which an edge is a bounce (20 in the code)
          Wrap,      \* jiffies counts modulo this
          Boot,      \* jiffies when the module is loaded
          MaxClock   \* bound: how long the instance is watched

ASSUME ButtonAssumption ==
  /\ Window \in Nat \ {0} /\ Wrap \in Nat /\ Window < Wrap
  /\ Boot \in 0 .. (Wrap - 1) /\ MaxClock \in Nat

VARIABLES clock,       \* ticks since the module was loaded
          old_jiffie,  \* jiffies when the last accepted edge was stamped
          led_toggle, pin,
          irqAt,       \* where the handler is
          stamped,     \* history: clock at the last stamp, -1 if there was none
          edge,        \* history: the time since then at the last edge, and if it was taken
          touched      \* history: has the file set the pin since the handler did?

buttonVars == <<clock, old_jiffie, led_toggle, pin, irqAt, stamped, edge, touched>>

jiffies == (Boot + clock) % Wrap

ButtonInit ==
  /\ clock = 0 /\ old_jiffie = 0 /\ led_toggle = 0 /\ pin = 0
  /\ irqAt = "idle" /\ stamped = -1 /\ edge = [gap |-> -1, taken |-> FALSE]
  /\ touched = FALSE

Tick ==
  /\ clock < MaxClock /\ clock' = clock + 1
  /\ UNCHANGED <<old_jiffie, led_toggle, pin, irqAt, stamped, edge, touched>>

(* Mutant: the difference is not one of unsigned numbers. *)
DiffSigned == IF jiffies >= old_jiffie THEN jiffies - old_jiffie ELSE 0

(* unsigned long diff = jiffies - old_jiffie; if (diff < 20) return.       *)
Diff == (jiffies - old_jiffie + Wrap) % Wrap

SeeEdge(taken) ==
  edge' = [gap |-> IF stamped = -1 THEN -1 ELSE clock - stamped, taken |-> taken]

(* Mutant: a bounce toggles before it is seen to be one. *)
IgnoreEdgeToggles ==
  /\ irqAt = "idle" /\ Diff < Window
  /\ led_toggle' = 1 - led_toggle /\ SeeEdge(FALSE)
  /\ UNCHANGED <<clock, old_jiffie, pin, irqAt, stamped, touched>>

IgnoreEdge ==
  /\ irqAt = "idle" /\ Diff < Window
  /\ SeeEdge(FALSE)
  /\ UNCHANGED <<clock, old_jiffie, led_toggle, pin, irqAt, stamped, touched>>

AcceptEdge ==
  /\ irqAt = "idle" /\ Diff >= Window
  /\ irqAt' = "stamp" /\ SeeEdge(TRUE)
  /\ UNCHANGED <<clock, old_jiffie, led_toggle, pin, stamped, touched>>

(* jiffies is read again, and may have moved on.                           *)
StampEdge ==
  /\ irqAt = "stamp" /\ irqAt' = "toggle"
  /\ old_jiffie' = jiffies /\ stamped' = clock
  /\ UNCHANGED <<clock, led_toggle, pin, edge, touched>>

ToggleLed ==
  /\ irqAt = "toggle" /\ irqAt' = "set"
  /\ led_toggle' = 1 - led_toggle
  /\ UNCHANGED <<clock, old_jiffie, pin, stamped, edge, touched>>

SetPin ==
  /\ irqAt = "set" /\ irqAt' = "idle"
  /\ pin' = led_toggle /\ touched' = FALSE
  /\ UNCHANGED <<clock, old_jiffie, led_toggle, stamped, edge>>

(* etx_write with '0' or '1'; any other byte changes nothing.              *)
WritePin(value) ==
  /\ pin' = value /\ touched' = TRUE
  /\ UNCHANGED <<clock, old_jiffie, led_toggle, irqAt, stamped, edge>>

ButtonNext == \/ Tick \/ IgnoreEdge \/ AcceptEdge \/ StampEdge \/ ToggleLed \/ SetPin
              \/ \E value \in {0, 1} : WritePin(value)

ButtonSpec == ButtonInit /\ [][ButtonNext]_buttonVars

--------------------------------------------------------------------------------
ButtonTypeOK ==
  /\ clock \in 0 .. MaxClock /\ old_jiffie \in 0 .. (Wrap - 1)
  /\ led_toggle \in {0, 1} /\ pin \in {0, 1}
  /\ irqAt \in {"idle", "stamp", "toggle", "set"}
  /\ stamped \in -1 .. MaxClock
  /\ edge \in [gap : -1 .. MaxClock, taken : BOOLEAN] /\ touched \in BOOLEAN

(* Debouncing survives the wrap of jiffies and the second reading of it:   *)
(* up to one full wrap after a stamp, an edge is taken exactly if it comes *)
(* Window or more after it.                                                *)
DebounceExact == edge.gap \in 0 .. (Wrap - 1) => (edge.taken <=> edge.gap >= Window)

(* As long as the file leaves the pin alone, each accepted press flips it: *)
(* led_toggle stays what the pin shows, ignored edges included.            *)
PressFlips == [][SetPin /\ ~touched => pin' # pin]_buttonVars
===============================================================================
