------------------------------- MODULE MCLegacy -------------------------------
(***************************************************************************)
(* The older CH36x driver, its library and its demo for TLC.  The parts    *)
(* share no state; each behaviour moves one and leaves the others as they  *)
(* start.  The interrupt path is two parts, its users opening, enabling    *)
(* and installing routines, and its users polling.                         *)
(***************************************************************************)
EXTENDS LegacyInterrupt, LegacyProbe, LegacyRegs, LegacyDemo

VARIABLE part
vars == <<part, irqVars, probeVars, regVars, demoVars>>

Parts == {"irq", "poll", "probe", "regs", "demo"}

\* Two signs and up to two digits, and an offset past each range.
Texts == UNION {[1 .. k -> {0, 1, 10, -1}] : k \in 0 .. 2} \union {<<1, 0, 0>>, <<1, -1, 0, 10>>}

Init ==
  /\ part \in Parts
  /\ IrqInit /\ (part \in {"irq", "poll"} \/ chip = "CH365")
  /\ ProbeInit /\ RegsInit
  /\ DemoInit /\ (part = "demo" \/ (chosen = -1 /\ nodes = {0}))

Only(p) ==
  /\ part = p /\ UNCHANGED part
  /\ p \notin {"irq", "poll"} => UNCHANGED irqVars
  /\ p # "probe" => UNCHANGED probeVars
  /\ p # "regs" => UNCHANGED regVars
  /\ p # "demo" => UNCHANGED demoVars

IrqPart  == Device \/ \E c \in Client : Driving(c) \/ Routine(c)
PollPart == Device \/ \E c \in Client : Driving(c) \/ Polling(c)

Next == \/ Only("irq") /\ IrqPart
        \/ Only("poll") /\ PollPart
        \/ Only("probe") /\ ProbeNext
        \/ Only("regs") /\ RegsNext
        \/ Only("demo") /\ DemoNext

(* The handler runs when it is due, and a poller goes on when it can.      *)
Fairness == /\ WF_vars(Only("poll") /\ Isr)
            /\ \A c \in Client : WF_vars(Only("poll") /\ Poll(c))

Spec == Init /\ [][Next]_vars /\ Fairness

(* The types of all four parts' states.                                    *)
TypeOK == IrqTypeOK /\ ProbeTypeOK /\ RegsTypeOK /\ DemoTypeOK
===============================================================================
