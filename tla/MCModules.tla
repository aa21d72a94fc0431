------------------------------- MODULE MCModules -------------------------------
(***************************************************************************)
(* The small modules for TLC.  Their lives, the button and the files share *)
(* no state, so each behaviour moves one part and leaves the others as     *)
(* they start.                                                             *)
(***************************************************************************)
EXTENDS ModulePlans, ModuleLife, GpioButton, TipFiles

VARIABLE part
vars == <<part, lifeVars, buttonVars, ledVars, procVars>>

Init ==
  /\ part \in {"life", "button", "files"}
  /\ LifeInit /\ (part = "life" \/ module = "hello")
  /\ ButtonInit
  /\ FilesInit /\ (part = "files" \/ ~lit)

Others(p) ==
  /\ part = p /\ UNCHANGED part
  /\ p # "life" => UNCHANGED lifeVars
  /\ p # "button" => UNCHANGED buttonVars
  /\ p # "files" => UNCHANGED <<ledVars, procVars>>

Next == \/ Others("life") /\ LifeNext
        \/ Others("button") /\ ButtonNext
        \/ Others("files") /\ FilesNext

(* LifeFairness, of the behaviours in which the module's life moves. *)
Fairness ==
  /\ WF_vars(Others("life") /\ ModuleCode)
  /\ \A c \in Callbacks : /\ WF_vars(Others("life") /\ Fire(c))
                          /\ WF_vars(Others("life") /\ Finish(c))

Spec == Init /\ [][Next]_vars /\ Fairness

(* The types of all three parts' states.                                   *)
TypeOK == LifeTypeOK /\ ButtonTypeOK /\ FilesTypeOK
===============================================================================
