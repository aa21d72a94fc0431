------------------------------- MODULE LegacyDemo -------------------------------
(***************************************************************************)
(* The console demo of the older CH36x driver (ch36x_demo_CMD.c): a main   *)
(* menu that opens the device anew each time it is shown, three menus      *)
(* below it, and ten loops that ask for an offset, call the library and    *)
(* say what came of it.  A loop is one record; its rounds differ in where  *)
(* the result is kept and in whether it is looked at.                      *)
(*                                                                         *)
(* External: the user, the device nodes, which may vanish, and what the    *)
(* library returns.  A text is a sequence of hex digits and other signs.   *)
(***************************************************************************)
EXTENDS Integers, Sequences, FiniteSets

CONSTANTS Node,        \* bound: the numbers of device nodes, 0 .. n
          MaxFds,      \* bound: files the demo may have open
          Text,        \* bound: what the user types as an offset or a length
          Datum,       \* bound: what a register may hold
          UInt,        \* the values of an unsigned int
          CfgOffsets,  \* the values of the driver's unsigned char config offset
          TypedIoMax,  \* CH36x_IO_SPACE_RANGE
          TypedMemMax, \* CH36x_MEM_SPACE_RANGE
          IoBase, MemBase   \* where the driver has mapped the windows

(* The I/O window has 256 bytes and lies at a multiple of 256.             *)
ASSUME DemoAssumption == /\ {UInt, CfgOffsets} \subseteq Nat \ {0} /\ {IoBase, MemBase} \subseteq Nat
                         /\ IoBase % CfgOffsets = 0
                         /\ (UInt - 1) \div 16 < 16 ^ 7 /\ Datum \subseteq 0 .. UInt - 1
                         /\ Text \subseteq Seq(Int) /\ Node \subseteq Nat /\ MaxFds \in Nat

VARIABLES
  nodes,   \* /dev/ch36xpci<n> that are there
  chosen,  \* the node the user chose, one less than what he typed
  screen,  \* the menu or loop the program is in
  dev_fd,  \* the node dev_fd is open on, -1 if none
  fds,     \* files opened and not closed
  bases,   \* the node oIoBaseAddr_IO and oMemBaseAddr_MEM are of, -1 at first
  retval,  \* of the loop the program is in
  round    \* the last round of a loop

demoVars == <<nodes, chosen, screen, dev_fd, fds, bases, retval, round>>

--------------------------------------------------------------------------------
(* The loops.                                                              *)
Loop(op, space, block, keeps, tells) ==
  [op |-> op, space |-> space, block |-> block, keeps |-> keeps, tells |-> tells]

(* Mutant: the result is kept from round to round. *)
WriteCfgKeeps == Loop("write", "config", FALSE, TRUE, TRUE)

read_cfg        == Loop("read", "config", FALSE, FALSE, FALSE)
write_cfg       == Loop("write", "config", FALSE, FALSE, TRUE)
read_io         == Loop("read", "io", FALSE, TRUE, TRUE)
write_io        == Loop("write", "io", FALSE, TRUE, TRUE)
read_mem        == Loop("read", "mem", FALSE, TRUE, TRUE)
write_mem       == Loop("write", "mem", FALSE, TRUE, TRUE)
read_io_block   == Loop("read", "io", TRUE, TRUE, TRUE)
write_io_block  == Loop("write", "io", TRUE, FALSE, TRUE)
read_mem_block  == Loop("read", "mem", TRUE, TRUE, TRUE)
write_mem_block == Loop("write", "mem", TRUE, FALSE, TRUE)

read_write_cfg == {read_cfg, write_cfg}
read_write_io  == {read_io, write_io, read_io_block, write_io_block}
read_write_mem == {read_mem, write_mem, read_mem_block, write_mem_block}
Loops == read_write_cfg \union read_write_io \union read_write_mem
Menus == {"config", "io", "mem"}

NoLoop  == Loop("none", "none", FALSE, FALSE, FALSE)
NoRound == [loop |-> NoLoop, text |-> << >>, did |-> "nothing", reg |-> <<"none", 0>>,
            node |-> -1, sized |-> TRUE, value |-> 0, shown |-> << >>, said |-> "nothing"]

DemoInit ==
  /\ nodes \in {{n \in Node : n < k} : k \in 1 .. Cardinality(Node)}
  /\ chosen \in Node \union {-1}
  /\ screen = "top" /\ dev_fd = -1 /\ fds = 0 /\ bases = -1
  /\ retval = "false" /\ round = NoRound

--------------------------------------------------------------------------------
(* Digits make a number, other signs are passed over.                      *)
HexDigit == 0 .. 15
ChrToHex(str) ==
  LET dst[i \in 0 .. Len(str)] ==
        IF i = 0 THEN 0
        ELSE IF str[i] \notin HexDigit THEN dst[i - 1]
        ELSE ((IF i # 1 THEN dst[i - 1] * 16 ELSE dst[i - 1]) + str[i]) % UInt
  IN dst[Len(str)]

(* The digits of a number; zero has none.                                  *)
HexToChr(dst) ==
  LET len == CHOOSE k \in 0 .. 8 : dst < 16 ^ k /\ \A j \in 0 .. k - 1 : dst >= 16 ^ j
  IN [j \in 1 .. len |-> (dst \div 16 ^ (len - j)) % 16]

--------------------------------------------------------------------------------
(* get_ch36x_dev_list opens the nodes from 0 up to the first that it       *)
(* cannot open, and closes them.                                           *)
get_ch36x_dev_list == 0 \in nodes /\ fds < MaxFds

open_choosed_dev ==
  IF chosen \in nodes /\ fds < MaxFds
  THEN dev_fd' = chosen /\ fds' = fds + 1
  ELSE dev_fd' = -1 /\ UNCHANGED fds

(* Its config reads go to the screen; the two base addresses stay.         *)
get_ID_BaseAddr == bases' = dev_fd'

(* One turn of oper_menu_cmd's loop, up to the choice: nothing closes the  *)
(* device of the turn before, and without a driver version it returns.     *)
ShowMenu ==
  /\ screen = "top"
  /\ IF get_ch36x_dev_list
     THEN /\ open_choosed_dev
          /\ IF dev_fd' # -1 THEN get_ID_BaseAddr /\ screen' = "menu"
                             ELSE UNCHANGED bases /\ screen' = "gone"
     ELSE screen' = "gone" /\ UNCHANGED <<dev_fd, fds, bases>>
  /\ UNCHANGED <<nodes, chosen, retval, round>>

oper_menu_cmd ==
  /\ screen = "menu"
  /\ \/ screen' \in Menus \union {"top"} /\ UNCHANGED <<dev_fd, fds>>
     \/ screen' = "gone" /\ dev_fd' = -1 /\ fds' = fds - 1
  /\ UNCHANGED <<nodes, chosen, bases, retval, round>>

LoopsOf(menu) == CASE menu = "config" -> read_write_cfg
                   [] menu = "io"     -> read_write_io
                   [] OTHER           -> read_write_mem

ChooseLoop ==
  /\ screen \in Menus
  /\ \/ screen' = "top" /\ UNCHANGED <<retval, round>>
     \/ \E f \in LoopsOf(screen) : /\ screen' = "loop" /\ round' = [NoRound EXCEPT !.loop = f]
                                   /\ retval' = "false"
  /\ UNCHANGED <<nodes, chosen, dev_fd, fds, bases>>

Vanish == /\ \E n \in nodes : nodes' = nodes \ {n}
          /\ UNCHANGED <<chosen, screen, dev_fd, fds, bases, retval, round>>

--------------------------------------------------------------------------------
(* One round of a loop.  The address the library is given, and the         *)
(* register that is at it: write_cfg adds the I/O base to the offset.      *)
Address(f, dst) == CASE f.space = "io" \/ f = write_cfg -> IoBase + dst
                     [] f.space = "mem"                 -> MemBase + dst
                     [] OTHER                           -> dst
Register(f, iAddr) == <<f.space, CASE f.space = "config" -> iAddr % CfgOffsets
                                   [] f.space = "io"     -> iAddr - IoBase
                                   [] OTHER              -> iAddr - MemBase>>
RangeOf(f) == IF f.space = "io" THEN TypedIoMax ELSE TypedMemMax

(* What is said for a result; -1 is neither true nor false.                *)
Said(f, r) == IF ~f.tells THEN "value"
              ELSE IF r = "true" THEN "success" ELSE IF r = "false" THEN "error" ELSE "nothing"
Ends(f, r) == f.tells /\ r = "false"

Rounds(f, r) == [round EXCEPT !.text = r.text, !.did = r.did, !.reg = r.reg, !.node = r.node,
                              !.sized = r.sized, !.value = r.value, !.shown = r.shown,
                              !.said = r.said]

Leave(f, ends) == screen' \in (IF ends THEN {f.space} ELSE {"loop", f.space})

(* The library is called and answers.  A block's offset and length are     *)
(* within its range; whatever the length, the rest is the same.            *)
Calls(f) ==
  /\ screen = "loop" /\ f = round.loop
  /\ \E text \in Text, r \in {"true", IF f.block /\ f.space = "io" THEN "-1" ELSE "false"},
        v \in (IF f.op = "read" /\ ~f.block THEN Datum ELSE {0}) :
       /\ f.block => ChrToHex(text) <= RangeOf(f)
       /\ retval' = IF f.tells THEN r ELSE retval
       /\ round' = Rounds(f, [text |-> text, did |-> IF r = "true" THEN "ok" ELSE "failed",
                              reg |-> Register(f, Address(f, ChrToHex(text))), node |-> bases,
                              sized |-> TRUE, value |-> v, shown |-> HexToChr(v),
                              said |-> Said(f, r)])
       /\ Leave(f, Ends(f, r))
  /\ UNCHANGED <<nodes, chosen, dev_fd, fds, bases>>

(* A block that is out of range ends the loop.                             *)
OutOfRange(f) ==
  /\ screen = "loop" /\ f = round.loop /\ f.block
  /\ \E text \in Text : ChrToHex(text) > RangeOf(f)
  /\ round' = [NoRound EXCEPT !.loop = f, !.said = "error"]
  /\ screen' = f.space
  /\ UNCHANGED <<nodes, chosen, dev_fd, fds, bases, retval>>

(* The size is not one of the three: nothing is called, and the result of  *)
(* the round before is what is said, unless the loop starts each round     *)
(* with a new one.  In read_cfg a fourth choice quits.                     *)
NoSuchSize(f) ==
  /\ screen = "loop" /\ f = round.loop /\ ~f.block
  /\ LET r == IF f.keeps THEN retval ELSE "false" IN
     /\ round' = [NoRound EXCEPT !.loop = f, !.sized = FALSE, !.said = Said(f, r)]
     /\ Leave(f, Ends(f, r))
  /\ UNCHANGED <<nodes, chosen, dev_fd, fds, bases, retval>>

DemoNext == \/ ShowMenu \/ oper_menu_cmd \/ ChooseLoop \/ Vanish
            \/ \E f \in Loops : Calls(f) \/ OutOfRange(f) \/ NoSuchSize(f)

DemoSpec == DemoInit /\ [][DemoNext]_demoVars

--------------------------------------------------------------------------------
DemoTypeOK ==
  /\ nodes \subseteq Node /\ {chosen, dev_fd, bases} \subseteq Node \union {-1}
  /\ screen \in Menus \union {"top", "menu", "loop", "gone"}
  /\ fds \in 0 .. MaxFds /\ retval \in {"true", "false", "-1"}
  /\ round.loop \in Loops \union {NoLoop} /\ round.did \in {"nothing", "ok", "failed"}
  /\ round.said \in {"nothing", "value", "success", "error"}

(* What a text denotes: its digits, each times the weight of its place,    *)
(* the places counted from the end.                                        *)
Weights(str) ==
  LET n == Len(str)
      weight[i \in 0 .. n] ==
        IF i = n THEN 1
        ELSE IF str[i + 1] \in HexDigit THEN 16 * weight[i + 1] ELSE weight[i + 1]
  IN weight
Exactly(str) ==
  LET n == Len(str)
      sum[i \in 0 .. n] ==
        IF i = 0 THEN 0
        ELSE IF str[i] \in HexDigit THEN sum[i - 1] + str[i] * Weights(str)[i] ELSE sum[i - 1]
  IN sum[n]
Denotes(str) == Exactly(str) % UInt

(* What the demo says is what happened.  An operation reaches the register *)
(* the user typed, of the device he chose, and the value shown is the      *)
(* value read.  Success is said of an operation that succeeded, and a      *)
(* failure is said - except that four loops say the last round's result    *)
(* again when the size is none, that read_cfg does not look at the result, *)
(* and that an io block's -1 is neither.                                   *)
Repeats == {read_io, write_io, read_mem, write_mem}
Silent  == {read_cfg, read_io_block, write_io_block}
DemoTellsTruth ==
  LET r == round IN
  /\ r.did # "nothing" =>
       /\ r.node = chosen
       /\ r.reg = <<r.loop.space, IF r.loop.space = "config" THEN Denotes(r.text) % CfgOffsets
                                                             ELSE Denotes(r.text)>>
       /\ Denotes(r.shown) = r.value
  /\ r.did = "failed" => r.said = "error" \/ r.loop \in Silent
  /\ r.said = "success" => r.did = "ok" \/ (r.loop \in Repeats /\ ~r.sized)
  /\ screen \in Menus \union {"menu", "loop"} => dev_fd = chosen /\ bases = chosen
===============================================================================
