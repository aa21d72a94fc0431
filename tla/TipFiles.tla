-------------------------------- MODULE TipFiles --------------------------------
(***************************************************************************)
(* The device and proc files of the small modules that keep their state in *)
(* globals: the LED drivers' one mapping of the GPIO registers, which each *)
(* open replaces and each release unmaps, and the proc file's one len,     *)
(* which tells every reader in turn that it has reached the end.           *)
(***************************************************************************)
EXTENDS Naturals, FiniteSets

CONSTANTS User,      \* the processes that use the files
          MaxMaps    \* bound: how often a LED file is opened

ASSUME FilesAssumption == MaxMaps \in Nat \ {0}

VARIABLES
  gpio_con, gpio_dat,  \* the globals: a mapping, 0 is NULL
  mapped,              \* the mappings that exist
  maps,                \* how many there have been
  lit,                 \* is the LED on?
  ledOf,               \* the users that have the LED file open
  fault,               \* was an address used that is not mapped?
  shared,              \* history: has the file been open twice at once?
  len,                 \* 1: the next read gets the text
  reader,              \* each user's reading: closed, open, got (the text), end
  disturbed            \* history: have readings overlapped or been given up?

ledVars  == <<gpio_con, gpio_dat, mapped, maps, lit, ledOf, fault, shared>>
procVars == <<len, reader, disturbed>>

FilesInit ==
  /\ gpio_con = 0 /\ gpio_dat = 0 /\ mapped = {} /\ maps = 0 /\ lit \in BOOLEAN
  /\ ledOf = {} /\ fault = FALSE /\ shared = FALSE
  /\ len = 1 /\ reader = [u \in User |-> "closed"] /\ disturbed = FALSE

--------------------------------------------------------------------------------
(* Mutant: the data register is computed on the first open only. *)
led_open_once(u) ==
  /\ u \notin ledOf /\ maps < MaxMaps
  /\ maps' = maps + 1 /\ mapped' = mapped \union {maps'}
  /\ gpio_con' = maps' /\ gpio_dat' = IF gpio_dat = 0 THEN maps' ELSE gpio_dat
  /\ ledOf' = ledOf \union {u} /\ shared' = (shared \/ ledOf # {})
  /\ UNCHANGED <<lit, fault, procVars>>

(* led_open maps the registers and makes the pin an output; if ioremap     *)
(* fails it returns with gpio_con NULL and gpio_dat as it was.             *)
led_open(u) ==
  /\ u \notin ledOf /\ maps < MaxMaps
  /\ maps' = maps + 1 /\ mapped' = mapped \union {maps'}
  /\ gpio_con' = maps' /\ gpio_dat' = maps'
  /\ ledOf' = ledOf \union {u} /\ shared' = (shared \/ ledOf # {})
  /\ UNCHANGED <<lit, fault, procVars>>

led_open_fails(u) ==
  /\ u \notin ledOf
  /\ gpio_con' = 0 /\ shared' = (shared \/ ledOf # {})
  /\ UNCHANGED <<gpio_dat, mapped, maps, lit, ledOf, fault, procVars>>

led_write(u, on) ==
  /\ u \in ledOf
  /\ fault' = (fault \/ gpio_dat \notin mapped)
  /\ lit' = IF gpio_dat \in mapped THEN on ELSE lit
  /\ UNCHANGED <<gpio_con, gpio_dat, mapped, maps, ledOf, shared, procVars>>

(* iounmap(NULL) does nothing; the globals keep their values.              *)
led_release(u) ==
  /\ u \in ledOf /\ ledOf' = ledOf \ {u}
  /\ fault' = (fault \/ gpio_con \notin mapped \union {0})
  /\ mapped' = mapped \ {gpio_con}
  /\ UNCHANGED <<gpio_con, gpio_dat, maps, lit, shared, procVars>>

--------------------------------------------------------------------------------
proc_open(u) ==
  /\ reader[u] = "closed"
  /\ reader' = [reader EXCEPT ![u] = "open"]
  /\ disturbed' = (disturbed \/ \E v \in User : reader[v] # "closed")
  /\ UNCHANGED <<len, ledVars>>

(* Mutant: len is not set again at the end of the file. *)
proc_read_ends(u) ==
  /\ reader[u] # "closed"
  /\ len' = 0
  /\ reader' = [reader EXCEPT ![u] = IF len = 1 THEN "got" ELSE "end"]
  /\ UNCHANGED disturbed
  /\ UNCHANGED ledVars

(* The text goes to whoever reads while len is 1, the end to the next; one *)
(* who goes on reading after the end gets the text again.                  *)
proc_read(u) ==
  /\ reader[u] # "closed"
  /\ len' = 1 - len
  /\ reader' = [reader EXCEPT ![u] = IF len = 1 THEN "got" ELSE "end"]
  /\ UNCHANGED disturbed
  /\ UNCHANGED ledVars

proc_release(u) ==
  /\ reader[u] # "closed"
  /\ reader' = [reader EXCEPT ![u] = "closed"]
  /\ disturbed' = (disturbed \/ reader[u] = "got")
  /\ UNCHANGED <<len, ledVars>>

FilesNext ==
  \E u \in User : \/ led_open(u) \/ led_open_fails(u) \/ led_release(u)
                  \/ \E on \in BOOLEAN : led_write(u, on)
                  \/ proc_open(u) \/ proc_read(u) \/ proc_release(u)

FilesSpec == FilesInit /\ [][FilesNext]_<<ledVars, procVars>>

--------------------------------------------------------------------------------
FilesTypeOK ==
  /\ {gpio_con, gpio_dat} \subseteq 0 .. MaxMaps /\ maps \in 0 .. MaxMaps
  /\ mapped \subseteq 1 .. maps /\ ledOf \subseteq User
  /\ {lit, fault, shared, disturbed} \subseteq BOOLEAN
  /\ len \in {0, 1} /\ reader \in [User -> {"closed", "open", "got", "end"}]

(* Whoever has the LED file to himself writes through a mapping that is    *)
(* there, unmaps the one he made, and leaves none behind; the globals are  *)
(* wrong only for files that overlap.                                      *)
LedAlone ==
  ~shared => /\ ~fault /\ Cardinality(mapped) = Cardinality(ledOf)
             /\ ledOf # {} => gpio_con \in mapped /\ gpio_dat \in mapped

(* As long as readers come one after another and read to the end, each     *)
(* gets the text and then the end of the file, never the end at once.      *)
ReaderAlone ==
  ~disturbed => (len = 0 <=> \E u \in User : reader[u] = "got")
===============================================================================
