------------------------------- MODULE Tips_proofs -------------------------------
(***************************************************************************)
(* Proofs about the small modules: the button's handler, for any width of  *)
(* jiffies, any value of it when the module is loaded and any debouncing   *)
(* window shorter than a wrap; the LED files and the proc file, for any    *)
(* set of users and any number of opens; and all of them together.         *)
(***************************************************************************)
EXTENDS MCModules, ModuleLife_proofs, FiniteSetTheorems

-----------------------------------------------------------------------------
(* The button *)

\* The stamp is what jiffies was when it was written.
StampInv ==
  /\ stamped # -1 => stamped \in 0 .. clock /\ old_jiffie = (Boot + stamped) % Wrap
  /\ edge.gap \in 0 .. (Wrap - 1) => (edge.taken <=> edge.gap >= Window)

\* Left alone by the file, the pin shows led_toggle, or what it was before the toggle.
PinInv ==
  ~touched => pin = IF irqAt = "set" THEN 1 - led_toggle ELSE led_toggle

ButtonInv == ButtonTypeOK /\ StampInv /\ PinInv

-----------------------------------------------------------------------------
\* A number is a multiple of w and a remainder below w.
LEMMA Remainder ==
  ASSUME NEW a \in Nat, NEW w \in Nat \ {0}
  PROVE  a % w \in 0 .. (w - 1) /\ a \div w \in Int /\ a = (a \div w) * w + (a % w)
OBVIOUS

\* The remainder is the only one.
LEMMA RemainderUnique ==
  ASSUME NEW w \in Nat \ {0}, NEW q \in Int, NEW p \in Int,
         NEW r \in 0 .. (w - 1), NEW s \in 0 .. (w - 1), q * w + r = p * w + s
  PROVE  r = s
OBVIOUS

\* Unsigned subtraction: the difference of two readings of a wrapping counter is the time
\* between them, as long as it is less than one wrap.
LEMMA UnsignedDifference ==
  ASSUME NEW w \in Nat \ {0}, NEW b \in Nat, NEW g \in 0 .. (w - 1)
  PROVE  (((b + g) % w) - (b % w) + w) % w = g
<1> DEFINE x == (b + g) % w  y == b % w  d == x - y + w
           p == (b + g) \div w  q == b \div w  e == d \div w
<1>1. x \in 0 .. (w - 1) /\ y \in 0 .. (w - 1) /\ p \in Int /\ q \in Int
      /\ b + g = p * w + x /\ b = q * w + y
  BY Remainder
<1>2. d \in Nat
  BY <1>1
<1>3. d % w \in 0 .. (w - 1) /\ e \in Int /\ d = e * w + (d % w)
  BY <1>2, Remainder
<1> HIDE DEF x, y, d, p, q, e
<1>4. d = x - y + w
  BY DEF d
<1>5. e * w + (d % w) = (q - p + 1) * w + g
  <2>1. e * w + (d % w) = x - y + w
    BY <1>3, <1>4
  <2>2. x - y = g - p * w + q * w
    BY <1>1
  <2>3. (q - p + 1) * w = q * w - p * w + w
    BY <1>1
  <2> QED BY <1>1, <1>3, <2>1, <2>2, <2>3
<1>6. d % w = g
  <2>1. q - p + 1 \in Int
    BY <1>1
  <2>2. \A n, k \in Int : \A r, t \in 0 .. (w - 1) : n * w + r = k * w + t => r = t
    BY RemainderUnique
  <2> QED BY <1>3, <1>5, <2>1, <2>2
<1> QED BY <1>6 DEF d, x, y

-----------------------------------------------------------------------------
\* Within a wrap of the stamp, the handler's difference is the time since it.
LEMMA DiffIsGap ==
  ASSUME ButtonTypeOK, StampInv, stamped # -1, clock - stamped \in 0 .. (Wrap - 1)
  PROVE  Diff = clock - stamped
<1>1. /\ Wrap \in Nat \ {0} /\ Boot + stamped \in Nat /\ clock - stamped \in Int
      /\ (Boot + stamped) + (clock - stamped) = Boot + clock
  BY ButtonAssumption DEF ButtonTypeOK, StampInv
<1>2. ((((Boot + stamped) + (clock - stamped)) % Wrap) - ((Boot + stamped) % Wrap) + Wrap) % Wrap
        = clock - stamped
  BY <1>1, UnsignedDifference
<1> QED BY <1>1, <1>2 DEF Diff, jiffies, StampInv

\* What the handler sees of an edge.
LEMMA EdgeSeen ==
  ASSUME ButtonTypeOK, StampInv, IgnoreEdge \/ AcceptEdge
  PROVE  /\ edge' \in [gap : -1 .. MaxClock, taken : BOOLEAN]
         /\ edge'.gap = IF stamped = -1 THEN -1 ELSE clock - stamped
         /\ edge'.taken <=> Diff >= Window
<1> DEFINE gap == IF stamped = -1 THEN -1 ELSE clock - stamped
<1>1. gap \in -1 .. MaxClock
  <2>1. CASE stamped = -1
    BY <2>1, ButtonAssumption
  <2>2. CASE stamped # -1
    BY <2>2, ButtonAssumption DEF ButtonTypeOK, StampInv
  <2> QED BY <2>1, <2>2
<1>2. Diff \in Nat /\ Window \in Nat
  <2>1. jiffies \in 0 .. (Wrap - 1)
    BY ButtonAssumption, Remainder DEF jiffies, ButtonTypeOK
  <2>2. jiffies - old_jiffie + Wrap \in Nat /\ Wrap \in Nat \ {0}
    BY <2>1, ButtonAssumption DEF ButtonTypeOK
  <2> QED BY <2>2, ButtonAssumption, Remainder DEF Diff
<1>3. CASE IgnoreEdge
  <2>1. edge' = [gap |-> gap, taken |-> FALSE] /\ Diff < Window
    BY <1>3 DEF IgnoreEdge, SeeEdge
  <2>2. edge'.gap = gap /\ ~edge'.taken /\ ~(Diff >= Window)
    BY <1>2, <2>1
  <2>3. edge' \in [gap : -1 .. MaxClock, taken : BOOLEAN]
    BY <1>1, <2>1, Zenon
  <2> QED BY <2>2, <2>3
<1>4. CASE AcceptEdge
  <2>1. edge' = [gap |-> gap, taken |-> TRUE] /\ Diff >= Window
    BY <1>4 DEF AcceptEdge, SeeEdge
  <2>2. edge'.gap = gap /\ edge'.taken
    BY <2>1
  <2>3. edge' \in [gap : -1 .. MaxClock, taken : BOOLEAN]
    BY <1>1, <2>1, Zenon
  <2> QED BY <2>1, <2>2, <2>3
<1> QED BY <1>3, <1>4

\* Every step keeps the type.
LEMMA ButtonTypeStep == ButtonTypeOK /\ StampInv /\ [ButtonNext]_buttonVars => ButtonTypeOK'
<1> SUFFICES ASSUME ButtonTypeOK, StampInv, [ButtonNext]_buttonVars PROVE ButtonTypeOK'
  OBVIOUS
<1> USE ButtonAssumption DEF ButtonTypeOK
<1>1. CASE UNCHANGED buttonVars
  BY <1>1 DEF buttonVars
<1>2. CASE Tick
  BY <1>2 DEF Tick
<1>3. CASE IgnoreEdge \/ AcceptEdge
  <2>1. edge' \in [gap : -1 .. MaxClock, taken : BOOLEAN]
    BY <1>3, EdgeSeen
  <2> QED BY <1>3, <2>1 DEF IgnoreEdge, AcceptEdge
<1>4. CASE StampEdge
  <2>1. jiffies \in 0 .. (Wrap - 1)
    BY Remainder DEF jiffies
  <2> QED BY <1>4, <2>1 DEF StampEdge
<1>5. CASE ToggleLed \/ SetPin
  <2>1. /\ clock' = clock /\ old_jiffie' = old_jiffie /\ stamped' = stamped /\ edge' = edge
        /\ led_toggle' \in {0, 1} /\ pin' \in {0, 1} /\ irqAt' \in {"set", "idle"}
    BY <1>5 DEF ToggleLed, SetPin
  <2>2. touched' \in BOOLEAN
    BY <1>5, Zenon DEF ToggleLed, SetPin
  <2> QED BY <2>1, <2>2
<1>6. CASE \E value \in {0, 1} : WritePin(value)
  BY <1>6 DEF WritePin
<1> QED BY <1>1, <1>2, <1>3, <1>4, <1>5, <1>6 DEF ButtonNext

\* Every step keeps the stamp, and an edge is taken exactly if it is late enough.
LEMMA StampStep == ButtonTypeOK /\ StampInv /\ [ButtonNext]_buttonVars => StampInv'
<1> SUFFICES ASSUME ButtonTypeOK, StampInv, [ButtonNext]_buttonVars PROVE StampInv'
  OBVIOUS
<1>1. CASE UNCHANGED buttonVars
  BY <1>1 DEF buttonVars, StampInv
<1>2. CASE Tick
  BY <1>2 DEF Tick, StampInv, ButtonTypeOK
<1>3. CASE IgnoreEdge \/ AcceptEdge
  <2>1. /\ edge'.gap = IF stamped = -1 THEN -1 ELSE clock - stamped
        /\ edge'.taken <=> Diff >= Window
    BY <1>3, EdgeSeen
  <2>2. edge'.gap \in 0 .. (Wrap - 1) => Diff = edge'.gap
    BY <2>1, DiffIsGap
  <2>3. stamped' = stamped /\ clock' = clock /\ old_jiffie' = old_jiffie
    BY <1>3 DEF IgnoreEdge, AcceptEdge
  <2> QED BY <2>1, <2>2, <2>3 DEF StampInv
<1>4. CASE StampEdge
  BY <1>4 DEF StampEdge, StampInv, ButtonTypeOK, jiffies
<1>5. CASE ToggleLed \/ SetPin \/ \E value \in {0, 1} : WritePin(value)
  BY <1>5 DEF ToggleLed, SetPin, WritePin, StampInv
<1> QED BY <1>1, <1>2, <1>3, <1>4, <1>5 DEF ButtonNext

\* Every step keeps the pin and led_toggle together.
LEMMA PinStep == ButtonTypeOK /\ PinInv /\ [ButtonNext]_buttonVars => PinInv'
<1> SUFFICES ASSUME ButtonTypeOK, PinInv, [ButtonNext]_buttonVars PROVE PinInv'
  OBVIOUS
<1> USE DEF ButtonTypeOK, PinInv
<1>1. CASE UNCHANGED buttonVars
  BY <1>1 DEF buttonVars
<1>2. CASE Tick \/ IgnoreEdge \/ AcceptEdge \/ StampEdge
  BY <1>2 DEF Tick, IgnoreEdge, AcceptEdge, StampEdge
<1>3. CASE ToggleLed
  BY <1>3 DEF ToggleLed
<1>4. CASE SetPin \/ \E value \in {0, 1} : WritePin(value)
  BY <1>4 DEF SetPin, WritePin
<1> QED BY <1>1, <1>2, <1>3, <1>4 DEF ButtonNext

\* The invariant holds at the start and is kept.
LEMMA ButtonStart == ButtonInit => ButtonInv
<1> SUFFICES ASSUME ButtonInit PROVE ButtonInv
  OBVIOUS
<1>1. edge \in [gap : -1 .. MaxClock, taken : BOOLEAN] /\ edge.gap = -1
  BY ButtonAssumption DEF ButtonInit
<1>2. touched \in BOOLEAN
  BY DEF ButtonInit
<1>3. ButtonTypeOK
  BY <1>1, <1>2, ButtonAssumption DEF ButtonInit, ButtonTypeOK
<1>4. StampInv
  BY <1>1, ButtonAssumption DEF ButtonInit, StampInv
<1>5. PinInv
  BY DEF ButtonInit, PinInv
<1> QED BY <1>3, <1>4, <1>5 DEF ButtonInv

LEMMA ButtonStep == ButtonInv /\ [ButtonNext]_buttonVars => ButtonInv'
BY ButtonTypeStep, StampStep, PinStep DEF ButtonInv

LEMMA ButtonInvariant == ButtonSpec => []ButtonInv
BY ButtonStart, ButtonStep, PTL DEF ButtonSpec

\* jiffies stays within its width and the handler within its four places.
THEOREM ButtonTypeCorrect == ButtonSpec => []ButtonTypeOK
<1>1. ButtonInv => ButtonTypeOK
  BY DEF ButtonInv
<1> QED BY <1>1, ButtonInvariant, PTL

\* Whatever the width of jiffies, wherever it starts and however it wraps, an edge within one
\* wrap of the last stamp is taken exactly if it comes Window ticks or more after it.
THEOREM ButtonDebounceExact == ButtonSpec => []DebounceExact
<1>1. ButtonInv => DebounceExact
  BY DEF ButtonInv, StampInv, DebounceExact
<1> QED BY <1>1, ButtonInvariant, PTL

\* As long as the file leaves the pin alone, each accepted press flips it.
THEOREM ButtonPressFlips == ButtonSpec => PressFlips
<1>1. ButtonInv /\ [ButtonNext]_buttonVars => [SetPin /\ ~touched => pin' # pin]_buttonVars
  BY DEF ButtonInv, ButtonTypeOK, PinInv, SetPin
<1> QED BY <1>1, ButtonInvariant, PTL DEF ButtonSpec, PressFlips

-----------------------------------------------------------------------------
(* The files *)

filesVars == <<ledVars, procVars>>

\* Unless the file has been shared, its one user has the one mapping, or nobody has any.
LedInv ==
  ~shared =>
    /\ ~fault
    /\ \/ ledOf = {} /\ mapped = {}
       \/ \E u \in User : ledOf = {u} /\ mapped = {gpio_con} /\ gpio_dat = gpio_con

\* Unless readings have overlapped or been given up, one at most is open, and len is 0
\* exactly while it has the text and not yet the end.
ProcInv ==
  ~disturbed =>
    /\ \A u, v \in User : reader[u] # "closed" /\ reader[v] # "closed" => u = v
    /\ len = 0 <=> \E u \in User : reader[u] = "got"

FilesInv == FilesTypeOK /\ LedInv /\ ProcInv

-----------------------------------------------------------------------------
\* Every step keeps the type.
LEMMA FilesTypeStep == FilesTypeOK /\ [FilesNext]_filesVars => FilesTypeOK'
<1> SUFFICES ASSUME FilesTypeOK, [FilesNext]_filesVars PROVE FilesTypeOK'
  OBVIOUS
<1> USE FilesAssumption DEF FilesTypeOK
<1>1. CASE UNCHANGED filesVars
  BY <1>1 DEF filesVars, ledVars, procVars
<1>2. ASSUME NEW u \in User,
             \/ led_open(u) \/ led_open_fails(u) \/ led_release(u) \/ \E on \in BOOLEAN : led_write(u, on)
      PROVE  FilesTypeOK'
  <2>1. CASE led_open(u)
    <3>1. /\ maps' \in 1 .. MaxMaps /\ maps' = maps + 1 /\ mapped' = mapped \union {maps'}
          /\ gpio_con' = maps' /\ gpio_dat' = maps' /\ ledOf' \subseteq User
      BY <2>1 DEF led_open
    <3>2. /\ {lit', fault', disturbed'} \subseteq BOOLEAN /\ len' = len /\ reader' = reader
          /\ shared' \in BOOLEAN
      BY <2>1 DEF led_open, procVars
    <3> QED BY <3>1, <3>2
  <2>2. CASE led_open_fails(u)
    BY <2>2 DEF led_open_fails, procVars
  <2>3. CASE led_release(u)
    BY <2>3 DEF led_release, procVars
  <2>4. CASE \E on \in BOOLEAN : led_write(u, on)
    BY <2>4 DEF led_write, procVars
  <2> QED BY <1>2, <2>1, <2>2, <2>3, <2>4
<1>3. ASSUME NEW u \in User, proc_open(u) \/ proc_read(u) \/ proc_release(u)
      PROVE  FilesTypeOK'
  <2>1. /\ {gpio_con', gpio_dat'} \subseteq 0 .. MaxMaps /\ maps' \in 0 .. MaxMaps
        /\ mapped' \subseteq 1 .. maps' /\ ledOf' \subseteq User
        /\ lit' = lit /\ fault' = fault /\ shared' = shared
    BY <1>3 DEF proc_open, proc_read, proc_release, ledVars
  <2>2. len' \in {0, 1} /\ reader' \in [User -> {"closed", "open", "got", "end"}]
    BY <1>3 DEF proc_open, proc_read, proc_release
  <2>3. disturbed' \in BOOLEAN
    BY <1>3, Zenon DEF proc_open, proc_read, proc_release
  <2> QED BY <2>1, <2>2, <2>3
<1> QED BY <1>1, <1>2, <1>3 DEF FilesNext

\* Every step keeps the LED file's user and his mapping together.
LEMMA LedStep == FilesTypeOK /\ LedInv /\ [FilesNext]_filesVars => LedInv'
<1> SUFFICES ASSUME FilesTypeOK, LedInv, [FilesNext]_filesVars, ~shared' PROVE LedInv'
  BY DEF LedInv
<1> USE DEF LedInv
<1>1. CASE UNCHANGED ledVars
  BY <1>1 DEF ledVars
<1>2. ASSUME NEW u \in User, led_open(u)
      PROVE  LedInv'
  <2>1. ledOf = {} /\ ~shared
    BY <1>2 DEF led_open
  <2> QED BY <1>2, <2>1 DEF led_open
<1>3. ASSUME NEW u \in User, led_open_fails(u)
      PROVE  LedInv'
  <2>1. ledOf = {} /\ ~shared /\ ledOf' = {}
    BY <1>3 DEF led_open_fails
  <2>2. mapped = {} /\ ~fault
    BY <2>1
  <2>3. mapped' = {} /\ ~fault'
    BY <1>3, <2>2 DEF led_open_fails
  <2> QED BY <2>1, <2>3
<1>4. ASSUME NEW u \in User, led_release(u)
      PROVE  LedInv'
  <2>1. ledOf = {u} /\ mapped = {gpio_con} /\ ~fault
    BY <1>4 DEF led_release
  <2>2. ledOf' = {} /\ mapped' = {}
    BY <1>4, <2>1 DEF led_release
  <2>3. ~fault'
    BY <1>4, <2>1 DEF led_release
  <2> QED BY <2>2, <2>3
<1>5. ASSUME NEW u \in User, NEW on \in BOOLEAN, led_write(u, on)
      PROVE  LedInv'
  <2>1. ledOf # {} /\ ~shared
    BY <1>5 DEF led_write
  <2>2. ~fault /\ gpio_dat \in mapped
    BY <2>1
  <2>3. ~fault'
    BY <1>5, <2>2 DEF led_write
  <2> QED BY <1>5, <2>1, <2>3 DEF led_write
<1>6. ASSUME NEW u \in User, proc_open(u) \/ proc_read(u) \/ proc_release(u)
      PROVE  UNCHANGED ledVars
  BY <1>6 DEF proc_open, proc_read, proc_release
<1> QED BY <1>1, <1>2, <1>3, <1>4, <1>5, <1>6 DEF FilesNext, filesVars

\* Every step keeps len and the reader together.
LEMMA ProcStep == FilesTypeOK /\ ProcInv /\ [FilesNext]_filesVars => ProcInv'
<1> SUFFICES ASSUME FilesTypeOK, ProcInv, [FilesNext]_filesVars, ~disturbed' PROVE ProcInv'
  BY DEF ProcInv
<1> USE DEF ProcInv, FilesTypeOK
<1>1. CASE UNCHANGED procVars
  BY <1>1 DEF procVars
<1>2. ASSUME NEW u \in User, proc_open(u)
      PROVE  ProcInv'
  BY <1>2 DEF proc_open
<1>3. ASSUME NEW u \in User, proc_read(u)
      PROVE  ProcInv'
  <2>1. \A v \in User : v # u => reader[v] = "closed" /\ reader'[v] = "closed"
    BY <1>3 DEF proc_read
  <2>2. reader'[u] = IF len = 1 THEN "got" ELSE "end"
    BY <1>3 DEF proc_read
  <2> QED BY <1>3, <2>1, <2>2 DEF proc_read
<1>4. ASSUME NEW u \in User, proc_release(u)
      PROVE  ProcInv'
  BY <1>4 DEF proc_release
<1>5. ASSUME NEW u \in User,
             \/ led_open(u) \/ led_open_fails(u) \/ led_release(u) \/ \E on \in BOOLEAN : led_write(u, on)
      PROVE  UNCHANGED procVars
  BY <1>5 DEF led_open, led_open_fails, led_release, led_write
<1> QED BY <1>1, <1>2, <1>3, <1>4, <1>5 DEF FilesNext, filesVars

\* The invariant holds at the start and is kept.
LEMMA FilesStart == FilesInit => FilesInv
<1> SUFFICES ASSUME FilesInit PROVE FilesInv
  OBVIOUS
<1>1. FilesTypeOK
  <2>1. /\ {gpio_con, gpio_dat} \subseteq 0 .. MaxMaps /\ maps \in 0 .. MaxMaps
        /\ mapped \subseteq 1 .. maps /\ ledOf \subseteq User /\ len \in {0, 1}
    BY FilesAssumption DEF FilesInit
  <2>2. {lit, fault, shared, disturbed} \subseteq BOOLEAN
    BY DEF FilesInit
  <2>3. reader \in [User -> {"closed", "open", "got", "end"}]
    BY DEF FilesInit
  <2> QED BY <2>1, <2>2, <2>3 DEF FilesTypeOK
<1>2. LedInv
  BY DEF FilesInit, LedInv
<1>3. ProcInv
  BY DEF FilesInit, ProcInv
<1> QED BY <1>1, <1>2, <1>3 DEF FilesInv

LEMMA FilesStep == FilesInv /\ [FilesNext]_filesVars => FilesInv'
BY FilesTypeStep, LedStep, ProcStep DEF FilesInv

LEMMA FilesInvariant == FilesSpec => []FilesInv
BY FilesStart, FilesStep, PTL DEF FilesSpec, filesVars

\* Mappings are numbered without gaps and readers are in one of four places.
THEOREM FilesTypeCorrect == FilesSpec => []FilesTypeOK
<1>1. FilesInv => FilesTypeOK
  BY DEF FilesInv
<1> QED BY <1>1, FilesInvariant, PTL

\* However often the LED file is opened, written, closed or fails to open by one user after
\* another, each writes through his own mapping and takes it away again.
THEOREM FilesLedAlone == FilesSpec => []LedAlone
<1>1. ASSUME FilesInv PROVE LedAlone
  <2> SUFFICES ASSUME ~shared
               PROVE  /\ ~fault /\ Cardinality(mapped) = Cardinality(ledOf)
                      /\ ledOf # {} => gpio_con \in mapped /\ gpio_dat \in mapped
    BY DEF LedAlone
  <2> QED BY <1>1, FS_EmptySet, FS_Singleton DEF FilesInv, LedInv
<1> QED BY <1>1, FilesInvariant, PTL

\* However many processes read the proc file in turn, each to its end, len is 0 only
\* between one reader's text and the same reader's end of file.
THEOREM FilesReaderAlone == FilesSpec => []ReaderAlone
<1>1. FilesInv => ReaderAlone
  BY DEF FilesInv, ProcInv, ReaderAlone
<1> QED BY <1>1, FilesInvariant, PTL

-----------------------------------------------------------------------------
(* The parts together *)

\* Whatever part a step moves, it is a step of that part or leaves it alone.
LEMMA TipSteps ==
  ASSUME [Next]_vars
  PROVE  [LifeNext]_lifeVars /\ [ButtonNext]_buttonVars /\ [FilesNext]_filesVars
<1>1. CASE UNCHANGED vars
  BY <1>1 DEF vars, filesVars
<1>2. CASE Next
  BY <1>2 DEF Next, Others, filesVars
<1> QED BY <1>1, <1>2

\* For every set of plans that meets the assumptions, any jiffies and any users: the modules'
\* lives, the button and the files keep their types, in whatever part a behaviour moves.
THEOREM TipsTypeCorrect == Spec => []TypeOK
<1> DEFINE TipsInv == LifeTypeOK /\ ButtonInv /\ FilesInv
<1>1. Init => TipsInv
  BY LifeTypeStart, ButtonStart, FilesStart DEF Init
<1>2. TipsInv /\ [Next]_vars => TipsInv'
  BY TipSteps, LifeTypeStep, ButtonStep, FilesStep
<1>3. TipsInv => TypeOK
  BY DEF ButtonInv, FilesInv, TypeOK
<1> QED BY <1>1, <1>2, <1>3, PTL DEF Spec
===================================================================================
