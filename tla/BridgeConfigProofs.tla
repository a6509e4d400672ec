------------------------- MODULE BridgeConfigProofs -------------------------
(***************************************************************************)
(* Proofs about BridgeConfig, for every number and size of the registers:  *)
(* what the bridge announced is never outdated, a root complex has a port  *)
(* for whatever it announces, and registers that are half programmed       *)
(* divert no request from the port that owns its address.                  *)
(*                                                                         *)
(* The last needs an invariant of its own: a register without its flag     *)
(* still holds 0 (Untouched), so that a window with one register written   *)
(* is either based at 0 or ends below its base.                            *)
(*                                                                         *)
(* The types of the ranges, what a DMA port announces, and that a window   *)
(* is the one that was written rest on the widths of the registers         *)
(* (Narrow): every start and every end is then an address.                 *)
(***************************************************************************)
EXTENDS BridgeConfig, TLAPS

-----------------------------------------------------------------------------
(* Writes *)

AllWrites == ByteWrites \cup WordWrites \cup LongWrites

\* A register without its flag was never written.
Untouched(c) ==
  /\ "memBase" \notin c.valid => c.reg["memBase"] = 0
  /\ "memLimit" \notin c.valid => c.reg["memLimit"] = 0
  /\ "preBase" \notin c.valid => c.reg["preBase"] = 0 /\ c.reg["preBaseUpper"] = 0
  /\ "preLimit" \notin c.valid =>
       c.reg["preLimit"] = 0 /\ c.reg["preLimitUpper"] = 0

\* What a write may do: it stores into registers, sets flags, sets with each
\* register of a memory window the flag of that register, and sends range
\* changes unless it does nothing of the kind.
LEMMA WriteProperties ==
  ASSUME NEW w \in AllWrites
  PROVE  /\ w.stores \subseteq Registers
         /\ w.validates \subseteq Flagged
         /\ ~w.flag => w.stores = {} /\ w.validates = {}
         /\ "memBase" \in w.stores => "memBase" \in w.validates
         /\ "memLimit" \in w.stores => "memLimit" \in w.validates
         /\ "preBase" \in w.stores => "preBase" \in w.validates
         /\ "preLimit" \in w.stores => "preLimit" \in w.validates
         /\ "preBaseUpper" \in w.stores => "preBase" \in w.validates
         /\ "preLimitUpper" \in w.stores => "preLimit" \in w.validates
<1>1. CASE w \in ByteWrites
  BY <1>1 DEF ByteWrites, OtherWrite, Write, Registers, Flagged
<1>2. CASE w \in WordWrites
  BY <1>2 DEF WordWrites, OtherWrite, Write, Registers, Flagged
<1>3. CASE w \in LongWrites
  BY <1>3 DEF LongWrites, OtherWrite, Write, Registers, Flagged
<1> QED
  BY <1>1, <1>2, <1>3 DEF AllWrites

\* writeConfig() keeps the registers numbers and the flags flags.
LEMMA WrittenIsPort ==
  ASSUME NEW c \in Port, NEW w \in AllWrites, NEW v \in Payloads(w)
  PROVE  Written(c, w, v) \in Port
<1>1. \A r \in w.stores : v[r] \in Nat
  BY ConfigAssumption, WriteProperties DEF Payloads
<1>2. \A r \in Registers : c.reg[r] \in Nat
  BY DEF Port
<1>3. [r \in Registers |-> IF r \in w.stores THEN v[r] ELSE c.reg[r]]
        \in [Registers -> Nat]
  BY <1>1, <1>2
<1>4. c.valid \cup w.validates \in SUBSET Flagged
  BY WriteProperties DEF Port
<1> QED
  BY <1>3, <1>4 DEF Written, Port

\* A write that sends no range change changes no window.
LEMMA QuietWrite ==
  ASSUME NEW c \in Port, NEW w \in AllWrites, NEW v \in Payloads(w), ~w.flag
  PROVE  Written(c, w, v) = c
<1>1. w.stores = {} /\ w.validates = {}
  BY WriteProperties
<1>2. [r \in Registers |-> IF r \in w.stores THEN v[r] ELSE c.reg[r]] = c.reg
  BY <1>1 DEF Port
<1>3. c.valid \cup w.validates = c.valid
  BY <1>1
<1>4. c = [reg |-> c.reg, valid |-> c.valid]
  BY DEF Port
<1> QED
  BY <1>2, <1>3, <1>4 DEF Written

\* Registers without their flag stay as they are.
LEMMA WrittenUntouched ==
  ASSUME NEW c \in Port, NEW w \in AllWrites, NEW v \in Payloads(w),
         Untouched(c)
  PROVE  Untouched(Written(c, w, v))
<1> DEFINE d == Written(c, w, v)
<1>1. d.valid = c.valid \cup w.validates
  BY DEF Written
<1>2. \A r \in Registers : r \notin w.stores => d.reg[r] = c.reg[r]
  BY DEF Written
<1> HIDE DEF d
<1>3. {"memBase", "memLimit", "preBase", "preLimit", "preBaseUpper",
       "preLimitUpper"} \subseteq Registers
  BY DEF Registers
<1>4. Untouched(d)
  BY <1>1, <1>2, <1>3, WriteProperties DEF Untouched
<1> QED
  BY <1>4 DEF d

-----------------------------------------------------------------------------
(* The inductive invariant *)

ConfInv ==
  /\ isSwitch \in BOOLEAN
  /\ conf \in [Ids -> Port]
  /\ \A i \in Ids : Untouched(conf[i])

\* A register set that is not written keeps its ranges, and so do the response
\* ports that do not send a range change.
LEMMA UnannouncedUnchanged ==
  ASSUME conf \in [Ids -> Port], NEW i \in Configurable,
         NEW w \in AllWrites, NEW v \in Payloads(w), NEW r \in Ids,
         conf' = [conf EXCEPT ![i] = Written(conf[i], w, v)],
         ~(w.flag /\ Announces(i, r))
  PROVE  GetAddrRanges(conf', r) = GetAddrRanges(conf, r)
<1>1. i \in Ids
  BY DEF Configurable, Ids
<1>2. CASE ~w.flag
  <2>1. Written(conf[i], w, v) = conf[i]
    BY <1>1, <1>2, QuietWrite
  <2>2. conf' = conf
    BY <1>1, <2>1
  <2> QED
    BY <2>2
<1>3. CASE r = 0 /\ ~Announces(i, r)
  <2>1. isSwitch /\ i # 0
    BY <1>3 DEF Announces
  <2>2. conf'[0] = conf[0]
    BY <1>1, <2>1 DEF Ids
  <2> QED
    BY <1>3, <2>1, <2>2 DEF GetAddrRanges
<1>4. CASE r # 0 /\ ~Announces(i, r)
  <2>1. conf'[r] = conf[r]
    BY <1>1, <1>4 DEF Announces
  <2> QED
    BY <1>4, <2>1 DEF GetAddrRanges
<1> QED
  BY <1>2, <1>3, <1>4

\* What a configuration write does to the register sets.
LEMMA ConfStep ==
  ASSUME ConfInv, NEW i \in Configurable, NEW w \in AllWrites,
         NEW v \in Payloads(w), WriteConfig(i, w, v)
  PROVE  ConfInv'
<1>1. i \in Ids /\ conf[i] \in Port /\ Untouched(conf[i])
  BY DEF ConfInv, Configurable, Ids
<1>2. Written(conf[i], w, v) \in Port
  BY <1>1, WrittenIsPort
<1>3. Untouched(Written(conf[i], w, v))
  BY <1>1, WrittenUntouched
<1>4. conf' = [conf EXCEPT ![i] = Written(conf[i], w, v)]
  BY DEF WriteConfig
<1>5. isSwitch' = isSwitch
  BY DEF WriteConfig
<1>6. conf' \in [Ids -> Port]
  BY <1>2, <1>4, Zenon DEF ConfInv
<1>7. ASSUME NEW j \in Ids
      PROVE  Untouched(conf'[j])
  BY <1>3, <1>4 DEF ConfInv
<1>8. (\A j \in Ids : Untouched(conf[j]))'
  BY <1>7 DEF Untouched
<1> QED
  BY <1>5, <1>6, <1>8 DEF ConfInv

\* The names and flags that TypeOK and the routing lemmas need hold throughout.
LEMMA ConfInvariant == Spec => []ConfInv
<1>1. Init => ConfInv
  BY DEF Init, ConfInv, InitialPort, Port, Untouched, Registers
<1>2. ConfInv /\ [Next]_vars => ConfInv'
  <2> SUFFICES ASSUME ConfInv, [Next]_vars
               PROVE  ConfInv'
    OBVIOUS
  <2>1. ASSUME NEW i \in Configurable, NEW w \in AllWrites,
               NEW v \in Payloads(w), WriteConfig(i, w, v)
        PROVE  ConfInv'
    BY <2>1, ConfStep
  <2>2. CASE conf' = conf /\ isSwitch' = isSwitch
    BY <2>2 DEF ConfInv, Untouched
  <2> QED
    BY <2>1, <2>2 DEF Next, Restore, vars, AllWrites
<1> QED
  BY <1>1, <1>2, PTL DEF Spec

-----------------------------------------------------------------------------
(* What was announced is current *)

\* A port announces nothing stale when the bridge is built.
LEMMA AnnouncedInit == Init => AnnouncedAreCurrent
<1> SUFFICES ASSUME Init
             PROVE  AnnouncedAreCurrent
  OBVIOUS
<1>1. \A i \in Ids : FillRanges(conf[i]) = {}
  BY DEF Init, InitialPort, FillRanges, ValidWindows
<1>2. Complement({}) = {}
  BY DEF Complement, LastVal
<1>3. ASSUME NEW r \in Ids
      PROVE  announced[r] = GetAddrRanges(conf, r)
  <2>1. announced[r] = {}
    BY DEF Init
  <2>2. Ids = {0} \cup Ports
    BY DEF Ids
  <2> QED
    BY <1>1, <1>2, <2>1, <2>2 DEF GetAddrRanges
<1> QED
  BY <1>3 DEF AnnouncedAreCurrent

\* For every set of registers, values and word sizes: what each of the four
\* response ports announced last is what getAddrRanges() returns, after any
\* sequence of writeConfig() and of restarts from a checkpoint.
THEOREM AnnouncedTheorem == Spec => []AnnouncedAreCurrent
<1>1. Init => AnnouncedAreCurrent
  BY AnnouncedInit
<1>2. ConfInv /\ AnnouncedAreCurrent /\ [Next]_vars => AnnouncedAreCurrent'
  <2> SUFFICES ASSUME ConfInv, AnnouncedAreCurrent, [Next]_vars
               PROVE  AnnouncedAreCurrent'
    OBVIOUS
  <2>1. ASSUME NEW i \in Configurable, NEW w \in AllWrites,
               NEW v \in Payloads(w), WriteConfig(i, w, v)
        PROVE  AnnouncedAreCurrent'
    <3>1. isSwitch' = isSwitch
      BY <2>1 DEF WriteConfig
    <3>2. ASSUME NEW r \in Ids
          PROVE  announced'[r] = GetAddrRanges(conf', r)
      <4>1. CASE w.flag /\ Announces(i, r)
        BY <2>1, <4>1 DEF WriteConfig
      <4>2. CASE ~(w.flag /\ Announces(i, r))
        <5>1. announced'[r] = announced[r]
          BY <2>1, <4>2 DEF WriteConfig
        <5>2. GetAddrRanges(conf', r) = GetAddrRanges(conf, r)
          BY <2>1, <4>2, UnannouncedUnchanged, Zenon DEF WriteConfig, ConfInv
        <5> QED
          BY <5>1, <5>2 DEF AnnouncedAreCurrent
      <4> QED
        BY <4>1, <4>2
    <3> QED
      BY <3>1, <3>2 DEF AnnouncedAreCurrent, GetAddrRanges
  <2>2. CASE Restore
    BY <2>2 DEF Restore, AnnouncedAreCurrent, GetAddrRanges
  <2>3. CASE UNCHANGED vars
    BY <2>3, Zenon DEF vars, AnnouncedAreCurrent, GetAddrRanges
  <2> QED
    BY <2>1, <2>2, <2>3 DEF Next, AllWrites
<1> QED
  BY <1>1, <1>2, ConfInvariant, PTL DEF Spec

-----------------------------------------------------------------------------
(* Windows *)

\* The address space is not empty.
LEMMA TopIsPositive == Top \in Nat \ {0}
BY ConfigAssumption DEF Top

\* A product that is, or is not, extended in sign.
LEMMA ProductIsInt ==
  ASSUME NEW v \in Nat
  PROVE  Product(v) \in Int
BY ConfigAssumption DEF Product

\* Whatever the registers hold, a prefetchable window is one of addresses.
LEMMA PrefetchableIsAddress ==
  ASSUME NEW c \in Port
  PROVE  /\ PrefetchableWindow(c).base \in Address
         /\ PrefetchableWindow(c).limit \in Address
<1>1. ASSUME NEW x \in Int
      PROVE  Wrapped(x) \in Address
  BY TopIsPositive DEF Wrapped, Address
<1> DEFINE low  == c.reg["preBaseUpper"] * Half + Product(c.reg["preBase"])
           high == (c.reg["preLimitUpper"] % UpperShort) * Half
                   + Product(c.reg["preLimit"]) + Granule - 1
<1>2. /\ c.reg["preBaseUpper"] \in Nat /\ c.reg["preBase"] \in Nat
      /\ c.reg["preLimitUpper"] \in Nat /\ c.reg["preLimit"] \in Nat
  BY DEF Port, Registers
<1>3. Product(c.reg["preBase"]) \in Int /\ Product(c.reg["preLimit"]) \in Int
  BY <1>2, ProductIsInt
<1>4. c.reg["preLimitUpper"] % UpperShort \in Nat
  BY <1>2, ConfigAssumption
<1>5. low \in Int /\ high \in Int
  BY <1>2, <1>3, <1>4, ConfigAssumption
<1> HIDE DEF low, high
<1>6. Wrapped(low) \in Address /\ Wrapped(high) \in Address
  BY <1>1, <1>5
<1> QED
  BY <1>6 DEF PrefetchableWindow, low, high

\* The ends of the windows are natural numbers.
LEMMA WindowIsNat ==
  ASSUME NEW c \in Port, NEW w \in Windows(c)
  PROVE  w.base \in Nat /\ w.limit \in Nat
<1>1. \A r \in Registers : c.reg[r] \in Nat
  BY DEF Port
<1>2. CASE w = MemoryWindow(c)
  BY <1>1, <1>2, ConfigAssumption DEF MemoryWindow, Registers
<1>3. CASE w = PrefetchableWindow(c)
  BY <1>3, PrefetchableIsAddress, TopIsPositive DEF Address
<1>4. CASE w = IOWindow(c)
  BY <1>1, <1>4, ConfigAssumption DEF IOWindow, Registers
<1> QED
  BY <1>2, <1>3, <1>4 DEF Windows

\* Even when its end wraps, a range covers only addresses of its window.
LEMMA CoveredIsInside ==
  ASSUME NEW base \in Nat, NEW limit \in Nat, NEW a \in Address,
         Covers(RangeIn(base, limit), a)
  PROVE  base <= a /\ a <= limit
<1>1. (limit + 1) % Top <= limit + 1
  BY TopIsPositive
<1>2. a \in Int /\ (limit + 1) % Top \in Int
  BY TopIsPositive DEF Address
<1>3. base <= a /\ a < (limit + 1) % Top
  BY DEF Covers, RangeIn
<1> QED
  BY <1>1, <1>2, <1>3

\* fill_ranges() and getRequestPort() agree about the windows of one port.
LEMMA AdvertisedIsClaimed ==
  ASSUME NEW c \in Port, NEW range \in FillRanges(c), NEW a \in Address,
         Covers(range, a)
  PROVE  Claims(c, a)
<1>1. PICK w \in ValidWindows(c) : /\ w.base < w.limit
                                   /\ w.base # 0
                                   /\ range = RangeIn(w.base, w.limit)
  BY DEF FillRanges
<1>2. w \in Windows(c)
  BY DEF ValidWindows
<1>3. w.base \in Nat /\ w.limit \in Nat
  BY <1>2, WindowIsNat
<1>4. w.base <= a /\ a <= w.limit
  BY <1>1, <1>3, CoveredIsInside
<1>5. w.limit # 0
  BY <1>1, <1>3
<1> QED
  BY <1>1, <1>2, <1>4, <1>5 DEF Claims

-----------------------------------------------------------------------------
(* Routing *)

\* The least of a set of ports is one of them.
LEMMA MinIsMember ==
  ASSUME NEW S \in SUBSET Ports, S # {}
  PROVE  Min(S) \in S
<1>1. S \subseteq 1 .. 3
  BY ConfigAssumption
<1>2. \E x \in S : \A y \in S : x <= y
  <2>1. CASE 1 \in S
    BY <1>1, <2>1
  <2>2. CASE 1 \notin S /\ 2 \in S
    BY <1>1, <2>2
  <2>3. CASE 1 \notin S /\ 2 \notin S
    <3>1. \A x \in S : x = 3
      BY <1>1, <2>3
    <3> QED
      BY <3>1
  <2> QED
    BY <2>1, <2>2, <2>3
<1> QED
  BY <1>2 DEF Min

\* A request that some port claims goes to a port that claims it.
LEMMA RoutedToClaimant ==
  ASSUME NEW a, NEW i \in Ports, Claims(conf[i], a)
  PROVE  GetRequestPort(a) \in {j \in Ports : Claims(conf[j], a)}
<1> DEFINE claiming == {j \in Ports : Claims(conf[j], a)}
<1>1. claiming \in SUBSET Ports /\ claiming # {}
  OBVIOUS
<1> HIDE DEF claiming
<1>2. Min(claiming) \in claiming
  BY <1>1, MinIsMember
<1>3. GetRequestPort(a) = Min(claiming)
  BY <1>1 DEF GetRequestPort, claiming
<1> QED
  BY <1>2, <1>3 DEF claiming

\* A root complex has a downstream port for every address it announces
\* upstream, whatever has been written so far: getRequestPort() finds one for
\* each address of each range that getAddrRanges() returned.
THEOREM NothingBouncesBackTheorem == Spec => []NothingBouncesBack
<1>1. ConfInv /\ AnnouncedAreCurrent => NothingBouncesBack
  <2> SUFFICES ASSUME ConfInv, AnnouncedAreCurrent, ~isSwitch,
                      NEW range \in announced[0], NEW a \in Address,
                      Covers(range, a)
               PROVE  GetRequestPort(a) # 0
    BY DEF NothingBouncesBack
  <2>1. announced[0] = UNION {FillRanges(conf[i]) : i \in Ports}
    BY Zenon DEF AnnouncedAreCurrent, GetAddrRanges, Ids
  <2>2. PICK i \in Ports : range \in FillRanges(conf[i])
    BY <2>1
  <2>3. conf[i] \in Port
    BY DEF ConfInv, Ids
  <2>4. Claims(conf[i], a)
    BY <2>2, <2>3, AdvertisedIsClaimed
  <2>5. GetRequestPort(a) \in Ports
    BY <2>4, RoutedToClaimant
  <2> QED
    BY <2>5, ConfigAssumption
<1> QED
  BY <1>1, ConfInvariant, AnnouncedTheorem, PTL

-----------------------------------------------------------------------------
(* Half-written windows *)

\* Quotient and remainder are determined by what they add up to.
LEMMA RemainderIsUnique ==
  ASSUME NEW a \in Int, NEW b \in Nat \ {0}, NEW d \in Int, NEW r \in Nat,
         r < b, a = b * d + r
  PROVE  a % b = r
OBVIOUS

\* Half of the address space is a whole number of blocks.
LEMMA HalfIsBlocks == \E k \in Nat \ {0} : Half = Granule * k
<1>1. Half = Granule * (Half \div Granule) + (Half % Granule)
  BY ConfigAssumption
<1>2. Half \div Granule \in Nat
  BY ConfigAssumption
<1>3. Half = Granule * (Half \div Granule)
  BY <1>1, <1>2, ConfigAssumption
<1>4. Half \div Granule # 0
  BY <1>2, <1>3, ConfigAssumption
<1> QED
  BY <1>2, <1>3, <1>4

\* Addresses of whole blocks, also after wrapping.
LEMMA WrappedBlock ==
  ASSUME NEW x \in Int
  PROVE  \E y \in Nat : Wrapped(Granule * x) = Granule * y
<1>1. PICK k \in Nat \ {0} : Half = Granule * k
  BY HalfIsBlocks
<1> DEFINE n == k * Half
           z == x + n
<1>2. n \in Nat \ {0} /\ z \in Int
  BY ConfigAssumption
<1>3. Top = Granule * n
  BY <1>1, ConfigAssumption DEF Top
<1>4. Granule * x + Top = Granule * z
  BY <1>2, <1>3, ConfigAssumption
<1> HIDE DEF n, z
<1>5. z = n * (z \div n) + (z % n) /\ z \div n \in Int /\ z % n \in 0 .. n - 1
  BY <1>2
<1> DEFINE q == z \div n
           y == z % n
<1> HIDE DEF q, y
<1>6. q \in Int /\ y \in Nat /\ y < n /\ z = n * q + y
  BY <1>2, <1>5 DEF q, y
<1>7. Granule * z = Granule * n * q + Granule * y
  BY <1>2, <1>6, ConfigAssumption
<1>8. Granule * z = Top * q + Granule * y
  BY <1>3, <1>7
<1>9. Granule * y \in Nat /\ Granule * y < Granule * n
  BY <1>2, <1>6, ConfigAssumption
<1>10. (Granule * z) % Top = Granule * y
  <2>1. Granule * z \in Int
    BY <1>2, ConfigAssumption
  <2> QED
    BY <1>3, <1>6, <1>8, <1>9, <2>1, TopIsPositive, RemainderIsUnique, Zenon
<1> QED
  BY <1>4, <1>6, <1>10 DEF Wrapped

\* The base of a prefetchable window is that of a block.
LEMMA PrefetchableBase ==
  ASSUME NEW c \in Port
  PROVE  \E y \in Nat : PrefetchableWindow(c).base = Granule * y
<1> DEFINE u == c.reg["preBaseUpper"]
           v == c.reg["preBase"]
<1>1. u \in Nat /\ v \in Nat
  BY DEF Port, Registers
<1>2. PrefetchableWindow(c).base = Wrapped(u * Half + Product(v))
  BY DEF PrefetchableWindow
<1> HIDE DEF u, v
<1>3. PICK k \in Nat \ {0} : Half = Granule * k
  BY HalfIsBlocks
<1>4. \E m \in Int : Product(v) = Granule * m
  <2>1. Product(v) = v * Granule \/ Product(v) = v * Granule - Half
    BY DEF Product
  <2>2. v * Granule = Granule * v /\ v * Granule - Half = Granule * (v - k)
    BY <1>1, <1>3, ConfigAssumption
  <2>3. v \in Int /\ v - k \in Int
    BY <1>1
  <2> QED
    BY <2>1, <2>2, <2>3
<1>5. PICK m \in Int : Product(v) = Granule * m
  BY <1>4
<1> DEFINE x == u * k + m
<1>6. x \in Int
  BY <1>1
<1>7. u * Half + Product(v) = Granule * x
  BY <1>1, <1>3, <1>5, ConfigAssumption
<1> HIDE DEF x
<1> QED
  BY <1>2, <1>6, <1>7, WrappedBlock

\* A prefetchable window without one of its registers written.
LEMMA HalfPrefetchable ==
  ASSUME NEW c \in Port, Untouched(c)
  PROVE  /\ "preBase" \notin c.valid => PrefetchableWindow(c).base = 0
         /\ "preLimit" \notin c.valid => PrefetchableWindow(c).limit = Granule - 1
<1>1. Product(0) = 0
  BY ConfigAssumption DEF Product
<1>2. ASSUME "preBase" \notin c.valid
      PROVE  PrefetchableWindow(c).base = 0
  <2>1. c.reg["preBase"] = 0 /\ c.reg["preBaseUpper"] = 0
    BY <1>2 DEF Untouched
  <2>2. PrefetchableWindow(c).base = Wrapped(0 * Half + 0)
    BY <1>1, <2>1 DEF PrefetchableWindow
  <2>3. 0 * Half + 0 = 0
    BY ConfigAssumption
  <2>4. Wrapped(0) = 0
    BY TopIsPositive DEF Wrapped
  <2> QED
    BY <2>2, <2>3, <2>4
<1>3. ASSUME "preLimit" \notin c.valid
      PROVE  PrefetchableWindow(c).limit = Granule - 1
  <2>1. c.reg["preLimit"] = 0 /\ c.reg["preLimitUpper"] = 0
    BY <1>3 DEF Untouched
  <2>2. PrefetchableWindow(c).limit
          = Wrapped((0 % UpperShort) * Half + 0 + Granule - 1)
    BY <1>1, <2>1 DEF PrefetchableWindow
  <2>3. 0 % UpperShort = 0
    BY ConfigAssumption
  <2>4. (0 % UpperShort) * Half + 0 + Granule - 1 = Granule - 1
    BY <2>3, ConfigAssumption
  <2>5. Granule <= Half
    <3>1. PICK k \in Nat \ {0} : Half = Granule * k
      BY HalfIsBlocks
    <3> QED
      BY <3>1, ConfigAssumption
  <2>6. Half <= Top
    BY ConfigAssumption DEF Top
  <2>7. Granule - 1 \in Nat /\ Granule - 1 < Top
    BY <2>5, <2>6, TopIsPositive, ConfigAssumption
  <2>8. (Granule - 1 + Top) % Top = Granule - 1
    <3>1. Granule - 1 + Top = Top * 1 + (Granule - 1)
      BY <2>7, TopIsPositive
    <3> QED
      BY <2>7, <3>1, TopIsPositive, RemainderIsUnique
  <2> QED
    BY <2>2, <2>4, <2>8 DEF Wrapped
<1> QED
  BY <1>2, <1>3

\* Whole blocks: one that does not start at 0 starts after the first block.
LEMMA AboveFirstBlock ==
  ASSUME NEW y \in Nat, Granule * y # 0
  PROVE  Granule * y > Granule - 1
<1>1. y >= 1
  BY ConfigAssumption
<1> QED
  BY <1>1, ConfigAssumption

\* getRequestPort() ignores the flags, but a window that holds an address and
\* is not based at 0 has both its flags, unless it is the IO window.
LEMMA ClaimsAreProgrammed ==
  ASSUME NEW c \in Port, Untouched(c), NEW w \in Windows(c), NEW a \in Int,
         w.base <= a, a <= w.limit, w.base # 0
  PROVE  w \in ValidWindows(c) \cup {IOWindow(c)}
<1>1. w.base \in Nat /\ w.limit \in Nat
  BY WindowIsNat
<1>2. CASE w = MemoryWindow(c)
  <2>1. c.reg["memBase"] \in Nat /\ c.reg["memLimit"] \in Nat
    BY DEF Port, Registers
  <2>2. /\ w.base = c.reg["memBase"] * Granule
        /\ w.limit = c.reg["memLimit"] * Granule + Granule - 1
    BY <1>2 DEF MemoryWindow
  <2>3. "memBase" \in c.valid
    <3>1. CASE c.reg["memBase"] = 0
      BY <2>2, <3>1, ConfigAssumption
    <3> QED
      BY <3>1 DEF Untouched
  <2>4. "memLimit" \in c.valid
    <3>1. CASE c.reg["memLimit"] = 0
      <4>1. w.limit = Granule - 1
        BY <2>2, <3>1, ConfigAssumption
      <4>2. w.base = Granule * c.reg["memBase"]
        BY <2>1, <2>2, ConfigAssumption
      <4>3. w.base > Granule - 1
        BY <2>1, <4>2, AboveFirstBlock
      <4> QED
        BY <1>1, <4>1, <4>3
    <3> QED
      BY <3>1 DEF Untouched
  <2> QED
    BY <1>2, <2>3, <2>4 DEF ValidWindows
<1>3. CASE w = PrefetchableWindow(c)
  <2>1. "preBase" \in c.valid
    BY <1>3, HalfPrefetchable
  <2>2. "preLimit" \in c.valid
    <3>1. CASE "preLimit" \notin c.valid
      <4>1. w.limit = Granule - 1
        BY <1>3, <3>1, HalfPrefetchable
      <4>2. PICK y \in Nat : w.base = Granule * y
        BY <1>3, PrefetchableBase
      <4>3. w.base > Granule - 1
        BY <4>2, AboveFirstBlock
      <4> QED
        BY <1>1, <4>1, <4>3
    <3> QED
      BY <3>1
  <2> QED
    BY <1>3, <2>1, <2>2 DEF ValidWindows
<1> QED
  BY <1>2, <1>3 DEF Windows

\* For every number of ports, and every size of words and granules: a request
\* for an address in the programmed windows of one port only is routed to that
\* port by getRequestPort(), between any two of the writes that programme the
\* others.
THEOREM OwnerTheorem == Spec => []OwnerGetsTheRequest
<1>1. ConfInv => OwnerGetsTheRequest
  <2> SUFFICES ASSUME ConfInv, NEW i \in Ports,
                      NEW range \in FillRanges(conf[i]), NEW a \in Address,
                      Covers(range, a),
                      \A j \in Ports \ {i} :
                        \A w \in ValidWindows(conf[j]) \cup {IOWindow(conf[j])} :
                          a \notin w.base .. w.limit
               PROVE  GetRequestPort(a) = i
    BY DEF OwnerGetsTheRequest
  <2>1. \A j \in Ports : conf[j] \in Port /\ Untouched(conf[j])
    BY Zenon DEF ConfInv, Ids
  <2>2. Claims(conf[i], a)
    BY <2>1, AdvertisedIsClaimed
  <2>3. a \in Int
    BY TopIsPositive DEF Address
  <2>4. ASSUME NEW j \in Ports, j # i, Claims(conf[j], a)
        PROVE  FALSE
    <3>1. PICK w \in Windows(conf[j]) :
             w.base <= a /\ a <= w.limit /\ w.base # 0
      BY <2>4 DEF Claims
    <3>2. w \in ValidWindows(conf[j]) \cup {IOWindow(conf[j])}
      BY <2>1, <2>3, <3>1, ClaimsAreProgrammed
    <3>3. w.base \in Nat /\ w.limit \in Nat
      BY <2>1, WindowIsNat
    <3>4. a \in w.base .. w.limit
      BY <2>3, <3>1, <3>3
    <3> QED
      BY <2>4, <3>2, <3>4
  <2>5. GetRequestPort(a) \in {j \in Ports : Claims(conf[j], a)}
    BY <2>2, RoutedToClaimant
  <2> QED
    BY <2>4, <2>5
<1> QED
  BY <1>1, ConfInvariant, PTL

-----------------------------------------------------------------------------
(* Widths *)

\* Every register holds what fits in it.
Narrow(c) == \A r \in Registers : Fits(r, c.reg[r])

\* A register that was not written holds 0, which fits.
LEMMA ZeroFits == \A r \in Registers : Fits(r, 0)
BY ConfigAssumption DEF Fits

\* A register holds 0, or what was written to it.
Holds(c) == \A r \in Registers : c.reg[r] \in {0} \cup Values[r]

\* What is written fits.
LEMMA HeldFits ==
  ASSUME NEW c, Holds(c)
  PROVE  Narrow(c)
BY ZeroFits, WidthAssumption, Zenon DEF Holds, Narrow

\* writeConfig() stores in each register what is meant for it.
LEMMA WrittenHolds ==
  ASSUME NEW c \in Port, NEW w \in AllWrites, NEW v \in Payloads(w), Holds(c)
  PROVE  Holds(Written(c, w, v))
<1>1. \A r \in w.stores : v[r] \in Values[r] /\ r \in Registers
  BY WriteProperties DEF Payloads
<1>2. \A r \in Registers :
        Written(c, w, v).reg[r] = IF r \in w.stores THEN v[r] ELSE c.reg[r]
  BY DEF Written
<1> QED
  BY <1>1, <1>2, Zenon DEF Holds

\* The part of the invariant that TypeOK adds to ConfInv.
WidthInv == (\A i \in Ids : Holds(conf[i])) /\ writes \in 0 .. MaxWrites

\* Whatever is written, the registers hold that, and keep within their widths.
LEMMA WidthInvariant == Spec => []WidthInv
<1>1. Init => WidthInv
  BY ConfigAssumption DEF Init, WidthInv, Holds, InitialPort
<1>2. ConfInv /\ WidthInv /\ [Next]_vars => WidthInv'
  <2> SUFFICES ASSUME ConfInv, WidthInv, [Next]_vars
               PROVE  WidthInv'
    OBVIOUS
  <2>1. ASSUME NEW i \in Configurable, NEW w \in AllWrites,
               NEW v \in Payloads(w), WriteConfig(i, w, v)
        PROVE  WidthInv'
    <3>1. i \in Ids /\ conf[i] \in Port /\ conf \in [Ids -> Port]
      BY DEF ConfInv, Configurable, Ids
    <3>2. Holds(Written(conf[i], w, v))
      BY <3>1, WrittenHolds DEF WidthInv
    <3>3. conf' = [conf EXCEPT ![i] = Written(conf[i], w, v)]
      BY <2>1 DEF WriteConfig
    <3>4. \A j \in Ids : Holds(conf'[j])
      BY <3>1, <3>2, <3>3 DEF WidthInv
    <3>5. writes' \in 0 .. MaxWrites
      BY <2>1, ConfigAssumption DEF WriteConfig, WidthInv
    <3> QED
      BY <3>4, <3>5 DEF WidthInv, Holds
  <2>2. CASE conf' = conf /\ writes' = writes
    BY <2>2 DEF WidthInv, Holds
  <2> QED
    BY <2>1, <2>2 DEF Next, Restore, vars, AllWrites
<1> QED
  BY <1>1, <1>2, ConfInvariant, PTL DEF Spec

\* Every window starts at an address.
LEMMA BaseIsAddress ==
  ASSUME NEW c \in Port, Narrow(c), NEW w \in Windows(c)
  PROVE  w.base \in Address
<1>1. w.base \in Nat /\ Half \in Nat \ {0}
  BY WindowIsNat, ConfigAssumption
<1>2. Half <= Top
  BY ConfigAssumption DEF Top
<1>3. ASSUME w.base < Half
      PROVE  w.base \in Address
  BY <1>1, <1>2, <1>3, TopIsPositive DEF Address
<1>4. {"memBase", "ioBase"} \subseteq Registers
  BY DEF Registers
<1>5. CASE w = MemoryWindow(c)
  BY <1>3, <1>4, <1>5 DEF MemoryWindow, Narrow, Fits
<1>6. CASE w = PrefetchableWindow(c)
  BY <1>6, PrefetchableIsAddress
<1>7. CASE w = IOWindow(c)
  BY <1>3, <1>4, <1>7 DEF IOWindow, Narrow, Fits
<1> QED
  BY <1>5, <1>6, <1>7 DEF Windows

\* A range between two addresses; that its end wraps is RangeIn's.
LEMMA RangeInIsRange ==
  ASSUME NEW first \in Address, NEW last \in Int
  PROVE  RangeIn(first, last) \in AddrRange
BY TopIsPositive DEF RangeIn, AddrRange, Address

\* fill_ranges() adds ranges of addresses.
LEMMA FillRangesType ==
  ASSUME NEW c \in Port, Narrow(c)
  PROVE  FillRanges(c) \subseteq AddrRange
<1> SUFFICES ASSUME NEW w \in ValidWindows(c)
             PROVE  RangeIn(w.base, w.limit) \in AddrRange
  BY DEF FillRanges
<1>1. w \in Windows(c)
  BY DEF ValidWindows
<1>2. w.base \in Address /\ w.limit \in Int
  BY <1>1, BaseIsAddress, WindowIsNat
<1> QED
  BY <1>2, RangeInIsRange

-----------------------------------------------------------------------------
(* The ranges of a downstream response port *)

\* At most three ranges, of addresses.
Ranges(R) ==
  /\ R \subseteq AddrRange
  /\ \E x, y, z : R \subseteq {x, y, z}

\* Those of one register set.
LEMMA FillRangesAreFew ==
  ASSUME NEW c \in Port, Narrow(c)
  PROVE  Ranges(FillRanges(c))
<1> DEFINE x == RangeIn(MemoryWindow(c).base, MemoryWindow(c).limit)
           y == RangeIn(PrefetchableWindow(c).base, PrefetchableWindow(c).limit)
           z == RangeIn(IOWindow(c).base, IOWindow(c).limit)
<1>1. ASSUME NEW r \in FillRanges(c)
      PROVE  r \in {x, y, z}
  <2>1. PICK w \in ValidWindows(c) : r = RangeIn(w.base, w.limit)
    BY DEF FillRanges
  <2>2. w \in {MemoryWindow(c), PrefetchableWindow(c), IOWindow(c)}
    BY DEF ValidWindows, Windows
  <2> QED
    BY <2>1, <2>2
<1> HIDE DEF x, y, z
<1>2. \E a, b, d : FillRanges(c) \subseteq {a, b, d}
  BY <1>1
<1> QED
  BY <1>2, FillRangesType DEF Ranges

\* Some of few ranges are few.
LEMMA SubRanges ==
  ASSUME NEW R, Ranges(R), NEW S \in SUBSET R
  PROVE  Ranges(S)
BY DEF Ranges

\* The fields of a range.
LEMMA RangeFields ==
  ASSUME NEW r \in AddrRange
  PROVE  /\ r.start \in 0 .. Top - 1 /\ r.start \in Nat
         /\ r.end \in 0 .. Top - 1 /\ r.end \in Nat
BY TopIsPositive DEF AddrRange, Address

\* Of few ranges one starts last.
LEMMA LastExists ==
  ASSUME NEW R, Ranges(R), R # {}
  PROVE  \E r \in R : \A s \in R : s.start <= r.start
<1>1. PICK x, y, z : R \subseteq {x, y, z}
  BY DEF Ranges
<1>2. \A r \in R : r.start \in Nat
  BY RangeFields DEF Ranges
<1>3. ASSUME NEW a, NEW b, NEW d, R \subseteq {a, b, d}, a \in R, b \in R
      PROVE  \E r \in R : \A s \in R : s.start <= r.start
  <2>1. PICK m \in {a, b} : a.start <= m.start /\ b.start <= m.start
    BY <1>2, <1>3
  <2>2. CASE d \in R
    <3>1. PICK n \in {m, d} : m.start <= n.start /\ d.start <= n.start
      BY <1>2, <1>3, <2>2
    <3>2. n \in R /\ \A s \in R : s.start <= n.start
      BY <1>2, <1>3, <2>1, <2>2, <3>1
    <3> QED
      BY <3>2
  <2>3. CASE d \notin R
    BY <1>3, <2>1, <2>3
  <2> QED
    BY <2>2, <2>3
<1>4. CASE \E a \in R : \A s \in R : s = a
  BY <1>2, <1>4
<1>5. CASE ~\E a \in R : \A s \in R : s = a
  <2>1. PICK a \in R, b \in R : a # b
    BY <1>5
  <2>2. \E d : {x, y, z} \subseteq {a, b, d}
    BY <1>1, <2>1
  <2> QED
    BY <1>1, <1>3, <2>1, <2>2
<1> QED
  BY <1>4, <1>5

\* And one starts first.
LEMMA FirstExists ==
  ASSUME NEW R, Ranges(R), R # {}
  PROVE  \E r \in R : \A s \in R : r.start <= s.start
<1>1. PICK x, y, z : R \subseteq {x, y, z}
  BY DEF Ranges
<1>2. \A r \in R : r.start \in Nat
  BY RangeFields DEF Ranges
<1>3. ASSUME NEW a, NEW b, NEW d, R \subseteq {a, b, d}, a \in R, b \in R
      PROVE  \E r \in R : \A s \in R : r.start <= s.start
  <2>1. PICK m \in {a, b} : m.start <= a.start /\ m.start <= b.start
    BY <1>2, <1>3
  <2>2. CASE d \in R
    <3>1. PICK n \in {m, d} : n.start <= m.start /\ n.start <= d.start
      BY <1>2, <1>3, <2>2
    <3>2. n \in R /\ \A s \in R : n.start <= s.start
      BY <1>2, <1>3, <2>1, <2>2, <3>1
    <3> QED
      BY <3>2
  <2>3. CASE d \notin R
    BY <1>3, <2>1, <2>3
  <2> QED
    BY <2>2, <2>3
<1>4. CASE \E a \in R : \A s \in R : s = a
  BY <1>2, <1>4
<1>5. CASE ~\E a \in R : \A s \in R : s = a
  <2>1. PICK a \in R, b \in R : a # b
    BY <1>5
  <2>2. \E d : {x, y, z} \subseteq {a, b, d}
    BY <1>1, <2>1
  <2> QED
    BY <1>1, <1>3, <2>1, <2>2
<1> QED
  BY <1>4, <1>5

\* last_val after the loop over few ranges: 0, or what follows the last one.
LEMMA LastValEffect ==
  ASSUME NEW R, Ranges(R)
  PROVE  /\ R = {} => LastVal(R) = 0
         /\ R # {} => \E r \in R : /\ \A s \in R : s.start <= r.start
                                  /\ LastVal(R) = (r.end + 1) % Top
         /\ LastVal(R) \in Address
<1>1. ASSUME R = {}
      PROVE  LastVal(R) = 0 /\ 0 \in Address
  BY <1>1, TopIsPositive DEF LastVal, Address
<1>2. ASSUME R # {}
      PROVE  \E r \in R : /\ \A s \in R : s.start <= r.start
                         /\ LastVal(R) = (r.end + 1) % Top
  <2> DEFINE r == CHOOSE r \in R : \A s \in R : s.start <= r.start
  <2>1. r \in R /\ \A s \in R : s.start <= r.start
    <3>1. \E q \in R : \A s \in R : s.start <= q.start
      BY <1>2, LastExists
    <3> QED
      BY <3>1, Zenon
  <2>2. LastVal(R) = (r.end + 1) % Top
    BY <1>2, Zenon DEF LastVal
  <2> HIDE DEF r
  <2> QED
    BY <2>1, <2>2
<1>3. ASSUME NEW r \in R
      PROVE  (r.end + 1) % Top \in Address
  BY TopIsPositive, RangeFields DEF Ranges, Address
<1> QED
  BY <1>1, <1>2, <1>3, Zenon

\* The ranges that the loop of getAddrRanges() meets before r, and last_val then.
Before(R, r) == {s \in R : s.start < r.start}

LastBefore(R, r) == LastVal(Before(R, r))

\* What the complement consists of.
LEMMA ComplementMembers ==
  ASSUME NEW R, NEW g
  PROVE  g \in Complement(R) <=>
           \/ \E r \in R : /\ LastBefore(R, r) < r.start
                          /\ g = Gap(LastBefore(R, r), r)
           \/ LastVal(R) # 0 /\ g = RangeIn(LastVal(R), Top - 1)
BY Zenon DEF Complement, LastBefore, Before

\* last_val is an address throughout the loop.
LEMMA LastBeforeType ==
  ASSUME NEW R, Ranges(R), NEW r
  PROVE  Ranges(Before(R, r)) /\ LastBefore(R, r) \in Address
<1>1. Before(R, r) \in SUBSET R
  BY DEF Before
<1>2. Ranges(Before(R, r))
  BY <1>1, SubRanges
<1> QED
  BY <1>2, LastValEffect DEF LastBefore

\* A downstream response port announces ranges of addresses.
LEMMA ComplementType ==
  ASSUME NEW R, Ranges(R)
  PROVE  Complement(R) \subseteq AddrRange
<1> SUFFICES ASSUME NEW g \in Complement(R)
             PROVE  g \in AddrRange
  OBVIOUS
<1>1. ASSUME NEW r \in R
      PROVE  Gap(LastBefore(R, r), r) \in AddrRange
  <2>1. LastBefore(R, r) \in Address
    BY LastBeforeType
  <2>2. r.start - 1 \in Int
    BY RangeFields DEF Ranges
  <2> QED
    BY <2>1, <2>2, RangeInIsRange DEF Gap
<1>2. RangeIn(LastVal(R), Top - 1) \in AddrRange
  <2>1. LastVal(R) \in Address /\ Top - 1 \in Int
    BY LastValEffect, TopIsPositive
  <2> QED
    BY <2>1, RangeInIsRange
<1> QED
  BY <1>1, <1>2, ComplementMembers, Zenon

\* Each of the four response ports announces ranges of addresses.
LEMMA AddrRangesType ==
  ASSUME ConfInv, WidthInv, NEW r \in Ids
  PROVE  GetAddrRanges(conf, r) \subseteq AddrRange
<1>1. \A i \in Ids : conf[i] \in Port /\ Narrow(conf[i])
  BY HeldFits DEF ConfInv, WidthInv
<1>2. \A i \in Ids : FillRanges(conf[i]) \subseteq AddrRange
  BY <1>1, FillRangesType
<1>3. 0 \in Ids /\ Ports \subseteq Ids
  BY DEF Ids
<1>4. CASE r = 0
  BY <1>2, <1>3, <1>4 DEF GetAddrRanges
<1>5. CASE r # 0
  <2>1. Ranges(FillRanges(conf[r]))
    BY <1>1, FillRangesAreFew
  <2> QED
    BY <1>5, <2>1, ComplementType DEF GetAddrRanges
<1> QED
  BY <1>4, <1>5

\* Every response port has a neighbour.
EachAnnounces == announced = [r \in Ids |-> announced[r]]

\* No step changes which response ports there are.
LEMMA EachAnnouncesInvariant == Spec => []EachAnnounces
<1>1. Init => EachAnnounces
  BY DEF Init, EachAnnounces
<1>2. EachAnnounces /\ [Next]_vars => EachAnnounces'
  BY DEF Next, WriteConfig, Restore, vars, EachAnnounces
<1> QED
  BY <1>1, <1>2, PTL DEF Spec

\* Each register holds what was written to it, and whatever they hold, every
\* range a neighbour is given is one of 64-bit addresses.
THEOREM TypeTheorem == Spec => []TypeOK
<1>1. ASSUME ConfInv, WidthInv, EachAnnounces, AnnouncedAreCurrent
      PROVE  TypeOK
  <2>1. \A r \in Ids : announced[r] \in SUBSET AddrRange
    BY <1>1, AddrRangesType DEF AnnouncedAreCurrent
  <2>2. announced \in [Ids -> SUBSET AddrRange]
    BY <1>1, <2>1 DEF EachAnnounces
  <2> QED
    BY <1>1, <2>2, Zenon DEF ConfInv, WidthInv, Holds, TypeOK
<1> QED
  BY <1>1, ConfInvariant, WidthInvariant, EachAnnouncesInvariant,
     AnnouncedTheorem, PTL

\* Of separate ranges, those that start before r end before it, and no end
\* wraps when it is increased.
LEMMA BeforeEnds ==
  ASSUME NEW R, Ranges(R), Separate(R), NEW r \in R, NEW s \in R,
         s.start < r.start
  PROVE  s.end <= r.start /\ s.end + 1 < Top
<1>1. /\ r.start \in Nat /\ r.end \in 0 .. Top - 1
      /\ s.start \in Nat /\ s.end \in Nat /\ Top \in Nat
  BY RangeFields, TopIsPositive DEF Ranges
<1>2. r # s
  BY <1>1
<1>3. r.start < r.end /\ s.start < s.end
  BY DEF Separate
<1>4. r.end <= s.start \/ s.end <= r.start
  BY <1>2 DEF Separate
<1> QED
  BY <1>1, <1>3, <1>4

\* last_val before r: beyond the end of every range before it, and not more than
\* one beyond that of some.
LEMMA LastBeforeBounds ==
  ASSUME NEW R, Ranges(R), Separate(R), NEW r \in R
  PROVE  /\ \A s \in R : s.start < r.start => s.end < LastBefore(R, r)
         /\ \/ LastBefore(R, r) = 0
            \/ \E s \in R : s.start < r.start /\ LastBefore(R, r) = s.end + 1
<1> DEFINE B == Before(R, r)
           l == LastBefore(R, r)
<1>1. Ranges(B) /\ l = LastVal(B) /\ \A s \in B : s \in R /\ s.start < r.start
  BY LastBeforeType DEF LastBefore, Before
<1>2. CASE B = {}
  <2>1. l = 0
    BY <1>1, <1>2, LastValEffect
  <2> QED
    BY <1>2, <2>1 DEF Before
<1>3. CASE B # {}
  <2>1. PICK m \in B : /\ \A s \in B : s.start <= m.start
                       /\ LastVal(B) = (m.end + 1) % Top
    BY <1>1, <1>3, LastValEffect
  <2>2. m \in R /\ m.start < r.start
    BY <1>1, <2>1
  <2>3. m.end + 1 < Top /\ m.end \in Nat /\ m.start \in Nat /\ m.start < m.end
    BY <2>2, BeforeEnds, RangeFields, Zenon DEF Ranges, Separate
  <2>4. l = m.end + 1
    BY <1>1, <2>1, <2>3, TopIsPositive
  <2>5. ASSUME NEW s \in R, s.start < r.start
        PROVE  s.end < l
    <3>1. s \in B /\ s.end \in Nat /\ s.start \in Nat
      BY <2>5, RangeFields DEF Before, Ranges
    <3>2. s.start <= m.start
      BY <2>1, <3>1
    <3>3. CASE s = m
      BY <2>3, <2>4, <3>3
    <3>4. CASE s # m
      <4>1. s.end <= m.start \/ m.end <= s.start
        BY <2>2, <3>4 DEF Separate
      <4> QED
        BY <2>3, <2>4, <3>1, <3>2, <4>1
    <3> QED
      BY <3>3, <3>4
  <2> QED
    BY <2>2, <2>4, <2>5
<1> QED
  BY <1>2, <1>3

\* The gap before a range covers what lies between last_val and the range, and
\* the range that the code adds after the last window covers nothing: its end
\* wraps to 0.
LEMMA GapCovers ==
  ASSUME NEW last \in Address, NEW r \in AddrRange, NEW a \in Address
  PROVE  /\ Covers(Gap(last, r), a) <=> last <= a /\ a < r.start
         /\ ~Covers(RangeIn(last, Top - 1), a)
<1>1. /\ r.start \in 0 .. Top - 1 /\ Top \in Nat \ {0}
      /\ a \in Nat
  BY RangeFields, TopIsPositive DEF Address
<1>2. (r.start - 1 + 1) % Top = r.start
  BY <1>1
<1>3. (Top - 1 + 1) % Top = 0
  BY <1>1
<1> QED
  BY <1>1, <1>2, <1>3 DEF Gap, RangeIn, Covers

\* What the complement of separate ranges covers.
LEMMA ComplementCovers ==
  ASSUME NEW R, Ranges(R), Separate(R), NEW a \in Address
  PROVE  (\E g \in Complement(R) : Covers(g, a)) <=>
           /\ \E r \in R : a < r.start
           /\ \A r \in R : ~Covers(r, a) /\ a # r.end
<1>1. /\ a \in Nat
      /\ \A r \in R : /\ r \in AddrRange /\ r.start \in Nat /\ r.end \in Nat
                      /\ r.start < r.end
                      /\ LastBefore(R, r) \in Address /\ LastBefore(R, r) \in Nat
  <2>1. a \in Nat /\ \A x \in Address : x \in Nat
    BY TopIsPositive DEF Address
  <2>2. ASSUME NEW r \in R
        PROVE  /\ r \in AddrRange /\ r.start \in Nat /\ r.end \in Nat
               /\ r.start < r.end
    BY RangeFields DEF Ranges, Separate
  <2>3. ASSUME NEW r \in R
        PROVE  LastBefore(R, r) \in Address
    BY LastBeforeType
  <2> QED
    BY <2>1, <2>2, <2>3, Zenon
<1>2. (\E g \in Complement(R) : Covers(g, a)) <=>
         \E r \in R : LastBefore(R, r) <= a /\ a < r.start
  <2>1. ~Covers(RangeIn(LastVal(R), Top - 1), a)
    <3>1. PICK r : r = [start |-> a, end |-> a]
      BY Zenon
    <3>2. r \in AddrRange
      BY <3>1 DEF AddrRange
    <3> QED
      BY <3>2, LastValEffect, GapCovers
  <2>2. ASSUME NEW g \in Complement(R), Covers(g, a)
        PROVE  \E r \in R : LastBefore(R, r) <= a /\ a < r.start
    <3>1. PICK r \in R : g = Gap(LastBefore(R, r), r)
      BY <2>1, <2>2, ComplementMembers
    <3> QED
      BY <1>1, <2>2, <3>1, GapCovers
  <2>3. ASSUME NEW r \in R, LastBefore(R, r) <= a, a < r.start
        PROVE  \E g \in Complement(R) : Covers(g, a)
    <3>1. LastBefore(R, r) < r.start
      BY <1>1, <2>3
    <3>2. Gap(LastBefore(R, r), r) \in Complement(R)
      BY <3>1, ComplementMembers
    <3>3. Covers(Gap(LastBefore(R, r), r), a)
      BY <1>1, <2>3, GapCovers
    <3> QED
      BY <3>2, <3>3
  <2> QED
    BY <2>2, <2>3
<1>3. ASSUME NEW r \in R, LastBefore(R, r) <= a, a < r.start, NEW s \in R
      PROVE  ~Covers(s, a) /\ a # s.end
  <2>1. CASE s.start < r.start
    <3>1. s.end < LastBefore(R, r)
      BY <2>1, LastBeforeBounds
    <3> QED
      BY <1>1, <1>3, <3>1 DEF Covers
  <2>2. CASE ~(s.start < r.start)
    BY <1>1, <1>3, <2>2 DEF Covers
  <2> QED
    BY <2>1, <2>2
<1>4. ASSUME NEW q \in R, a < q.start,
             \A r \in R : ~Covers(r, a) /\ a # r.end
      PROVE  \E r \in R : LastBefore(R, r) <= a /\ a < r.start
  <2> DEFINE S == {r \in R : a < r.start}
  <2>1. Ranges(S) /\ S # {}
    BY <1>4, SubRanges
  <2>2. PICK r \in S : \A s \in S : r.start <= s.start
    BY <2>1, FirstExists
  <2>3. r \in R /\ a < r.start
    BY <2>2
  <2>4. LastBefore(R, r) <= a
    <3>1. CASE LastBefore(R, r) = 0
      BY <1>1, <3>1
    <3>2. CASE LastBefore(R, r) # 0
      <4>1. PICK s \in R : s.start < r.start /\ LastBefore(R, r) = s.end + 1
        BY <2>3, <3>2, LastBeforeBounds
      <4>2. s \notin S
        BY <1>1, <2>2, <2>3, <4>1
      <4>3. s.start <= a
        BY <1>1, <4>2
      <4>4. ~Covers(s, a) /\ a # s.end
        BY <1>4
      <4> QED
        BY <1>1, <4>1, <4>3, <4>4 DEF Covers
    <3> QED
      BY <3>1, <3>2
  <2> QED
    BY <2>3, <2>4
<1> QED
  BY <1>2, <1>3, <1>4

\* For every number of ports and every size of words and granules: the ranges
\* that getAddrRanges() announces downstream meet no window of the port itself,
\* and take in all addresses below the windows, as long as no two windows overlap.
THEOREM DmaAvoidsTheorem == Spec => []DmaAvoidsOwnWindows
<1>1. ASSUME ConfInv, WidthInv, AnnouncedAreCurrent
      PROVE  DmaAvoidsOwnWindows
  <2> SUFFICES ASSUME NEW i \in Ports, Separate(FillRanges(conf[i])),
                      FillRanges(conf[i]) # {}, NEW a \in Address
               PROVE  /\ Accepts(i, a) => \A r \in FillRanges(conf[i]) : ~Covers(r, a)
                      /\ (\A r \in FillRanges(conf[i]) : a < r.start) => Accepts(i, a)
    BY Zenon DEF DmaAvoidsOwnWindows
  <2>1. i \in Ids /\ i # 0
    BY ConfigAssumption DEF Ids
  <2>2. conf[i] \in Port /\ Narrow(conf[i])
    BY <1>1, <2>1, HeldFits DEF ConfInv, WidthInv
  <2>3. Ranges(FillRanges(conf[i]))
    BY <2>2, FillRangesAreFew
  <2>4. announced[i] = Complement(FillRanges(conf[i]))
    BY <1>1, <2>1, Zenon DEF AnnouncedAreCurrent, GetAddrRanges
  <2> DEFINE R == FillRanges(conf[i])
  <2> HIDE DEF R
  <2>5. (\E r \in Complement(R) : Covers(r, a)) <=>
          /\ \E r \in R : a < r.start
          /\ \A r \in R : ~Covers(r, a) /\ a # r.end
    BY <2>3, ComplementCovers DEF R
  <2>6. ASSUME \A r \in R : a < r.start
        PROVE  \A r \in R : ~Covers(r, a) /\ a # r.end
    <3> TAKE r \in R
    <3>1. a \in Nat /\ r.start \in Nat /\ r.end \in Nat /\ r.start < r.end
      <4>1. r \in AddrRange /\ r.start < r.end
        BY <2>3 DEF R, Ranges, Separate
      <4> QED
        BY <4>1, RangeFields, TopIsPositive DEF Address
    <3> QED
      BY <3>1, <2>6 DEF Covers
  <2> QED
    BY <2>4, <2>5, <2>6, Zenon DEF R, Accepts
<1> QED
  BY <1>1, ConfInvariant, WidthInvariant, AnnouncedTheorem, PTL

-----------------------------------------------------------------------------
(* The windows are those the registers describe *)

\* An address lies between the first and the last address of blocks exactly if
\* its own block lies between them.
LEMMA BlocksBetween ==
  ASSUME NEW low \in Nat, NEW high \in Nat, NEW a \in Nat
  PROVE  (Granule * low <= a /\ a <= Granule * high + Granule - 1) <=>
           (low <= a \div Granule /\ a \div Granule <= high)
<1> DEFINE q == a \div Granule
           r == a % Granule
<1>1. Granule \in Nat \ {0}
  BY ConfigAssumption
<1>2. q \in Nat /\ r \in Nat /\ r < Granule /\ a = Granule * q + r
  BY <1>1
<1> HIDE DEF q, r
<1>3. ASSUME NEW x \in Nat, NEW y \in Nat, x <= y
      PROVE  Granule * x <= Granule * y
  <2>1. PICK d \in Nat : y = x + d
    <3>1. y - x \in Nat /\ y = x + (y - x)
      BY <1>3
    <3> QED
      BY <3>1
  <2>2. Granule * y = Granule * x + Granule * d /\ Granule * d \in Nat
    BY <1>1, <2>1
  <2> QED
    BY <1>1, <2>2
<1>4. /\ Granule * (q + 1) = Granule * q + Granule
      /\ Granule * (high + 1) = Granule * high + Granule
      /\ Granule * q \in Nat /\ Granule * low \in Nat /\ Granule * high \in Nat
      /\ Granule * (q + 1) \in Nat
  BY <1>1, <1>2
<1>5. /\ low <= q => Granule * low <= Granule * q
      /\ q + 1 <= low => Granule * (q + 1) <= Granule * low
      /\ q <= high => Granule * q <= Granule * high
      /\ high + 1 <= q => Granule * (high + 1) <= Granule * q
  BY <1>2, <1>3
<1>6. Granule * low <= a <=> low <= q
  BY <1>1, <1>2, <1>4, <1>5
<1>7. a <= Granule * high + Granule - 1 <=> q <= high
  BY <1>1, <1>2, <1>4, <1>5
<1> QED
  BY <1>6, <1>7 DEF q

\* A number below the top of the address space is an address as it stands.
LEMMA WrappedSmall ==
  ASSUME NEW x \in Nat, x < Top
  PROVE  Wrapped(x) = x
<1>1. x + Top = Top * 1 + x
  BY TopIsPositive
<1> QED
  BY <1>1, TopIsPositive, RemainderIsUnique DEF Wrapped

\* The sum of an upper half and a block in a lower half, to the last address of
\* the block: it stays below the top.
LEMMA HalvesAdd ==
  ASSUME NEW k \in Nat \ {0}, Half = Granule * k,
         NEW u \in Nat, u < Half, NEW v \in Nat, v * Granule < Half,
         NEW x \in 0 .. Granule - 1
  PROVE  /\ u * Half + v * Granule + x \in Nat
         /\ u * Half + v * Granule + x < Top
         /\ u * Half + v * Granule + x = Granule * (u * k + v) + x
<1>1. Granule \in Nat \ {0} /\ Half \in Nat \ {0} /\ x \in Nat /\ x < Granule
  BY ConfigAssumption
<1>2. v < k
  <2>1. CASE v >= k
    <3>1. PICK d \in Nat : v = k + d
      <4>1. v - k \in Nat /\ v = k + (v - k)
        BY <2>1
      <4> QED
        BY <4>1
    <3>2. v * Granule = Granule * k + d * Granule /\ d * Granule \in Nat
      BY <1>1, <3>1
    <3> QED
      BY <1>1, <3>2
  <2> QED
    BY <2>1
<1>3. PICK d \in Nat : k = v + 1 + d
  <2>1. k - v - 1 \in Nat /\ k = v + 1 + (k - v - 1)
    BY <1>2
  <2> QED
    BY <2>1
<1>4. /\ Half = v * Granule + Granule + d * Granule
      /\ d * Granule \in Nat /\ v * Granule \in Nat
  BY <1>1, <1>3
<1>5. v * Granule + x < Half
  BY <1>1, <1>4
<1>6. PICK e \in Nat : Half = u + 1 + e
  <2>1. Half - u - 1 \in Nat /\ Half = u + 1 + (Half - u - 1)
    BY <1>1
  <2> QED
    BY <2>1, Zenon
<1>7. Top = u * Half + Half + e * Half /\ e * Half \in Nat /\ u * Half \in Nat
  <2>1. (u + 1 + e) * Half = u * Half + Half + e * Half
    BY <1>1
  <2> QED
    BY <1>1, <1>6, <2>1 DEF Top
<1>8. u * Half = Granule * (u * k) /\ u * k \in Nat
  BY <1>1
<1>9. Granule * (u * k + v) = Granule * (u * k) + v * Granule
  BY <1>1, <1>8
<1> QED
  BY <1>1, <1>4, <1>5, <1>7, <1>8, <1>9

\* The getters of a prefetchable window compute the first address of the block
\* of the base and the last one of the block of the limit.
LEMMA PrefetchableIsBlocks ==
  ASSUME NEW c \in Port, Narrow(c),
         c.reg["preLimitUpper"] < UpperShort,
         2 * c.reg["preBase"] * Granule < Half,
         2 * c.reg["preLimit"] * Granule < Half
  PROVE  LET low  == Block(c.reg["preBaseUpper"], c.reg["preBase"])
             high == Block(c.reg["preLimitUpper"], c.reg["preLimit"])
         IN  /\ low \in Nat /\ high \in Nat
             /\ PrefetchableWindow(c).base = Granule * low
             /\ PrefetchableWindow(c).limit = Granule * high + Granule - 1
<1> DEFINE bu == c.reg["preBaseUpper"]
           b  == c.reg["preBase"]
           lu == c.reg["preLimitUpper"]
           l  == c.reg["preLimit"]
           k  == Half \div Granule
<1>1. bu \in Nat /\ b \in Nat /\ lu \in Nat /\ l \in Nat
  BY DEF Port, Registers
<1>2. bu < Half /\ b * Granule < Half /\ l * Granule < Half
  BY DEF Narrow, Fits, Registers
<1>3. lu < Half /\ lu % UpperShort = lu
  <2>1. UpperShort \in Nat \ {0} /\ UpperShort <= Half /\ Half \in Nat
    BY ConfigAssumption
  <2> QED
    BY <1>1, <2>1
<1>4. Product(b) = b * Granule /\ Product(l) = l * Granule
  <2>1. ~(2 * b * Granule >= Half) /\ ~(2 * l * Granule >= Half)
    BY <1>1, ConfigAssumption
  <2> QED
    BY <2>1 DEF Product
<1>5. k \in Nat \ {0} /\ Half = Granule * k
  <2>1. Half = Granule * k + (Half % Granule) /\ k \in Nat
    BY ConfigAssumption
  <2> QED
    BY <2>1, ConfigAssumption
<1>6. /\ PrefetchableWindow(c).base = Wrapped(bu * Half + b * Granule)
      /\ PrefetchableWindow(c).limit = Wrapped(lu * Half + l * Granule + Granule - 1)
  BY <1>3, <1>4 DEF PrefetchableWindow
<1>7. /\ Block(c.reg["preBaseUpper"], c.reg["preBase"]) = bu * k + b
      /\ Block(c.reg["preLimitUpper"], c.reg["preLimit"]) = lu * k + l
  BY DEF Block
<1> HIDE DEF bu, b, lu, l, k
<1>8. bu * k + b \in Nat /\ lu * k + l \in Nat
  BY <1>1, <1>5
<1>9. 0 \in 0 .. Granule - 1 /\ Granule - 1 \in 0 .. Granule - 1
  BY ConfigAssumption
<1>10. PrefetchableWindow(c).base = Granule * (bu * k + b)
  <2>1. /\ bu * Half + b * Granule + 0 \in Nat
        /\ bu * Half + b * Granule + 0 < Top
        /\ bu * Half + b * Granule + 0 = Granule * (bu * k + b) + 0
    BY <1>1, <1>2, <1>5, <1>9, HalvesAdd
  <2>2. /\ bu * Half + b * Granule + 0 = bu * Half + b * Granule
        /\ Granule * (bu * k + b) + 0 = Granule * (bu * k + b)
    BY <1>1, <1>8, ConfigAssumption
  <2> QED
    BY <1>6, <2>1, <2>2, WrappedSmall
<1>11. PrefetchableWindow(c).limit = Granule * (lu * k + l) + Granule - 1
  <2>1. /\ lu * Half + l * Granule + (Granule - 1) \in Nat
        /\ lu * Half + l * Granule + (Granule - 1) < Top
        /\ lu * Half + l * Granule + (Granule - 1)
              = Granule * (lu * k + l) + (Granule - 1)
    BY <1>1, <1>2, <1>3, <1>5, <1>9, HalvesAdd
  <2>2. /\ lu * Half + l * Granule + (Granule - 1)
              = lu * Half + l * Granule + Granule - 1
        /\ Granule * (lu * k + l) + (Granule - 1)
              = Granule * (lu * k + l) + Granule - 1
    BY <1>1, <1>8, ConfigAssumption
  <2> QED
    BY <1>6, <2>1, <2>2, WrappedSmall
<1> QED
  BY <1>7, <1>8, <1>10, <1>11

\* For every size of words and granules: the window that
\* getPrefetchableMemoryBase() and getPrefetchableMemoryLimit() compute is the
\* one the PCI-to-PCI bridge architecture defines for the registers, for upper
\* limits that fit in the uint16_t and lower halves below 2 GB.
THEOREM WindowTheorem == Spec => []WindowAsWritten
<1>1. ASSUME ConfInv, WidthInv
      PROVE  WindowAsWritten
  <2> SUFFICES ASSUME NEW i \in Ids,
                      conf[i].reg["preLimitUpper"] < UpperShort,
                      2 * conf[i].reg["preBase"] * Granule < Half,
                      2 * conf[i].reg["preLimit"] * Granule < Half,
                      NEW a \in Address
               PROVE  LET reg  == conf[i].reg
                          low  == Block(reg["preBaseUpper"], reg["preBase"])
                          high == Block(reg["preLimitUpper"], reg["preLimit"])
                          w    == PrefetchableWindow(conf[i])
                      IN  w.base <= a /\ a <= w.limit <=>
                            low <= a \div Granule /\ a \div Granule <= high
    BY Zenon DEF WindowAsWritten
  <2> DEFINE reg  == conf[i].reg
             low  == Block(reg["preBaseUpper"], reg["preBase"])
             high == Block(reg["preLimitUpper"], reg["preLimit"])
             w    == PrefetchableWindow(conf[i])
  <2>1. conf[i] \in Port /\ Narrow(conf[i])
    BY <1>1, HeldFits DEF ConfInv, WidthInv
  <2>2. /\ low \in Nat /\ high \in Nat
        /\ w.base = Granule * low
        /\ w.limit = Granule * high + Granule - 1
    BY <2>1, PrefetchableIsBlocks
  <2>3. a \in Nat
    BY TopIsPositive DEF Address
  <2> HIDE DEF low, high, w
  <2>4. w.base <= a /\ a <= w.limit <=>
          low <= a \div Granule /\ a \div Granule <= high
    <3>1. (Granule * low <= a /\ a <= Granule * high + Granule - 1) <=>
            (low <= a \div Granule /\ a \div Granule <= high)
      BY <2>2, <2>3, BlocksBetween
    <3> QED
      BY <2>2, <3>1, Zenon
  <2> QED
    BY <2>4 DEF low, high, w
<1> QED
  BY <1>1, ConfInvariant, WidthInvariant, PTL
=============================================================================
