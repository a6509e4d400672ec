---------------------------- MODULE BridgeConfig ----------------------------
(***************************************************************************)
(* The configuration registers of a PCI-PCI bridge (class config_class of  *)
(* dev/PciBridge2), the address windows they describe, the ranges the four *)
(* response ports announce to their neighbours, and the port a request for *)
(* an address is sent to.                                                  *)
(*                                                                         *)
(* The bridge has four sets of registers, storage_ptr1 to storage_ptr3 for *)
(* the downstream ports, and storage_ptr4, whose id is 0, for the upstream *)
(* port of a switch.  Response port 0 is the upstream one; response port i *)
(* receives the DMA requests of what is connected to downstream port i.    *)
(*                                                                         *)
(* A register is held in units of its granule, that is without the low     *)
(* four bits which no getter uses.  Words are scaled: Half stands for      *)
(* 2^32, so that an address is below Half * Half.                          *)
(***************************************************************************)
EXTENDS Integers, FiniteSetsExt

CONSTANTS
  Ports,        \* the downstream ports: ids in 1..3
  Half,         \* 2^32
  Granule,      \* 1 MB: PREFETCH_BASE_SHIFT, and the shift of memory windows
  IoGranule,    \* 4 KB: IO_BASE_SHIFT
  IoUpper,      \* IOBaseUpper << 16 = IOLimitUpper << 16, never written
  UpperShort,   \* 2^16: the upper half of a prefetchable limit is cut to it
  SignExtends,  \* what the build makes of an overflow, see Product
  Values,       \* Values[r]: what the software writes to register r
  MaxWrites     \* bound on the number of configuration writes

Top == Half * Half

Address == 0 .. Top - 1

\* The register sets, and the response ports.
Ids == {0} \cup Ports

Registers ==
  {"memBase", "memLimit", "preBase", "preLimit", "preBaseUpper",
   "preLimitUpper", "ioBase", "ioLimit"}

\* The registers that have a flag valid_...
Flagged == {"memBase", "memLimit", "preBase", "preLimit", "ioBase", "ioLimit"}

ASSUME ConfigAssumption ==
  /\ Ports \subseteq 1 .. 3
  /\ Half \in Nat \ {0}
  /\ Granule \in Nat \ {0, 1}
  /\ IoGranule \in Nat \ {0, 1}
  /\ Half % Granule = 0
  /\ (Half \div Granule) % 2 = 0
  /\ IoUpper \in 1 .. Half - 1
  /\ UpperShort \in 1 .. Half
  /\ SignExtends \in BOOLEAN
  /\ Values \in [Registers -> SUBSET Nat]
  /\ MaxWrites \in Nat

\* What fits in a register: 32 bits of an upper half; of the others the bits
\* that give, shifted, a word of 32 bits, for the IO ones below their upper half.
Fits(r, v) ==
  /\ r \in {"preBaseUpper", "preLimitUpper"} => v < Half
  /\ r \in {"ioBase", "ioLimit"} => IoUpper + v * IoGranule < Half
  /\ r \in {"memBase", "memLimit", "preBase", "preLimit"} =>
       v * Granule < Half

ASSUME WidthAssumption ==
  \A r \in Registers : \A v \in Values[r] : Fits(r, v)

VARIABLES
  isSwitch,    \* is_switch
  conf,        \* conf[i]: the registers and the flags of register set i
  announced,   \* announced[r]: the ranges the neighbour of response port r
               \* was given last
  writes       \* how many configuration writes there were

vars == <<isSwitch, conf, announced, writes>>

-----------------------------------------------------------------------------
(* The windows *)

\* stored * PREFETCH_BASE_SHIFT is a product of ints.  From 2 GB on it
\* overflows: a build either multiplies in 64 bits, or takes the low 32 bits
\* and extends their sign.
Product(v) ==
  IF SignExtends /\ 2 * v * Granule >= Half
  THEN v * Granule - Half
  ELSE v * Granule

\* An address, from a sum that may be negative.
Wrapped(a) == (a + Top) % Top

\* getMemoryBase(), getMemoryLimit()
MemoryWindow(c) ==
  [base  |-> c.reg["memBase"] * Granule,
   limit |-> c.reg["memLimit"] * Granule + Granule - 1]

\* Mutant: the upper half of the base is cut to 16 bits, like the limit's.
PrefetchableBothShort(c) ==
  [base  |-> Wrapped((c.reg["preBaseUpper"] % UpperShort) * Half
                     + Product(c.reg["preBase"])),
   limit |-> Wrapped((c.reg["preLimitUpper"] % UpperShort) * Half
                     + Product(c.reg["preLimit"]) + Granule - 1)]

\* getPrefetchableMemoryBase(), getPrefetchableMemoryLimit(): the latter reads
\* the upper half of the limit into a uint16_t.
PrefetchableWindow(c) ==
  [base  |-> Wrapped(c.reg["preBaseUpper"] * Half
                     + Product(c.reg["preBase"])),
   limit |-> Wrapped((c.reg["preLimitUpper"] % UpperShort) * Half
                     + Product(c.reg["preLimit"]) + Granule - 1)]

\* getIOBase(), getIOLimit()
IOWindow(c) ==
  [base  |-> IoUpper + c.reg["ioBase"] * IoGranule,
   limit |-> IoUpper + c.reg["ioLimit"] * IoGranule + IoGranule - 1]

Windows(c) == {MemoryWindow(c), PrefetchableWindow(c), IOWindow(c)}

\* The windows of which both registers have been written.
ValidWindows(c) ==
  {w \in Windows(c) :
     \/ w = MemoryWindow(c) /\ {"memBase", "memLimit"} \subseteq c.valid
     \/ w = PrefetchableWindow(c) /\ {"preBase", "preLimit"} \subseteq c.valid
     \/ w = IOWindow(c) /\ {"ioBase", "ioLimit"} \subseteq c.valid}

\* RangeIn(start, end): the end of a range is the address after its last one.
RangeIn(first, last) == [start |-> first, end |-> (last + 1) % Top]

\* AddrRange::contains
Covers(range, a) == range.start <= a /\ a < range.end

\* The bridge's own BARs have size 0 and add no range.
FillRanges(c) ==
  {RangeIn(w.base, w.limit) :
     w \in {v \in ValidWindows(c) : v.base < v.limit /\ v.base # 0}}

\* last_val after the loop over the sorted ranges.  end() is already the address
\* after the range: the one that end() + 1 skips is in no gap.  Of ranges with
\* the same start, either may come last.
LastVal(ranges) ==
  IF ranges = {} THEN 0
  ELSE LET r == CHOOSE r \in ranges : \A s \in ranges : s.start <= r.start
       IN  (r.end + 1) % Top

\* Mutant: the gap before a range takes in the first address of the range.
GapOneTooLong(last, range) == RangeIn(last, range.start)

\* The gap before a range, from the last_val of the ranges before it.
Gap(last, range) == RangeIn(last, range.start - 1)

\* The ranges of a downstream response port: what is between its windows.
Complement(ranges) ==
  LET last(r) == LastVal({s \in ranges : s.start < r.start})
      end     == LastVal(ranges)
  IN  {Gap(last(r), r) : r \in {s \in ranges : last(s) < s.start}}
      \cup (IF end = 0 THEN {} ELSE {RangeIn(end, Top - 1)})

\* getAddrRanges() of response port r, for the register sets in storage
GetAddrRanges(storage, r) ==
  IF r = 0 THEN IF isSwitch THEN FillRanges(storage[0])
                ELSE UNION {FillRanges(storage[i]) : i \in Ports}
  ELSE Complement(FillRanges(storage[r]))

-----------------------------------------------------------------------------
(* Routing: the flags valid_... are not looked at *)

\* Mutant: a window that starts at 0 claims, too.
ClaimsFromZero(c, a) ==
  \E w \in Windows(c) : w.base <= a /\ a <= w.limit /\ w.limit # 0

Claims(c, a) ==
  \E w \in Windows(c) :
     w.base <= a /\ a <= w.limit /\ w.base # 0 /\ w.limit # 0

\* Mutant: the last port is forgotten.
GetRequestPortButLast(a) ==
  LET claiming == {i \in Ports \ {Max(Ports)} : Claims(conf[i], a)}
  IN  IF claiming = {} THEN 0 ELSE Min(claiming)

\* getRequestPort(Addr); 0 is the DMA port, which leads upstream.
GetRequestPort(a) ==
  LET claiming == {i \in Ports : Claims(conf[i], a)}
  IN  IF claiming = {} THEN 0 ELSE Min(claiming)

-----------------------------------------------------------------------------
(* Configuration writes *)

Write(stores, validates, flag) ==
  [stores |-> stores, validates |-> validates, flag |-> flag]

\* Of a register that no window depends on: the bus numbers, which are
\* constants of PciBridge2, Command, Status, Bridge Control..., of a read-only
\* one, of the PCI Express capability, or of all ones to a BAR.
OtherWrite == Write({}, {}, FALSE)

ByteWrites ==
  {OtherWrite,
   Write({"ioBase"}, {"ioBase"}, TRUE),
   Write({"ioLimit"}, {"ioLimit"}, TRUE)}

\* The upper halves of the IO registers validate, but are not stored.
WordWrites ==
  {OtherWrite}
  \cup {Write({r}, {r}, TRUE) :
          r \in {"memBase", "memLimit", "preBase", "preLimit"}}
  \cup {Write({}, {r}, TRUE) : r \in {"ioBase", "ioLimit"}}
  \cup {Write({"ioBase", "ioLimit"}, {"ioBase", "ioLimit"}, TRUE)}

\* A BAR of size 0 keeps nothing of what is written to it.
LongWrites ==
  {OtherWrite,
   Write({"preBaseUpper"}, {"preBase"}, TRUE),
   Write({"preLimitUpper"}, {"preLimit"}, TRUE),
   Write({}, {}, TRUE),
   Write({"memBase", "memLimit"}, {"memBase", "memLimit"}, TRUE),
   Write({}, {"ioBase", "ioLimit"}, TRUE),
   Write({"preBase", "preLimit"}, {"preBase", "preLimit"}, TRUE)}

\* Mutant: a write of 32 bits to a base and a limit exchanges the halves.
WrittenSwapped(c, w, v) ==
  LET source(r) == CHOOSE s \in w.stores : w.stores # {r} => s # r
  IN  [reg   |-> [r \in Registers |-> IF r \in w.stores THEN v[source(r)] ELSE c.reg[r]],
       valid |-> c.valid \cup w.validates]

Written(c, w, v) ==
  [reg   |-> [r \in Registers |-> IF r \in w.stores THEN v[r] ELSE c.reg[r]],
   valid |-> c.valid \cup w.validates]

\* The response ports that send a range change when set i was written.
Announces(i, r) == IF r = 0 THEN i = 0 \/ ~isSwitch ELSE i = r

\* storage_ptr4 is registered for configuration accesses only in a switch.
Configurable == IF isSwitch THEN Ids ELSE Ports

\* config_class::writeConfig
WriteConfig(i, w, v) ==
  /\ writes < MaxWrites
  /\ writes' = writes + 1
  /\ conf' = [conf EXCEPT ![i] = Written(conf[i], w, v)]
  /\ announced' = [r \in Ids |-> IF w.flag /\ Announces(i, r)
                                 THEN GetAddrRanges(conf', r) ELSE announced[r]]
  /\ UNCHANGED isSwitch

\* Mutant: like init(), unserialize() sends one range change, upstream.
RestoreUpstream ==
  /\ conf' = conf
  /\ announced' = [r \in Ids |-> IF r = 0 THEN GetAddrRanges(conf', r) ELSE {}]
  /\ UNCHANGED <<isSwitch, writes>>

\* serialize(), and unserialize() in a new process, whose neighbours know of no
\* ranges: registers and flags of all four sets are saved, and every response
\* port sends a range change.
Restore ==
  /\ conf' = conf
  /\ announced' = [r \in Ids |-> GetAddrRanges(conf', r)]
  /\ UNCHANGED <<isSwitch, writes>>

-----------------------------------------------------------------------------
\* initialize_ports()
InitialPort == [reg |-> [r \in Registers |-> 0], valid |-> {}]

\* init() sends one range change, to the upstream neighbour.
Init ==
  /\ isSwitch \in BOOLEAN
  /\ conf = [i \in Ids |-> InitialPort]
  /\ announced = [r \in Ids |-> {}]
  /\ writes = 0

\* What the software writes with w.
Payloads(w) == {v \in [w.stores -> UNION {Values[r] : r \in w.stores}] :
                  \A r \in w.stores : v[r] \in Values[r]}

Next ==
  \/ \E i \in Configurable :
       \E w \in ByteWrites \cup WordWrites \cup LongWrites :
         \E v \in Payloads(w) : WriteConfig(i, w, v)
  \/ Restore

Spec == Init /\ [][Next]_vars

-----------------------------------------------------------------------------
(* Properties *)

AddrRange == [start : Address, end : Address]

Port == [reg : [Registers -> Nat], valid : SUBSET Flagged]

\* A register holds what some write put there, or the 0 it was built with, the
\* flags exist, and every range a neighbour was given is one of 64-bit addresses,
\* whatever the upper halves hold.
TypeOK ==
  /\ isSwitch \in BOOLEAN
  /\ conf \in [Ids -> Port]
  /\ \A i \in Ids : \A r \in Registers : conf[i].reg[r] \in {0} \cup Values[r]
  /\ announced \in [Ids -> SUBSET AddrRange]
  /\ writes \in 0 .. MaxWrites

\* A neighbour never routes by outdated windows: what the bridge announced last
\* at each of its response ports is what getAddrRanges() returns now, after
\* every configuration write, of any register set, and after a restart.
AnnouncedAreCurrent ==
  \A r \in Ids : announced[r] = GetAddrRanges(conf, r)

\* A root complex does not send a request back to where it came from: it has
\* a downstream port for every address it announces upstream.
NothingBouncesBack ==
  ~isSwitch =>
    \A range \in announced[0] : \A a \in Address :
       Covers(range, a) => GetRequestPort(a) # 0

\* Registers that were not programmed yet, the IO ones apart, do not divert
\* requests: one for an address in the programmed windows of a single port
\* goes to that port, even while a window of another port is half written.
\* The IO registers start up with a window that routing takes for a programmed
\* one.
OwnerGetsTheRequest ==
  \A i \in Ports : \A range \in FillRanges(conf[i]) : \A a \in Address :
    /\ Covers(range, a)
    /\ \A j \in Ports \ {i} :
         \A w \in ValidWindows(conf[j]) \cup {IOWindow(conf[j])} :
           a \notin w.base .. w.limit
    => GetRequestPort(a) = i

\* No two windows share an address, and none reaches the last address.
Separate(ranges) ==
  /\ \A r, s \in ranges : r # s => r.end <= s.start \/ s.end <= r.start
  /\ \A r \in ranges : r.start < r.end

\* Is an address in a range announced to the neighbour of downstream port i?
Accepts(i, a) == \E r \in announced[i] : Covers(r, a)

\* A DMA request that a device sends upwards is never for a window that leads
\* back to the device: no range announced to a downstream neighbour meets a
\* window of its own port.  Once there is a window, all the addresses below the
\* windows, where the memory of the host is, are announced.
DmaAvoidsOwnWindows ==
  \A i \in Ports :
    LET ranges == FillRanges(conf[i])
    IN  Separate(ranges) /\ ranges # {} =>
          \A a \in Address :
            /\ Accepts(i, a) => \A r \in ranges : ~Covers(r, a)
            /\ (\A r \in ranges : a < r.start) => Accepts(i, a)

\* "Need to configure the range as the ~ of downstream ranges", as the comment
\* in getAddrRanges() has it: a downstream response port accepts every address
\* that is in none of the windows of its port.  It does not accept the address
\* after each window, and nothing above the last one.
DmaIsComplement ==
  \A i \in Ports :
    LET ranges == FillRanges(conf[i])
    IN  Separate(ranges) /\ ranges # {} =>
          \A a \in Address : Accepts(i, a) <=> \A r \in ranges : ~Covers(r, a)

\* The number of the block of 1 MB that an upper and a lower half stand for.
Block(upper, lower) == upper * (Half \div Granule) + lower

\* Base and limit as the PCI-to-PCI bridge architecture defines them: a
\* prefetchable window is the blocks from the base's to the limit's, its upper
\* halves included.  The code agrees for upper limits that fit in 16 bits and
\* lower halves below 2 GB.
WindowAsWritten ==
  \A i \in Ids :
    LET reg  == conf[i].reg
        low  == Block(reg["preBaseUpper"], reg["preBase"])
        high == Block(reg["preLimitUpper"], reg["preLimit"])
    IN  /\ reg["preLimitUpper"] < UpperShort
        /\ 2 * reg["preBase"] * Granule < Half
        /\ 2 * reg["preLimit"] * Granule < Half
        => \A a \in Address :
             LET w == PrefetchableWindow(conf[i])
             IN  w.base <= a /\ a <= w.limit <=>
                   low <= a \div Granule /\ a \div Granule <= high
=============================================================================
