----------------------------- MODULE PciDevice -----------------------------
(***************************************************************************)
(* The registers of a PCI device that decide which addresses it answers    *)
(* to: Command and the two base address registers of one 64-bit memory     *)
(* BAR, as in dev/pci/device.{hh,cc}.  A register word has Half values     *)
(* instead of 2^32, an address Half * Half instead of 2^64; the three      *)
(* lowest bits of a memory BAR are fixed.                                  *)
(***************************************************************************)
EXTENDS Integers

CONSTANTS
  Half,         \* 2^32
  MemBase       \* pci_mem_base of the host

ASSUME WordAssumption == Half \in Nat \ {0} /\ Half % 8 = 0 /\ MemBase \in Nat

Words == 0 .. Half - 1
Top == Half * Half

\* val & ~(size - 1), of a power of two
Masked(val, size) == val - (val % size)

\* The sizes that PciMemBar's constructor accepts: a power of two, at least 8.
\* Of two powers of two the smaller divides the larger.
BarSize(size) ==
  /\ size \in Nat \ {0} /\ size % 8 = 0
  /\ Half % size = 0 \/ size % Half = 0
  /\ Top % size = 0

\* GenericPciHost::memAddr
MemAddr(a) == (MemBase + a) % Top

\* Both writes end by updating the address from the two halves.
MemBar(size, lower, upper) ==
  [size |-> size, lower |-> lower, upper |-> upper, addr |-> MemAddr(upper * Half + lower)]

\* PciMemBar::write of a BAR that is wide
WriteLower(bar, val) == MemBar(bar.size, Masked(val, bar.size), bar.upper)

LowerRegister(bar) == bar.lower + 4

\* Mutant: the bits fixed by the size are taken from the value.
WriteUpperUnmasked(bar, val) == MemBar(bar.size, bar.lower, val)

\* PciMemUpperBar::write, PciMemBar::upper
WriteUpper(bar, val) ==
  MemBar(bar.size, bar.lower,
         IF bar.size > Half THEN Masked(val, bar.size \div Half) ELSE val)

UpperRegister(bar) == bar.upper

\* A BAR as constructed, and the registers of the device.
NewBar(size) == [size |-> size, lower |-> 0, upper |-> 0, addr |-> 0]

NewDevice(size) ==
  LET bar == WriteUpper(WriteLower(NewBar(size), 0), 0)
  IN  [bar |-> bar, memorySpace |-> FALSE,
       baseAddr |-> <<LowerRegister(bar), UpperRegister(bar)>>]

\* writeConfig to a base address register, and to Command
WriteBaseAddr(dev, i, val) ==
  LET bar == IF i = 1 THEN WriteLower(dev.bar, val) ELSE WriteUpper(dev.bar, val)
      reg == IF i = 1 THEN LowerRegister(bar) ELSE UpperRegister(bar)
  IN  [bar |-> bar, memorySpace |-> dev.memorySpace,
       baseAddr |-> [dev.baseAddr EXCEPT ![i] = reg]]

WriteCommand(dev, on) == [dev EXCEPT !.memorySpace = on]

\* serialize
Saved(dev) == [memorySpace |-> dev.memorySpace, baseAddr |-> dev.baseAddr]

\* Mutant: the last register is forgotten.
RestoresLowerOnly(size, cp) ==
  [bar |-> WriteLower(NewDevice(size).bar, cp.baseAddr[1]),
   memorySpace |-> cp.memorySpace,
   baseAddr |-> cp.baseAddr]

\* unserialize into a device just constructed
Restored(size, cp) ==
  [bar |-> WriteUpper(WriteLower(NewDevice(size).bar, cp.baseAddr[1]), cp.baseAddr[2]),
   memorySpace |-> cp.memorySpace,
   baseAddr |-> cp.baseAddr]

\* PciBar::range: the end is exclusive and may wrap, then nothing is inside.
BarRange(bar) == [start |-> bar.addr, end |-> (bar.addr + bar.size) % Top]

Covers(r, a) == r.start <= a /\ a < r.end

\* getAddrRanges
AddrRanges(dev) == IF dev.memorySpace THEN {BarRange(dev.bar)} ELSE {}
=============================================================================
