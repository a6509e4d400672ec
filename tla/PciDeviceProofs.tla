-------------------------- MODULE PciDeviceProofs --------------------------
(***************************************************************************)
(* Proofs about the base address registers of a PCI device, for every      *)
(* width of a register and every size of the BAR.  What the two registers  *)
(* hold is a fixed point: each keeps it when it is written back, fixed     *)
(* bits included (Placed).  So a checkpoint restores the device, and a     *)
(* guest that sizes the BAR can put it back.                               *)
(***************************************************************************)
EXTENDS PciDevice, TLAPS

-----------------------------------------------------------------------------
(* Division *)

\* Multiples of s are at least s apart.
LEMMA MultiplesApart ==
  ASSUME NEW s \in Nat \ {0}, NEW a \in Int, NEW b \in Int, a < b
  PROVE  s * a + s <= s * b
<1>1. s * (b - a - 1) >= 0
  BY Z3
<1>2. s * (b - a - 1) = s * b - s * a - s
  BY Z3
<1>3. s * a \in Int /\ s * b \in Int
  OBVIOUS
<1> QED
  BY <1>1, <1>2, <1>3

\* Quotient and remainder of a natural number
LEMMA Division ==
  ASSUME NEW s \in Nat \ {0}, NEW a \in Nat
  PROVE  /\ a \div s \in Nat /\ a % s \in Nat /\ a % s < s
         /\ a = s * (a \div s) + (a % s)
BY Z3

\* ... and they are the only ones.
LEMMA DivisionUnique ==
  ASSUME NEW s \in Nat \ {0}, NEW q \in Nat, NEW r \in Nat, r < s
  PROVE  (s * q + r) % s = r /\ (s * q + r) \div s = q
<1> DEFINE a == s * q + r
<1>1. a \in Nat
  OBVIOUS
<1>2. s * q \in Nat
  OBVIOUS
<1> HIDE DEF a
<1>3. /\ a \div s \in Nat /\ a % s \in Nat /\ a % s < s
      /\ a = s * (a \div s) + (a % s)
  BY <1>1, Division
<1> DEFINE p == a \div s
<1>4. p \in Nat /\ s * p \in Nat /\ a = s * p + (a % s)
  BY <1>3
<1> HIDE DEF p
<1>5. ~(p < q)
  <2> SUFFICES ASSUME p < q PROVE FALSE
    OBVIOUS
  <2>1. s * p + s <= s * q
    BY <1>4, MultiplesApart
  <2> QED
    BY <2>1, <1>2, <1>3, <1>4 DEF a
<1>6. ~(q < p)
  <2> SUFFICES ASSUME q < p PROVE FALSE
    OBVIOUS
  <2>1. s * q + s <= s * p
    BY <1>4, MultiplesApart
  <2> QED
    BY <2>1, <1>2, <1>3, <1>4 DEF a
<1>7. p = q
  BY <1>4, <1>5, <1>6
<1> QED
  BY <1>2, <1>3, <1>4, <1>7 DEF a, p

\* Masking takes the multiple of the size that is not above the value.
LEMMA MaskedIsMultiple ==
  ASSUME NEW s \in Nat \ {0}, NEW v \in Nat
  PROVE  /\ Masked(v, s) = s * (v \div s) /\ v \div s \in Nat
         /\ Masked(v, s) \in Nat /\ Masked(v, s) <= v
<1>1. /\ v \div s \in Nat /\ v % s \in Nat /\ v % s < s
      /\ v = s * (v \div s) + (v % s)
  BY Division
<1>2. s * (v \div s) \in Nat
  BY <1>1
<1> QED
  BY <1>1, <1>2 DEF Masked

\* Bits below the size are masked away.
LEMMA MaskedMultiple ==
  ASSUME NEW s \in Nat \ {0}, NEW q \in Nat, NEW r \in Nat, r < s
  PROVE  Masked(s * q + r, s) = s * q
<1>1. (s * q + r) % s = r
  BY DivisionUnique
<1>2. s * q \in Nat
  OBVIOUS
<1> QED
  BY <1>1, <1>2 DEF Masked

-----------------------------------------------------------------------------
(* The base address registers *)

\* A word is at least 8.
LEMMA HalfIsLarge == Half \in Nat /\ Half >= 8 /\ Top = Half * Half /\ Top \in Nat
<1>1. Half \in Nat \ {0} /\ Half % 8 = 0
  BY WordAssumption
<1>2. Half >= 8
  BY <1>1
<1> QED
  BY <1>1, <1>2 DEF Top

\* A BAR fits in the lower register, or it fixes bits of the upper one.
LEMMA SizeCases ==
  ASSUME NEW s \in Nat, BarSize(s)
  PROVE  /\ s \in Nat \ {0} /\ s >= 8 /\ \E j \in Nat : s = 8 * j
         /\ \/ s <= Half /\ \E k \in Nat \ {0} : Half = s * k
            \/ s > Half /\ \E n, m \in Nat \ {0} :
                             s = Half * n /\ Half = n * m /\ s \div Half = n
<1>1. s \in Nat \ {0} /\ s % 8 = 0 /\ Top % s = 0 /\ (Half % s = 0 \/ s % Half = 0)
  BY DEF BarSize
<1>2. s = 8 * (s \div 8) /\ s \div 8 \in Nat /\ s >= 8
  BY <1>1
<1>3. Half \in Nat \ {0} /\ Half >= 8 /\ Top = Half * Half /\ Top \in Nat
  BY HalfIsLarge
<1>4. ASSUME Half % s = 0
      PROVE  s <= Half /\ \E k \in Nat \ {0} : Half = s * k
  <2> DEFINE k == Half \div s
  <2>1. k \in Nat /\ Half = s * k + (Half % s)
    BY <1>1, <1>3, Division
  <2> HIDE DEF k
  <2>2. s * k \in Nat /\ Half = s * k
    BY <2>1, <1>1, <1>4
  <2>3. k # 0
    BY <2>2, <1>1, <1>3
  <2>4. s <= s * k
    <3>1. s * 0 + s <= s * k
      BY <2>1, <2>3, <1>1, MultiplesApart
    <3> QED
      BY <3>1, <1>1
  <2> QED
    BY <2>1, <2>2, <2>3, <2>4
<1>5. ASSUME s % Half = 0, s > Half
      PROVE  \E n, m \in Nat \ {0} : s = Half * n /\ Half = n * m /\ s \div Half = n
  <2> DEFINE n == s \div Half
             m == Top \div s
  <2>1. n \in Nat /\ s = Half * n + (s % Half)
    BY <1>1, <1>3, Division
  <2>2. m \in Nat /\ Top = s * m + (Top % s)
    BY <1>1, <1>3, Division
  <2>3. s \div Half = n
    OBVIOUS
  <2> HIDE DEF n, m
  <2>4. s = Half * n /\ Half * Half = s * m
    BY <2>1, <2>2, <1>1, <1>3, <1>5
  <2>5. n # 0 /\ m # 0
    BY <2>1, <2>2, <2>4, <1>1, <1>3, Z3
  <2>6. Half * Half = Half * (n * m)
    BY <2>1, <2>2, <2>4, <1>3, Z3
  <2>7. Half = n * m
    BY <2>1, <2>2, <2>6, <1>3, Z3
  <2> QED
    BY <2>1, <2>2, <2>3, <2>4, <2>5, <2>7, Zenon
<1>6. ASSUME s % Half = 0, s <= Half
      PROVE  Half % s = 0
  <2> DEFINE n == s \div Half
  <2>1. n \in Nat /\ s = Half * n + (s % Half)
    BY <1>1, <1>3, Division
  <2> HIDE DEF n
  <2>2. s = Half * n
    BY <2>1, <1>3, <1>6
  <2>3. n # 0
    BY <2>1, <2>2, <1>1, <1>3
  <2>4. ~(1 < n)
    <3> SUFFICES ASSUME 1 < n PROVE FALSE
      OBVIOUS
    <3>1. Half * 1 + Half <= Half * n
      BY <2>1, <1>3, MultiplesApart
    <3> QED
      BY <3>1, <2>2, <1>1, <1>3, <1>6
  <2>5. s = Half
    BY <2>1, <2>2, <2>3, <2>4, <1>3
  <2> QED
    BY <2>5, <1>1
<1>7. CASE s <= Half
  BY <1>1, <1>2, <1>4, <1>6, <1>7, Zenon
<1>8. CASE s > Half
  <2>1. Half % s = 0 => s <= Half
    BY <1>4, Zenon
  <2>2. ~(s <= Half)
    BY <1>1, <1>3, <1>8
  <2> QED
    BY <2>1, <2>2, <1>1, <1>2, <1>5, <1>8, Zenon
<1>9. s <= Half \/ s > Half
  BY <1>1, <1>3
<1> QED
  BY <1>7, <1>8, <1>9, Zenon

\* What the upper register keeps of a value
UpperMasked(s, v) == IF s > Half THEN Masked(v, s \div Half) ELSE v

\* The lower register keeps a word that has room for its fixed bits, and keeps
\* the same again when it is written back with them.
LEMMA LowerKept ==
  ASSUME NEW s \in Nat, BarSize(s), NEW v \in Words
  PROVE  /\ Masked(v, s) \in Words /\ Masked(v, s) + 4 \in Words
         /\ Masked(Masked(v, s) + 4, s) = Masked(v, s)
<1>1. s \in Nat \ {0} /\ s >= 8
  BY SizeCases, Zenon
<1>2. Half \in Nat /\ Half >= 8 /\ v \in Nat /\ v < Half
  BY HalfIsLarge DEF Words
<1> DEFINE q == v \div s
           l == Masked(v, s)
<1>3. l = s * q /\ q \in Nat /\ l \in Nat /\ l <= v
  BY <1>1, <1>2, MaskedIsMultiple, Zenon
<1> HIDE DEF q, l
<1>4. l + 8 <= Half
  <2>1. CASE s <= Half /\ \E k \in Nat \ {0} : Half = s * k
    <3>1. PICK k \in Nat \ {0} : Half = s * k
      BY <2>1
    <3>2. ~(k <= q)
      <4> SUFFICES ASSUME k <= q PROVE FALSE
        OBVIOUS
      <4>1. k = q \/ s * k + s <= s * q
        BY <1>1, <1>3, MultiplesApart
      <4> QED
        BY <4>1, <3>1, <1>1, <1>2, <1>3
    <3>3. s * q + s <= s * k
      BY <3>2, <1>1, <1>3, MultiplesApart
    <3> QED
      BY <3>1, <3>3, <1>1, <1>2, <1>3
  <2>2. CASE s > Half
    <3>1. ~(0 < q)
      <4> SUFFICES ASSUME 0 < q PROVE FALSE
        OBVIOUS
      <4>1. s * 0 + s <= s * q
        BY <1>1, <1>3, MultiplesApart
      <4> QED
        BY <4>1, <2>2, <1>1, <1>2, <1>3
    <3>2. l = 0
      BY <3>1, <1>1, <1>3
    <3> QED
      BY <3>2, <1>2
  <2> QED
    BY <2>1, <2>2, SizeCases, Zenon
<1>5. Masked(s * q + 4, s) = s * q
  <2>1. 4 \in Nat /\ 4 < s
    BY <1>1
  <2> QED
    BY <2>1, <1>1, <1>3, MaskedMultiple, Zenon
<1>6. l \in Words /\ l + 4 \in Words /\ Masked(l + 4, s) = l
  BY <1>2, <1>3, <1>4, <1>5 DEF Words
<1> QED
  BY <1>6 DEF l

\* So does the upper one.
LEMMA UpperKept ==
  ASSUME NEW s \in Nat, BarSize(s), NEW v \in Words
  PROVE  /\ UpperMasked(s, v) \in Words
         /\ UpperMasked(s, UpperMasked(s, v)) = UpperMasked(s, v)
<1>1. CASE s > Half
  <2>1. Half \in Nat /\ v \in Nat /\ v < Half /\ s \in Nat
    <3>1. s \in Nat /\ Half \in Nat
      BY HalfIsLarge, SizeCases, Zenon
    <3> QED
      BY <3>1 DEF Words
  <2>2. PICK n \in Nat \ {0} : s \div Half = n
    <3>1. ~(s <= Half)
      BY <2>1, <1>1
    <3> QED
      BY <3>1, SizeCases, Zenon
  <2> DEFINE q == v \div n
             u == Masked(v, n)
  <2>3. u = n * q /\ q \in Nat /\ u \in Nat /\ u <= v
    BY <2>1, MaskedIsMultiple, Zenon
  <2>4. UpperMasked(s, v) = u /\ \A w : UpperMasked(s, w) = Masked(w, n)
    BY <1>1, <2>2 DEF UpperMasked
  <2> HIDE DEF q, u
  <2>5. Masked(n * q + 0, n) = n * q
    <3>1. 0 \in Nat /\ 0 < n
      OBVIOUS
    <3> QED
      BY <3>1, <2>3, MaskedMultiple, Zenon
  <2>6. Masked(u, n) = u
    BY <2>3, <2>5
  <2>7. u \in Words
    BY <2>1, <2>3 DEF Words
  <2> QED
    BY <2>4, <2>6, <2>7
<1>2. CASE ~(s > Half)
  BY <1>2 DEF UpperMasked
<1> QED
  BY <1>1, <1>2

\* Ones written to both registers, read back and masked as a guest does, are
\* the complement of the size.
LEMMA OnesShowSize ==
  ASSUME NEW s \in Nat, BarSize(s)
  PROVE  Top - (UpperMasked(s, Half - 1) * Half + Masked(Masked(Half - 1, s) + 4, 8)) = s
<1>1. Half \in Nat /\ Half >= 8 /\ Top = Half * Half /\ Half * Half \in Nat
  BY HalfIsLarge
<1>2. s \in Nat \ {0} /\ s >= 8
  BY SizeCases, Zenon
<1>3. CASE s <= Half /\ \E k \in Nat \ {0} : Half = s * k
  <2>1. PICK k \in Nat \ {0} : Half = s * k
    BY <1>3
  <2>2. PICK j \in Nat : s = 8 * j
    BY SizeCases, Zenon
  <2>3. k - 1 \in Nat /\ s - 1 \in Nat /\ s - 1 < s /\ s * (k - 1) \in Nat
    BY <1>2
  <2>4. s * (k - 1) = Half - s
    BY <2>1, <1>2, Z3
  <2>5. Masked(s * (k - 1) + (s - 1), s) = s * (k - 1)
    BY <2>3, <1>2, MaskedMultiple, Zenon
  <2>6. s * (k - 1) + (s - 1) = Half - 1
    BY <2>3, <2>4, <1>1, <1>2
  <2>7. Masked(Half - 1, s) = Half - s
    BY <2>4, <2>5, <2>6
  <2>8. j * (k - 1) \in Nat /\ 8 * (j * (k - 1)) = Half - s
    <3>1. 8 * (j * (k - 1)) = s * (k - 1)
      BY <2>2, <2>3, Z3
    <3> QED
      BY <3>1, <2>2, <2>3, <2>4
  <2>9. Masked(8 * (j * (k - 1)) + 4, 8) = 8 * (j * (k - 1))
    <3>1. 8 \in Nat \ {0} /\ 4 \in Nat /\ 4 < 8
      OBVIOUS
    <3> QED
      BY <3>1, <2>8, MaskedMultiple, Zenon
  <2>10. Masked(Masked(Half - 1, s) + 4, 8) = Half - s
    BY <2>7, <2>8, <2>9
  <2>11. UpperMasked(s, Half - 1) = Half - 1
    BY <1>1, <1>2, <1>3 DEF UpperMasked
  <2>12. (Half - 1) * Half = Half * Half - Half
    BY <1>1, Z3
  <2> QED
    BY <2>10, <2>11, <2>12, <1>1, <1>2
<1>4. CASE s > Half /\ \E n, m \in Nat \ {0} :
                          s = Half * n /\ Half = n * m /\ s \div Half = n
  <2>1. PICK n \in Nat \ {0}, m \in Nat \ {0} :
               s = Half * n /\ Half = n * m /\ s \div Half = n
    BY <1>4, Zenon
  <2>2. Masked(s * 0 + (Half - 1), s) = s * 0
    BY <1>1, <1>2, <1>4, MaskedMultiple
  <2>3. Masked(Half - 1, s) = 0
    BY <2>2, <1>1, <1>2
  <2>4. Masked(8 * 0 + 4, 8) = 8 * 0
    BY MaskedMultiple
  <2>5. Masked(Masked(Half - 1, s) + 4, 8) = 0
    BY <2>3, <2>4
  <2>6. m - 1 \in Nat /\ n - 1 \in Nat /\ n - 1 < n /\ n * (m - 1) \in Nat
    OBVIOUS
  <2>7. n * (m - 1) = Half - n
    BY <2>1, Z3
  <2>8. Masked(n * (m - 1) + (n - 1), n) = n * (m - 1)
    BY <2>6, MaskedMultiple, Zenon
  <2>9. n * (m - 1) + (n - 1) = Half - 1
    BY <2>7, <1>1
  <2>10. UpperMasked(s, Half - 1) = Half - n
    BY <2>1, <2>7, <2>8, <2>9, <1>4 DEF UpperMasked
  <2>11. (Half - n) * Half = Half * Half - s
    BY <2>1, <1>1, Z3
  <2> QED
    BY <2>5, <2>10, <2>11, <1>1, <1>2
<1> QED
  BY <1>3, <1>4, SizeCases, Zenon

\* A device with its BAR at the place the registers say
Device(s, on, l, u) ==
  [bar |-> MemBar(s, l, u), memorySpace |-> on, baseAddr |-> <<l + 4, u>>]

\* The registers hold what they keep when they are written back.
Placed(s, l, u) ==
  /\ l \in Words /\ l + 4 \in Words /\ u \in Words
  /\ Masked(l + 4, s) = l /\ UpperMasked(s, u) = u

IsDevice(d) ==
  \E s \in Nat, on \in BOOLEAN, l, u \in Words :
    BarSize(s) /\ d = Device(s, on, l, u) /\ Placed(s, l, u)

\* The writes of the two halves, as a change of the place
LEMMA BarWrites ==
  ASSUME NEW s, NEW l, NEW u, NEW v
  PROVE  /\ WriteLower(MemBar(s, l, u), v) = MemBar(s, Masked(v, s), u)
         /\ WriteUpper(MemBar(s, l, u), v) = MemBar(s, l, UpperMasked(s, v))
         /\ LowerRegister(MemBar(s, l, u)) = l + 4
         /\ UpperRegister(MemBar(s, l, u)) = u
<1>1. /\ MemBar(s, l, u).size = s /\ MemBar(s, l, u).lower = l
      /\ MemBar(s, l, u).upper = u
  BY DEF MemBar
<1> QED
  BY <1>1, Zenon DEF WriteLower, WriteUpper, UpperMasked, LowerRegister, UpperRegister

\* writeConfig of a base address register moves the BAR by what the register
\* keeps of the value; of Command, it turns the device on or off.
LEMMA DeviceWrites ==
  ASSUME NEW s, NEW on, NEW l, NEW u, NEW v
  PROVE  /\ WriteBaseAddr(Device(s, on, l, u), 1, v) = Device(s, on, Masked(v, s), u)
         /\ WriteBaseAddr(Device(s, on, l, u), 2, v) = Device(s, on, l, UpperMasked(s, v))
         /\ WriteCommand(Device(s, on, l, u), v) = Device(s, v, l, u)
<1> DEFINE d == Device(s, on, l, u)
<1>1. d.bar = MemBar(s, l, u) /\ d.memorySpace = on /\ d.baseAddr = <<l + 4, u>>
  BY DEF Device
<1>2. WriteCommand(d, v) = Device(s, v, l, u)
  BY DEF WriteCommand, Device
<1> HIDE DEF d
<1>3. WriteBaseAddr(d, 1, v) = Device(s, on, Masked(v, s), u)
  <2>1. [<<l + 4, u>> EXCEPT ![1] = Masked(v, s) + 4] = <<Masked(v, s) + 4, u>>
    OBVIOUS
  <2>2. WriteLower(MemBar(s, l, u), v) = MemBar(s, Masked(v, s), u)
    BY BarWrites
  <2>3. LowerRegister(MemBar(s, Masked(v, s), u)) = Masked(v, s) + 4
    BY BarWrites
  <2> QED
    BY <1>1, <2>1, <2>2, <2>3, Zenon DEF WriteBaseAddr, Device
<1>4. WriteBaseAddr(d, 2, v) = Device(s, on, l, UpperMasked(s, v))
  <2>1. [<<l + 4, u>> EXCEPT ![2] = UpperMasked(s, v)] = <<l + 4, UpperMasked(s, v)>>
    OBVIOUS
  <2>2. 2 # 1
    OBVIOUS
  <2>3. WriteUpper(MemBar(s, l, u), v) = MemBar(s, l, UpperMasked(s, v))
    BY BarWrites
  <2>4. UpperRegister(MemBar(s, l, UpperMasked(s, v))) = UpperMasked(s, v)
    BY BarWrites
  <2> QED
    BY <1>1, <2>1, <2>2, <2>3, <2>4, Zenon DEF WriteBaseAddr, Device
<1> QED
  BY <1>2, <1>3, <1>4 DEF d

\* A device as constructed
LEMMA NewDeviceIsDevice ==
  ASSUME NEW s \in Nat, BarSize(s)
  PROVE  NewDevice(s) = Device(s, FALSE, 0, 0) /\ Placed(s, 0, 0)
<1>1. 0 \in Words
  BY HalfIsLarge DEF Words
<1>2. s \in Nat \ {0} /\ s >= 8
  BY SizeCases, Zenon
<1>3. Masked(0, s) = 0
  BY <1>2 DEF Masked
<1>4. 0 \in Words /\ 0 + 4 \in Words /\ Masked(0 + 4, s) = 0
  BY <1>1, <1>3, LowerKept
<1>5. UpperMasked(s, 0) = 0
  <2>1. CASE s > Half
    <3>1. Half \in Nat /\ ~(s <= Half)
      BY <1>2, <2>1, HalfIsLarge
    <3>2. s \div Half \in Nat \ {0}
      BY <3>1, SizeCases, Zenon
    <3>3. Masked(0, s \div Half) = 0
      BY <3>2 DEF Masked
    <3> QED
      BY <3>3, <2>1 DEF UpperMasked
  <2>2. CASE ~(s > Half)
    BY <2>2 DEF UpperMasked
  <2> QED
    BY <2>1, <2>2
<1>6. WriteLower(NewBar(s), 0) = MemBar(s, 0, 0)
  <2>1. NewBar(s).size = s /\ NewBar(s).upper = 0
    BY DEF NewBar
  <2> QED
    BY <1>3, <2>1, Zenon DEF WriteLower
<1>7. WriteUpper(WriteLower(NewBar(s), 0), 0) = MemBar(s, 0, 0)
  <2>1. WriteUpper(MemBar(s, 0, 0), 0) = MemBar(s, 0, UpperMasked(s, 0))
    BY BarWrites
  <2> QED
    BY <2>1, <1>5, <1>6
<1>8. NewDevice(s) = Device(s, FALSE, 0, 0)
  <2>1. LowerRegister(MemBar(s, 0, 0)) = 0 + 4 /\ UpperRegister(MemBar(s, 0, 0)) = 0
    BY BarWrites
  <2> QED
    BY <2>1, <1>7, Zenon DEF NewDevice, Device
<1> QED
  BY <1>4, <1>5, <1>8 DEF Placed

\* unserialize of what serialize wrote
LEMMA RestoredIsSame ==
  ASSUME NEW s \in Nat, BarSize(s), NEW on, NEW l, NEW u, Placed(s, l, u)
  PROVE  Restored(s, Saved(Device(s, on, l, u))) = Device(s, on, l, u)
<1>1. NewDevice(s).bar = MemBar(s, 0, 0)
  BY NewDeviceIsDevice DEF Device
<1>2. WriteUpper(WriteLower(MemBar(s, 0, 0), l + 4), u) = MemBar(s, l, u)
  <2>1. WriteLower(MemBar(s, 0, 0), l + 4) = MemBar(s, Masked(l + 4, s), 0)
    BY BarWrites
  <2>2. WriteUpper(MemBar(s, l, 0), u) = MemBar(s, l, UpperMasked(s, u))
    BY BarWrites
  <2> QED
    BY <2>1, <2>2 DEF Placed
<1> DEFINE cp == Saved(Device(s, on, l, u))
<1>3. cp.memorySpace = on /\ cp.baseAddr = <<l + 4, u>>
  BY DEF Saved, Device
<1> HIDE DEF cp
<1>4. cp.baseAddr[1] = l + 4 /\ cp.baseAddr[2] = u
  BY <1>3
<1>5. Restored(s, cp) = Device(s, on, l, u)
  BY <1>1, <1>2, <1>3, <1>4, Zenon DEF Restored, Device
<1> QED
  BY <1>5 DEF cp

\* The fields of a device
LEMMA DeviceTypes ==
  ASSUME NEW d, IsDevice(d)
  PROVE  /\ d.bar.size \in Nat /\ BarSize(d.bar.size)
         /\ d.bar.lower \in Words /\ d.bar.upper \in Words
         /\ d.bar.addr \in 0 .. Top - 1
         /\ d.memorySpace \in BOOLEAN /\ d.baseAddr \in Words \X Words
         /\ Restored(d.bar.size, Saved(d)) = d
<1>1. PICK s \in Nat, on \in BOOLEAN, l \in Words, u \in Words :
             BarSize(s) /\ d = Device(s, on, l, u) /\ Placed(s, l, u)
  BY DEF IsDevice
<1>2. /\ d.bar = MemBar(s, l, u) /\ d.memorySpace = on
      /\ d.baseAddr = <<l + 4, u>>
  BY <1>1 DEF Device
<1>3. /\ d.bar.size = s /\ d.bar.lower = l /\ d.bar.upper = u
      /\ d.bar.addr = MemAddr(u * Half + l)
  BY <1>2 DEF MemBar
<1>4. MemAddr(u * Half + l) \in 0 .. Top - 1
  <2>1. Top \in Nat \ {0}
    BY HalfIsLarge, Z3
  <2>2. MemBase + (u * Half + l) \in Nat
    <3>1. Half \in Nat /\ u \in Nat /\ l \in Nat
      BY HalfIsLarge DEF Words
    <3>2. u * Half \in Nat
      BY <3>1
    <3> QED
      BY <3>1, <3>2, WordAssumption
  <2> DEFINE a == MemBase + (u * Half + l)
  <2> HIDE DEF a
  <2>3. a % Top \in 0 .. Top - 1
    BY <2>1, <2>2 DEF a
  <2> QED
    BY <2>3 DEF a, MemAddr
<1>5. Restored(d.bar.size, Saved(d)) = d
  BY <1>1, <1>3, RestoredIsSame
<1> QED
  BY <1>1, <1>2, <1>3, <1>4, <1>5 DEF Placed

\* What the registers say is a multiple of the size.
LEMMA PlacedIsMultiple ==
  ASSUME NEW s \in Nat, BarSize(s), NEW l \in Words, NEW u \in Words, Placed(s, l, u)
  PROVE  \E k \in Nat : u * Half + l = s * k
<1>1. Half \in Nat \ {0} /\ l \in Nat /\ u \in Nat /\ l < Half /\ l + 4 \in Nat
  BY HalfIsLarge DEF Words
<1>2. s \in Nat \ {0} /\ s >= 8
  BY SizeCases, Zenon
<1>3. Masked(l + 4, s) = l /\ UpperMasked(s, u) = u
  BY DEF Placed
<1>4. PICK q \in Nat : l = s * q
  BY <1>1, <1>2, <1>3, MaskedIsMultiple
<1>5. CASE s <= Half /\ \E k \in Nat \ {0} : Half = s * k
  <2>1. PICK k \in Nat \ {0} : Half = s * k
    BY <1>5
  <2>2. u * Half + l = s * (u * k + q)
    BY <2>1, <1>1, <1>2, <1>4, Z3
  <2>3. u * k + q \in Nat
    BY <1>1
  <2> QED
    BY <2>2, <2>3
<1>6. CASE s > Half /\ \E n, m \in Nat \ {0} :
                          s = Half * n /\ Half = n * m /\ s \div Half = n
  <2>1. PICK n \in Nat \ {0} : s = Half * n /\ s \div Half = n
    BY <1>6, Zenon
  <2>2. q = 0
    <3> SUFFICES ASSUME 0 < q PROVE FALSE
      OBVIOUS
    <3>1. s * 0 + s <= s * q
      BY <1>2, MultiplesApart
    <3> QED
      BY <3>1, <1>1, <1>2, <1>4, <1>6
  <2>3. Masked(u, n) = u
    BY <2>1, <1>3, <1>6 DEF UpperMasked
  <2>4. PICK j \in Nat : u = n * j
    BY <2>3, <1>1, MaskedIsMultiple
  <2>5. l = 0
    BY <2>2, <1>2, <1>4
  <2>6. u * Half + l = s * j
    BY <2>1, <2>4, <2>5, <1>1, Z3
  <2> QED
    BY <2>6
<1> QED
  BY <1>5, <1>6, SizeCases, Zenon

\* Wherever a BAR is moved, its address is a multiple of the size away from the
\* base that the host adds.
LEMMA DeviceIsAligned ==
  ASSUME NEW d, IsDevice(d)
  PROVE  \E k \in Int : d.bar.addr = MemBase + d.bar.size * k
<1>1. PICK s \in Nat, on \in BOOLEAN, l \in Words, u \in Words :
             BarSize(s) /\ d = Device(s, on, l, u) /\ Placed(s, l, u)
  BY DEF IsDevice
<1>2. d.bar.size = s /\ d.bar.addr = (MemBase + (u * Half + l)) % Top
  BY <1>1 DEF Device, MemBar, MemAddr
<1>3. PICK j \in Nat : u * Half + l = s * j
  BY <1>1, PlacedIsMultiple
<1>4. s \in Nat \ {0} /\ Top \in Nat \ {0} /\ Top % s = 0 /\ MemBase \in Nat
  <2>1. Top \in Nat \ {0}
    BY HalfIsLarge, Z3
  <2> QED
    BY <2>1, <1>1, WordAssumption DEF BarSize
<1> DEFINE m == Top \div s
           a == MemBase + s * j
           q == a \div Top
<1>5. m \in Nat /\ Top = s * m
  <2>1. m \in Nat /\ Top = s * m + (Top % s)
    BY <1>4, Division
  <2> HIDE DEF m
  <2> QED
    BY <2>1, <1>4
<1>6. a \in Nat
  BY <1>4
<1>7. d.bar.addr = a % Top
  BY <1>2, <1>3
<1>8. a = MemBase + s * j
  OBVIOUS
<1> HIDE DEF m, a
<1>9. q \in Nat /\ a % Top \in Nat /\ a = Top * q + (a % Top)
  BY <1>4, <1>6, Division
<1> HIDE DEF q
<1>10. a % Top = MemBase + s * (j - m * q)
  <2>1. Top * q = s * (m * q)
    BY <1>4, <1>5, <1>9, Z3
  <2>2. s * (j - m * q) = s * j - s * (m * q)
    BY <1>4, <1>5, <1>9, Z3
  <2>3. s * j \in Int /\ s * (m * q) \in Int /\ s * (j - m * q) \in Int
    BY <1>4, <1>5, <1>9
  <2> QED
    BY <2>1, <2>2, <2>3, <1>4, <1>8, <1>9
<1>11. j - m * q \in Int
  BY <1>5, <1>9
<1> QED
  BY <1>2, <1>7, <1>10, <1>11

\* The range of a BAR ends where the BAR does, or is empty where that wraps.
LEMMA BarRangeEnds ==
  ASSUME NEW d, IsDevice(d)
  PROVE  /\ d.bar.addr \in Nat /\ d.bar.size \in Nat \ {0}
         /\ BarRange(d.bar).start = d.bar.addr /\ BarRange(d.bar).end \in Nat
         /\ \/ BarRange(d.bar).end = d.bar.addr + d.bar.size
            \/ BarRange(d.bar).end <= d.bar.addr
<1> DEFINE x == d.bar.addr
           s == d.bar.size
           end == (x + s) % Top
<1>1. BarSize(s) /\ x \in 0 .. Top - 1
  BY DeviceTypes
<1>2. s \in Nat \ {0} /\ Top \in Nat \ {0} /\ x \in Nat /\ x < Top /\ Top % s = 0
  <2>1. Top \in Nat \ {0}
    BY HalfIsLarge, Z3
  <2> QED
    BY <2>1, <1>1 DEF BarSize
<1>3. BarRange(d.bar).start = x /\ BarRange(d.bar).end = end
  BY DEF BarRange
<1> HIDE DEF x, s
<1>4. s <= Top
  <2> DEFINE k == Top \div s
  <2>1. k \in Nat /\ Top = s * k + (Top % s)
    BY <1>2, Division
  <2> HIDE DEF k
  <2>2. Top = s * k /\ k # 0
    BY <2>1, <1>2
  <2>3. s * 0 + s <= s * k
    BY <2>1, <2>2, <1>2, MultiplesApart
  <2> QED
    BY <2>2, <2>3, <1>2
<1>5. end = x + s \/ end <= x
  <2>1. CASE x + s < Top
    <3>1. (Top * 0 + (x + s)) % Top = x + s
      BY <2>1, <1>2, DivisionUnique
    <3> QED
      BY <3>1, <1>2
  <2>2. CASE x + s >= Top
    <3>1. x + s - Top \in Nat /\ x + s - Top < Top
      BY <2>2, <1>2, <1>4
    <3>2. (Top * 1 + (x + s - Top)) % Top = x + s - Top
      BY <3>1, <1>2, DivisionUnique
    <3>3. Top * 1 + (x + s - Top) = x + s
      BY <1>2
    <3> QED
      BY <3>2, <3>3, <1>2, <1>4
  <2> QED
    BY <2>1, <2>2, <1>2
<1>6. end \in Nat
  BY <1>2
<1> HIDE DEF end
<1> QED
  BY <1>2, <1>3, <1>5, <1>6 DEF x, s

\* Every write of a register leaves a device, of the same size.
LEMMA WritesKeepDevice ==
  ASSUME NEW d, IsDevice(d)
  PROVE  /\ \A v \in Words, i \in {1, 2} :
              /\ IsDevice(WriteBaseAddr(d, i, v))
              /\ WriteBaseAddr(d, i, v).bar.size = d.bar.size
         /\ \A on \in BOOLEAN :
              IsDevice(WriteCommand(d, on)) /\ WriteCommand(d, on).bar.size = d.bar.size
<1>1. PICK s \in Nat, on \in BOOLEAN, l \in Words, u \in Words :
             BarSize(s) /\ d = Device(s, on, l, u) /\ Placed(s, l, u)
  BY DEF IsDevice
<1>2. \A x, y, z : Device(s, x, y, z).bar.size = s
  BY DEF Device, MemBar
<1>3. ASSUME NEW v \in Words
      PROVE  /\ IsDevice(WriteBaseAddr(d, 1, v))
             /\ WriteBaseAddr(d, 1, v).bar.size = d.bar.size
  <2>1. WriteBaseAddr(d, 1, v) = Device(s, on, Masked(v, s), u)
    BY <1>1, DeviceWrites
  <2>2. Masked(v, s) \in Words /\ Placed(s, Masked(v, s), u)
    BY <1>1, LowerKept DEF Placed
  <2> QED
    BY <2>1, <2>2, <1>1, <1>2, Zenon DEF IsDevice
<1>4. ASSUME NEW v \in Words
      PROVE  /\ IsDevice(WriteBaseAddr(d, 2, v))
             /\ WriteBaseAddr(d, 2, v).bar.size = d.bar.size
  <2>1. WriteBaseAddr(d, 2, v) = Device(s, on, l, UpperMasked(s, v))
    BY <1>1, DeviceWrites
  <2>2. UpperMasked(s, v) \in Words /\ Placed(s, l, UpperMasked(s, v))
    BY <1>1, UpperKept DEF Placed
  <2> QED
    BY <2>1, <2>2, <1>1, <1>2, Zenon DEF IsDevice
<1>5. ASSUME NEW b \in BOOLEAN
      PROVE  IsDevice(WriteCommand(d, b)) /\ WriteCommand(d, b).bar.size = d.bar.size
  <2>1. WriteCommand(d, b) = Device(s, b, l, u)
    BY <1>1, DeviceWrites
  <2> QED
    BY <2>1, <1>1, <1>2, Zenon DEF IsDevice
<1> QED
  BY <1>3, <1>4, <1>5

\* A guest that sizes a BAR reads its size, and puts it back in either order.
LEMMA DeviceIsSized ==
  ASSUME NEW d, IsDevice(d)
  PROVE  LET ones == WriteBaseAddr(WriteBaseAddr(d, 1, Half - 1), 2, Half - 1)
             old == d.baseAddr
         IN  /\ Top - (ones.baseAddr[2] * Half + Masked(ones.baseAddr[1], 8)) = d.bar.size
             /\ WriteBaseAddr(WriteBaseAddr(ones, 1, old[1]), 2, old[2]) = d
             /\ WriteBaseAddr(WriteBaseAddr(ones, 2, old[2]), 1, old[1]) = d
<1>1. PICK s \in Nat, on \in BOOLEAN, l \in Words, u \in Words :
             BarSize(s) /\ d = Device(s, on, l, u) /\ Placed(s, l, u)
  BY DEF IsDevice
<1> DEFINE m == Masked(Half - 1, s)
           n == UpperMasked(s, Half - 1)
           ones == WriteBaseAddr(WriteBaseAddr(d, 1, Half - 1), 2, Half - 1)
<1>2. ones = Device(s, on, m, n)
  <2>1. WriteBaseAddr(Device(s, on, l, u), 1, Half - 1) = Device(s, on, m, u)
    BY DeviceWrites
  <2>2. WriteBaseAddr(Device(s, on, m, u), 2, Half - 1) = Device(s, on, m, n)
    BY DeviceWrites
  <2> QED
    BY <1>1, <2>1, <2>2
<1> HIDE DEF ones
<1>3. /\ ones.baseAddr[1] = m + 4 /\ ones.baseAddr[2] = n
      /\ d.baseAddr[1] = l + 4 /\ d.baseAddr[2] = u
      /\ d.bar.size = s
  BY <1>1, <1>2 DEF Device, MemBar
<1>4. Top - (n * Half + Masked(m + 4, 8)) = s
  BY <1>1, OnesShowSize
<1> HIDE DEF m, n
<1>5. WriteBaseAddr(WriteBaseAddr(ones, 1, l + 4), 2, u) = d
  <2>1. WriteBaseAddr(Device(s, on, m, n), 1, l + 4) = Device(s, on, Masked(l + 4, s), n)
    BY DeviceWrites
  <2>2. WriteBaseAddr(Device(s, on, l, n), 2, u) = Device(s, on, l, UpperMasked(s, u))
    BY DeviceWrites
  <2> QED
    BY <1>1, <1>2, <2>1, <2>2 DEF Placed
<1>6. WriteBaseAddr(WriteBaseAddr(ones, 2, u), 1, l + 4) = d
  <2>1. WriteBaseAddr(Device(s, on, m, n), 2, u) = Device(s, on, m, UpperMasked(s, u))
    BY DeviceWrites
  <2>2. WriteBaseAddr(Device(s, on, m, u), 1, l + 4) = Device(s, on, Masked(l + 4, s), u)
    BY DeviceWrites
  <2> QED
    BY <1>1, <1>2, <2>1, <2>2 DEF Placed
<1> QED
  BY <1>3, <1>4, <1>5, <1>6, Zenon DEF ones
=============================================================================
