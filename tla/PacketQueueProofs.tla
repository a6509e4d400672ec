------------------------- MODULE PacketQueueProofs -------------------------
(***************************************************************************)
(* What the operations of a packet queue keep, whatever the packets are:   *)
(* the list stays in the order of its ticks, and as long as it is not      *)
(* empty exactly one thing will send its first packet, in time.            *)
(***************************************************************************)
EXTENDS PacketQueue, WellFoundedInduction, TLAPS

\* The entries of a list whose packets are in P
Entry(P) == [tick : Nat, pkt : P]

Queue(P) == [list : Seq(Entry(P)), event : Nat \cup {Unscheduled}, waiting : BOOLEAN]

InOrder(list) == \A i, j \in DOMAIN list : i < j => list[i].tick <= list[j].tick

\* The earliest tick an event can be scheduled for
Soonest(when) == IF when > 1 THEN when ELSE 1

\* Exactly one thing sends the first packet, and finds it ready.
Attended(q) ==
  /\ (q.list # <<>>) = (q.waiting \/ q.event # Unscheduled)
  /\ ~(q.waiting /\ q.event # Unscheduled)
  /\ q.waiting => q.list[1].tick = 0
  /\ q.event # Unscheduled => /\ q.list[1].tick <= q.event
                              /\ q.event <= Soonest(q.list[1].tick)

\* A nonempty set of positions has a last one: `Max' finds it.
LEMMA LastPosition ==
  ASSUME NEW n \in Nat, NEW S, S \subseteq 1 .. n, S # {}
  PROVE  /\ Max(S) \in S
         /\ \A i \in S : i <= Max(S)
<1> DEFINE T == {n - i : i \in S}
<1>1. T \subseteq Nat /\ T # {}
  <2>1. \A i \in S : i \in 1 .. n
    OBVIOUS
  <2>2. \A i \in S : n - i \in Nat
    BY <2>1, SMT
  <2>3. PICK i \in S : TRUE
    BY Zenon
  <2>4. n - i \in T
    BY <2>3
  <2> QED
    BY <2>2, <2>4
<1>2. PICK t \in T : \A u \in T : ~ (<<u, t>> \in OpToRel(<, Nat))
  BY <1>1, NatLessThanWellFounded, WFMin, Zenon
<1>3. \A u \in T : ~ (u < t)
  BY <1>1, <1>2, Zenon DEF OpToRel
<1>4. PICK m \in S : t = n - m
  BY <1>2, Zenon
<1>5. \A i \in S : m >= i
  <2> TAKE i \in S
  <2>1. n - i \in T
    OBVIOUS
  <2>2. ~ (n - i < n - m)
    BY <2>1, <1>3, <1>4, Zenon
  <2> QED
    BY <2>2
<1>6. \E x \in S : \A y \in S : x >= y
  BY <1>5
<1>7. Max(S) \in S /\ \A y \in S : Max(S) >= y
  BY <1>6, Zenon DEF Max
<1> QED
  BY <1>7

\* Emplace moves what follows by one place and leaves the rest.
Inserted(r, list, place, e) ==
  /\ Len(r) = Len(list) + 1
  /\ r[place] = e
  /\ \A i \in 1 .. place - 1 : r[i] = list[i]
  /\ \A i \in place .. Len(list) : r[i + 1] = list[i]

\* The list with an entry inserted is a list, and has the old entries around it.
LEMMA EmplaceInserts ==
  ASSUME NEW E, NEW list \in Seq(E), NEW e \in E, NEW place \in 1 .. Len(list) + 1
  PROVE  /\ Emplace(list, place, e) \in Seq(E)
         /\ Inserted(Emplace(list, place, e), list, place, e)
<1> DEFINE a == SubSeq(list, 1, place - 1)
           b == SubSeq(list, place, Len(list))
<1>1. /\ a \in Seq(E) /\ Len(a) = place - 1
      /\ \A i \in 1 .. place - 1 : a[i] = list[i]
  OBVIOUS
<1>2. /\ b \in Seq(E) /\ Len(b) = Len(list) - place + 1
      /\ \A i \in 1 .. Len(list) - place + 1 : b[i] = list[place + i - 1]
  OBVIOUS
<1> HIDE DEF a, b
<1> DEFINE ae == a \o <<e>>
<1>3. /\ ae \in Seq(E) /\ Len(ae) = place /\ ae[place] = e
      /\ \A i \in 1 .. place - 1 : ae[i] = list[i]
  BY <1>1
<1> HIDE DEF ae
<1> DEFINE r == ae \o b
<1>4. r \in Seq(E) /\ Len(r) = Len(list) + 1
  <2>1. ae \in Seq(E) /\ b \in Seq(E)
    BY <1>2, <1>3
  <2>2. r \in Seq(E) /\ Len(r) = Len(ae) + Len(b)
    BY <2>1
  <2>3. Len(list) \in Nat
    OBVIOUS
  <2> QED
    BY <2>2, <2>3, <1>2, <1>3
<1>5. \A i \in 1 .. place : r[i] = ae[i]
  BY <1>2, <1>3
<1>6. \A i \in 1 .. Len(b) : r[place + i] = b[i]
  BY <1>2, <1>3
<1>7. Emplace(list, place, e) = r
  BY DEF Emplace, r, ae, a, b
<1> HIDE DEF r
<1>8. \A i \in place .. Len(list) : r[i + 1] = list[i]
  <2> TAKE i \in place .. Len(list)
  <2>1. i - place + 1 \in 1 .. Len(b) /\ place + (i - place + 1) = i + 1
        /\ place + (i - place + 1) - 1 = i
    BY <1>2
  <2>2. r[place + (i - place + 1)] = b[i - place + 1]
    BY <2>1, <1>6
  <2>3. b[i - place + 1] = list[place + (i - place + 1) - 1]
    BY <2>1, <1>2
  <2> QED
    BY <2>1, <2>2, <2>3
<1>9. Inserted(r, list, place, e)
  BY <1>3, <1>4, <1>5, <1>8 DEF Inserted
<1> QED
  BY <1>4, <1>7, <1>9

\* The place schedSendTiming finds for a packet of tick `when'
Place(list, when) ==
  LET ahead == {i \in DOMAIN list : list[i].tick <= when}
  IN  IF ahead = {} THEN 1 ELSE Max(ahead) + 1

\* In a list that is in order the place separates the packets that are not
\* later from the ones that are.
LEMMA PlaceSeparates ==
  ASSUME NEW P, NEW list \in Seq(Entry(P)), NEW when \in Nat, InOrder(list)
  PROVE  /\ Place(list, when) \in 1 .. Len(list) + 1
         /\ \A i \in 1 .. Place(list, when) - 1 : list[i].tick <= when
         /\ \A i \in Place(list, when) .. Len(list) : when < list[i].tick
<1> DEFINE ahead == {i \in DOMAIN list : list[i].tick <= when}
<1>1. Len(list) \in Nat /\ DOMAIN list = 1 .. Len(list)
  OBVIOUS
<1>2. \A i \in 1 .. Len(list) : list[i] \in Entry(P)
  OBVIOUS
<1>3. \A i \in 1 .. Len(list) : list[i].tick \in Nat
  BY <1>2 DEF Entry
<1>4. ahead \subseteq 1 .. Len(list)
  BY <1>1
<1>5. CASE ahead = {}
  <2>1. Place(list, when) = 1
    BY <1>5 DEF Place
  <2>2. \A i \in 1 .. Len(list) : ~ (list[i].tick <= when)
    BY <1>5, <1>1
  <2> QED
    BY <2>1, <2>2, <1>3, <1>1
<1>6. CASE ahead # {}
  <2>1. Max(ahead) \in ahead /\ \A i \in ahead : i <= Max(ahead)
    BY <1>1, <1>4, <1>6, LastPosition, Zenon
  <2>2. Place(list, when) = Max(ahead) + 1
    BY <1>6 DEF Place
  <2> DEFINE m == Max(ahead)
  <2>3. m \in 1 .. Len(list) /\ list[m].tick <= when
    BY <2>1, <1>1
  <2>4. \A i \in 1 .. Len(list) : list[i].tick <= when => i <= m
    BY <2>1, <1>1
  <2> HIDE DEF m
  <2>5. \A i \in 1 .. m : list[i].tick <= when
    <3> TAKE i \in 1 .. m
    <3>1. i = m \/ list[i].tick <= list[m].tick
      BY <2>3, <1>1 DEF InOrder
    <3> QED
      BY <3>1, <2>3, <1>3, <1>1
  <2>6. \A i \in m + 1 .. Len(list) : when < list[i].tick
    BY <2>3, <2>4, <1>3, <1>1
  <2>7. Place(list, when) = m + 1
    BY <2>2 DEF m
  <2> QED
    BY <2>3, <2>5, <2>6, <2>7, <1>1
<1> QED
  BY <1>5, <1>6

\* A list stays in order when an entry is inserted where its tick belongs.
LEMMA InsertedInOrder ==
  ASSUME NEW P, NEW list \in Seq(Entry(P)), NEW e \in Entry(P), InOrder(list),
         NEW r \in Seq(Entry(P)), Inserted(r, list, Place(list, e.tick), e)
  PROVE  InOrder(r)
<1> DEFINE k == Place(list, e.tick)
<1>1. e.tick \in Nat
  BY DEF Entry
<1>2. /\ k \in 1 .. Len(list) + 1
      /\ \A i \in 1 .. k - 1 : list[i].tick <= e.tick
      /\ \A i \in k .. Len(list) : e.tick < list[i].tick
  BY <1>1, PlaceSeparates, Zenon
<1>3. Inserted(r, list, k, e)
  OBVIOUS
<1> HIDE DEF k
<1>4. /\ Len(list) \in Nat /\ DOMAIN list = 1 .. Len(list)
      /\ \A i \in 1 .. Len(list) : list[i] \in Entry(P)
  OBVIOUS
<1>5. \A i \in 1 .. Len(list) : list[i].tick \in Nat
  BY <1>4 DEF Entry
<1>6. DOMAIN r = 1 .. Len(list) + 1
  BY <1>3, <1>4 DEF Inserted
<1> SUFFICES ASSUME NEW i \in DOMAIN r, NEW j \in DOMAIN r, i < j
             PROVE  r[i].tick <= r[j].tick
  BY DEF InOrder
<1>7. i \in 1 .. Len(list) + 1 /\ j \in 1 .. Len(list) + 1
  BY <1>6
<1>8. CASE j < k
  <2>1. r[i] = list[i] /\ r[j] = list[j] /\ i \in DOMAIN list /\ j \in DOMAIN list
    BY <1>8, <1>7, <1>2, <1>3, <1>4 DEF Inserted
  <2> QED
    BY <2>1 DEF InOrder
<1>9. CASE j = k
  <2>1. r[i] = list[i] /\ r[j] = e /\ i \in 1 .. k - 1
    BY <1>9, <1>7, <1>2, <1>3, <1>4 DEF Inserted
  <2> QED
    BY <2>1, <1>2
<1>10. CASE j > k
  <2>1. j - 1 \in k .. Len(list) /\ j - 1 \in DOMAIN list
    BY <1>10, <1>7, <1>2, <1>4
  <2>2. r[(j - 1) + 1] = list[j - 1]
    BY <2>1, <1>3, Zenon DEF Inserted
  <2>3. r[j] = list[j - 1]
    BY <2>2, <1>7
  <2>4. e.tick < list[j - 1].tick /\ list[j - 1].tick \in Nat
    BY <2>1, <1>2, <1>4, <1>5
  <2>5. CASE i < k
    <3>1. r[i] = list[i] /\ i \in DOMAIN list /\ i < j - 1
      BY <2>5, <1>10, <1>7, <1>2, <1>3, <1>4 DEF Inserted
    <3> QED
      BY <3>1, <2>1, <2>3 DEF InOrder
  <2>6. CASE i = k
    <3>1. r[i] = e
      BY <2>6, <1>3 DEF Inserted
    <3> QED
      BY <3>1, <2>3, <2>4, <1>1
  <2>7. CASE i > k
    <3>1. i - 1 \in k .. Len(list) /\ i - 1 \in DOMAIN list /\ i - 1 < j - 1
      BY <2>7, <1>7, <1>2, <1>4
    <3>2. r[(i - 1) + 1] = list[i - 1]
      BY <3>1, <1>3, Zenon DEF Inserted
    <3>3. r[i] = list[i - 1]
      BY <3>2, <1>7
    <3> QED
      BY <3>1, <3>3, <2>1, <2>3 DEF InOrder
  <2> QED
    BY <2>5, <2>6, <2>7, <1>7, <1>2
<1> QED
  BY <1>8, <1>9, <1>10, <1>7, <1>2

\* The entries of a list with one inserted
LEMMA InsertedEntries ==
  ASSUME NEW E, NEW list \in Seq(E), NEW e, NEW place \in 1 .. Len(list) + 1,
         NEW r \in Seq(E), Inserted(r, list, place, e)
  PROVE  Range(r) = Range(list) \cup {e}
<1>1. Len(list) \in Nat /\ DOMAIN list = 1 .. Len(list)
  OBVIOUS
<1>2. DOMAIN r = 1 .. Len(list) + 1
  BY <1>1 DEF Inserted
<1>3. ASSUME NEW i \in DOMAIN r
      PROVE  r[i] \in Range(list) \cup {e}
  <2>1. CASE i < place
    <3>1. i \in DOMAIN list /\ r[i] = list[i]
      BY <2>1, <1>1, <1>2 DEF Inserted
    <3> QED
      BY <3>1 DEF Range
  <2>2. CASE i = place
    BY <2>2 DEF Inserted
  <2>3. CASE i > place
    <3>1. i - 1 \in place .. Len(list) /\ i - 1 \in DOMAIN list
      BY <2>3, <1>1, <1>2
    <3>2. r[(i - 1) + 1] = list[i - 1]
      BY <3>1, Zenon DEF Inserted
    <3>3. r[i] = list[i - 1]
      BY <3>2, <1>2
    <3> QED
      BY <3>1, <3>3 DEF Range
  <2> QED
    BY <2>1, <2>2, <2>3, <1>1, <1>2
<1>4. ASSUME NEW i \in DOMAIN list
      PROVE  list[i] \in Range(r)
  <2>1. CASE i < place
    <3>1. i \in DOMAIN r /\ r[i] = list[i]
      BY <2>1, <1>1, <1>2 DEF Inserted
    <3> QED
      BY <3>1 DEF Range
  <2>2. CASE i >= place
    <3>1. i + 1 \in DOMAIN r /\ r[i + 1] = list[i]
      BY <2>2, <1>1, <1>2 DEF Inserted
    <3> QED
      BY <3>1 DEF Range
  <2> QED
    BY <2>1, <2>2, <1>1
<1>5. e \in Range(r)
  <2>1. place \in DOMAIN r /\ r[place] = e
    BY <1>1, <1>2 DEF Inserted
  <2> QED
    BY <2>1 DEF Range
<1>6. Range(r) \subseteq Range(list) \cup {e}
  BY <1>3 DEF Range
<1>7. Range(list) \subseteq Range(r)
  BY <1>4, Zenon DEF Range
<1> QED
  BY <1>5, <1>6, <1>7

\* Where the entries of a list with one inserted come from
LEMMA InsertedSource ==
  ASSUME NEW E, NEW list \in Seq(E), NEW e, NEW place \in 1 .. Len(list) + 1,
         NEW r \in Seq(E), Inserted(r, list, place, e),
         NEW i \in DOMAIN r, i # place
  PROVE  LET k == IF i < place THEN i ELSE i - 1
         IN  k \in DOMAIN list /\ r[i] = list[k]
<1>1. Len(list) \in Nat /\ DOMAIN list = 1 .. Len(list)
  OBVIOUS
<1>2. DOMAIN r = 1 .. Len(list) + 1
  BY <1>1 DEF Inserted
<1>3. CASE i < place
  BY <1>3, <1>1, <1>2 DEF Inserted
<1>4. CASE i > place
  <2>1. i - 1 \in place .. Len(list) /\ i - 1 \in DOMAIN list
    BY <1>4, <1>1, <1>2
  <2>2. r[(i - 1) + 1] = list[i - 1]
    BY <2>1, Zenon DEF Inserted
  <2>3. r[i] = list[i - 1]
    BY <2>2, <1>2
  <2> QED
    BY <2>1, <2>3, <1>4, <1>2
<1> QED
  BY <1>3, <1>4, <1>1, <1>2

\* No two entries are packets of the same request.
Unrepeated(list) == \A i, j \in DOMAIN list : list[i].pkt.id = list[j].pkt.id => i = j

\* A packet of a new request repeats none.
LEMMA InsertedUnrepeated ==
  ASSUME NEW E, NEW list \in Seq(E), NEW e, NEW place \in 1 .. Len(list) + 1,
         NEW r \in Seq(E), Inserted(r, list, place, e),
         Unrepeated(list), \A i \in DOMAIN list : list[i].pkt.id # e.pkt.id
  PROVE  Unrepeated(r)
<1> SUFFICES ASSUME NEW i \in DOMAIN r, NEW j \in DOMAIN r, r[i].pkt.id = r[j].pkt.id
             PROVE  i = j
  BY DEF Unrepeated
<1> DEFINE from(m) == IF m < place THEN m ELSE m - 1
<1>1. i = place \/ (from(i) \in DOMAIN list /\ r[i] = list[from(i)])
  BY InsertedSource
<1>2. j = place \/ (from(j) \in DOMAIN list /\ r[j] = list[from(j)])
  BY InsertedSource
<1>3. r[place] = e
  BY DEF Inserted
<1>4. i \in Int /\ j \in Int /\ place \in Int
  OBVIOUS
<1>5. CASE i = place
  BY <1>5, <1>2, <1>3
<1>6. CASE j = place
  BY <1>6, <1>1, <1>3
<1>7. CASE i # place /\ j # place
  <2>1. from(i) = from(j)
    <3> HIDE DEF from
    <3> QED
      BY <1>1, <1>2, <1>7 DEF Unrepeated
  <2> QED
    BY <2>1, <1>4, <1>7
<1> QED
  BY <1>5, <1>6, <1>7

\* schedSendTiming puts the packet in its place, and moves the event only for
\* a packet that comes first.
LEMMA TimingEffect ==
  ASSUME NEW P, NEW q \in Queue(P), NEW pkt \in P, NEW when \in Nat, InOrder(q.list)
  PROVE  LET r == SchedSendTiming(q, pkt, when)
             place == Place(q.list, when)
         IN  /\ r \in Queue(P)
             /\ Inserted(r.list, q.list, place, [tick |-> when, pkt |-> pkt])
             /\ InOrder(r.list)
             /\ r.waiting = q.waiting
             /\ r.event = IF /\ place = 1 /\ ~q.waiting
                             /\ q.event = Unscheduled \/ Soonest(when) < q.event
                          THEN Soonest(when) ELSE q.event
<1> DEFINE e == [tick |-> when, pkt |-> pkt]
           place == Place(q.list, when)
           new == Emplace(q.list, place, e)
           added == [q EXCEPT !.list = new]
           r == SchedSendTiming(q, pkt, when)
<1>1. /\ q.list \in Seq(Entry(P)) /\ q.event \in Nat \cup {Unscheduled}
      /\ q.waiting \in BOOLEAN
      /\ q = [list |-> q.list, event |-> q.event, waiting |-> q.waiting]
  BY DEF Queue
<1>2. e \in Entry(P) /\ e.tick = when
  BY DEF Entry
<1>3. place \in 1 .. Len(q.list) + 1
  BY <1>1, PlaceSeparates
<1>4. new \in Seq(Entry(P)) /\ Inserted(new, q.list, place, e)
  <2> HIDE DEF e, place
  <2> QED
    BY <1>1, <1>2, <1>3, EmplaceInserts
<1>5. InOrder(new)
  <2>1. Inserted(new, q.list, Place(q.list, e.tick), e)
    BY <1>2, <1>4
  <2> HIDE DEF new, e
  <2> QED
    BY <2>1, <1>1, <1>2, <1>4, InsertedInOrder
<1>6. r = IF place = 1 THEN SchedSendEvent(added, when) ELSE added
  BY DEF SchedSendTiming, Place
<1>7. added = [list |-> new, event |-> q.event, waiting |-> q.waiting]
  <2> HIDE DEF new
  <2> QED
    BY <1>1
<1> HIDE DEF new, added, place, e
<1>8. SchedSendEvent(added, when) =
        [list |-> new, waiting |-> q.waiting,
         event |-> IF ~q.waiting /\ (q.event = Unscheduled \/ Soonest(when) < q.event)
                   THEN Soonest(when) ELSE q.event]
  BY <1>7 DEF SchedSendEvent, Soonest
<1>9. r = [list |-> new, waiting |-> q.waiting,
           event |-> IF /\ place = 1 /\ ~q.waiting
                        /\ q.event = Unscheduled \/ Soonest(when) < q.event
                     THEN Soonest(when) ELSE q.event]
  BY <1>6, <1>7, <1>8
<1>10. Soonest(when) \in Nat
  BY DEF Soonest
<1> HIDE DEF r
<1>11. r \in Queue(P)
  BY <1>1, <1>4, <1>9, <1>10 DEF Queue
<1>12. r.list = new /\ r.waiting = q.waiting
       /\ r.event = IF /\ place = 1 /\ ~q.waiting
                       /\ q.event = Unscheduled \/ Soonest(when) < q.event
                    THEN Soonest(when) ELSE q.event
  BY <1>9
<1> QED
  BY <1>4, <1>5, <1>11, <1>12 DEF r, place, e

\* The first entry of a list with one inserted at `place'
LEMMA InsertedFirst ==
  ASSUME NEW E, NEW list \in Seq(E), NEW e, NEW place \in 1 .. Len(list) + 1,
         NEW r, Inserted(r, list, place, e)
  PROVE  /\ place = 1 => r[1] = e
         /\ place # 1 => r[1] = list[1] /\ list # <<>>
         /\ r # <<>>
<1>1. Len(list) \in Nat
  OBVIOUS
<1>2. place = 1 => r[1] = e
  BY DEF Inserted
<1>3. place # 1 => 1 \in 1 .. place - 1 /\ Len(list) # 0
  BY <1>1
<1>4. place # 1 => r[1] = list[1]
  BY <1>3 DEF Inserted
<1>5. r # <<>>
  BY <1>1 DEF Inserted
<1> QED
  BY <1>2, <1>3, <1>4, <1>5

\* schedSendTiming keeps one thing that sends the first packet: a packet that
\* comes before one waiting for a retry would be earlier than now.
LEMMA TimingAttended ==
  ASSUME NEW P, NEW q \in Queue(P), NEW pkt \in P, NEW when \in Nat, InOrder(q.list),
         Attended(q)
  PROVE  Attended(SchedSendTiming(q, pkt, when))
<1> DEFINE r == SchedSendTiming(q, pkt, when)
           e == [tick |-> when, pkt |-> pkt]
           place == Place(q.list, when)
<1>1. /\ r \in Queue(P)
      /\ Inserted(r.list, q.list, place, e)
      /\ r.waiting = q.waiting
      /\ r.event = IF /\ place = 1 /\ ~q.waiting
                      /\ q.event = Unscheduled \/ Soonest(when) < q.event
                   THEN Soonest(when) ELSE q.event
  BY TimingEffect
<1>2. /\ q.list \in Seq(Entry(P)) /\ q.event \in Nat \cup {Unscheduled}
      /\ q.waiting \in BOOLEAN /\ e.tick = when
  BY DEF Queue
<1>3. /\ place \in 1 .. Len(q.list) + 1
      /\ \A i \in place .. Len(q.list) : when < q.list[i].tick
  BY <1>2, PlaceSeparates, Zenon
<1> SUFFICES Attended(r)
  OBVIOUS
<1> HIDE DEF r, e, place
<1>4. /\ place = 1 => r.list[1] = e
      /\ place # 1 => r.list[1] = q.list[1] /\ q.list # <<>>
      /\ r.list # <<>>
  BY <1>1, <1>2, <1>3, InsertedFirst
<1>5. CASE place # 1
  BY <1>1, <1>4, <1>5 DEF Attended
<1>6. CASE place = 1 /\ q.list = <<>>
  <2>1. ~q.waiting /\ q.event = Unscheduled
    BY <1>6 DEF Attended
  <2>2. r.event = Soonest(when) /\ ~r.waiting /\ r.list[1].tick = when
    BY <2>1, <1>1, <1>2, <1>4, <1>6
  <2> QED
    BY <2>2, <1>4 DEF Attended, Soonest, Unscheduled
<1>7. CASE place = 1 /\ q.list # <<>>
  <2>1. 1 \in place .. Len(q.list)
    BY <1>2, <1>7
  <2>2. when < q.list[1].tick /\ q.list[1] \in Entry(P)
    BY <2>1, <1>2, <1>3, <1>7
  <2>3. q.list[1].tick \in Nat
    BY <2>2 DEF Entry
  <2>4. ~q.waiting /\ q.event # Unscheduled /\ q.list[1].tick <= q.event
    BY <2>2, <2>3, <1>2, <1>7 DEF Attended
  <2>5. q.event \in Nat
    BY <2>4, <1>2
  <2>6. r.event = IF Soonest(when) < q.event THEN Soonest(when) ELSE q.event
    BY <2>4, <1>1, <1>7
  <2>7. ~r.waiting /\ r.list[1].tick = when /\ r.list # <<>>
    BY <2>4, <1>1, <1>2, <1>4, <1>7
  <2>8. r.event \in Nat /\ when <= r.event /\ r.event <= Soonest(when)
    BY <2>2, <2>3, <2>4, <2>5, <2>6 DEF Soonest
  <2>9. r.event # Unscheduled
    BY <2>8 DEF Unscheduled
  <2> QED
    BY <2>7, <2>8, <2>9 DEF Attended
<1> QED
  BY <1>5, <1>6, <1>7

\* A queue from which the first packet was taken has neither event nor retry,
\* unless a request that came meanwhile scheduled the event for its response.
Between(q) ==
  /\ ~q.waiting
  /\ \/ q.event = Unscheduled
     \/ q.list # <<>> /\ q.event = Soonest(q.list[1].tick)

\* The peer answers with a request before it returns.
LEMMA TimingBetween ==
  ASSUME NEW P, NEW q \in Queue(P), NEW pkt \in P, NEW when \in Nat, InOrder(q.list),
         ~q.waiting, q.event = Unscheduled
  PROVE  Between(SchedSendTiming(q, pkt, when))
<1> DEFINE r == SchedSendTiming(q, pkt, when)
           e == [tick |-> when, pkt |-> pkt]
           place == Place(q.list, when)
<1>1. /\ Inserted(r.list, q.list, place, e)
      /\ r.waiting = q.waiting
      /\ r.event = IF /\ place = 1 /\ ~q.waiting
                      /\ q.event = Unscheduled \/ Soonest(when) < q.event
                   THEN Soonest(when) ELSE q.event
  BY TimingEffect
<1>2. q.list \in Seq(Entry(P)) /\ e.tick = when
  BY DEF Queue
<1>3. place \in 1 .. Len(q.list) + 1
  BY <1>2, PlaceSeparates
<1> SUFFICES Between(r)
  OBVIOUS
<1> HIDE DEF r, e, place
<1>4. (place = 1 => r.list[1] = e) /\ r.list # <<>>
  BY <1>1, <1>2, <1>3, InsertedFirst
<1> QED
  BY <1>1, <1>2, <1>4 DEF Between

\* sendDeferredPacket then schedules the event for the packet that is first now.
LEMMA TakenAttended ==
  ASSUME NEW P, NEW q \in Queue(P), Between(q)
  PROVE  /\ Taken(q) \in Queue(P)
         /\ Taken(q).list = q.list
         /\ Attended(Taken(q))
<1>1. /\ q.list \in Seq(Entry(P)) /\ q.event \in Nat \cup {Unscheduled}
      /\ q.waiting \in BOOLEAN
      /\ q = [list |-> q.list, event |-> q.event, waiting |-> q.waiting]
  BY DEF Queue
<1>2. CASE q.list = <<>>
  <2>1. Taken(q) = q
    BY <1>2 DEF Taken
  <2>2. q.event = Unscheduled /\ ~q.waiting
    BY <1>2 DEF Between
  <2> QED
    BY <1>2, <2>1, <2>2 DEF Attended
<1>3. CASE q.list # <<>>
  <2> DEFINE h == q.list[1].tick
  <2>1. q.list[1] \in Entry(P) /\ Head(q.list) = q.list[1]
    BY <1>1, <1>3
  <2>2. h \in Nat /\ Head(q.list).tick = h
    BY <2>1 DEF Entry
  <2>3. Taken(q) = SchedSendEvent(q, h)
    BY <1>3, <2>2 DEF Taken
  <2> HIDE DEF h
  <2>4. SchedSendEvent(q, h) =
          [list |-> q.list, waiting |-> q.waiting,
           event |-> IF ~q.waiting /\ (q.event = Unscheduled \/ Soonest(h) < q.event)
                     THEN Soonest(h) ELSE q.event]
    BY <1>1 DEF SchedSendEvent, Soonest
  <2>5. Soonest(h) \in Nat /\ h <= Soonest(h)
    BY <2>2 DEF Soonest
  <2>6. ~q.waiting /\ (q.event = Unscheduled \/ q.event = Soonest(h))
    BY DEF Between, h
  <2>7. Taken(q) = [list |-> q.list, waiting |-> FALSE, event |-> Soonest(h)]
    BY <1>1, <2>3, <2>4, <2>5, <2>6, Zenon
  <2>8. Soonest(h) # Unscheduled
    BY <2>5 DEF Unscheduled
  <2>9. Taken(q) \in Queue(P) /\ Taken(q).list = q.list
    BY <1>1, <2>5, <2>7 DEF Queue
  <2>10. /\ Taken(q).list # <<>> /\ ~Taken(q).waiting
         /\ Taken(q).event = Soonest(h) /\ Taken(q).list[1].tick = h
    BY <1>3, <2>7 DEF h
  <2>11. Attended(Taken(q))
    BY <2>5, <2>8, <2>10 DEF Attended
  <2> QED
    BY <2>9, <2>11
<1> QED
  BY <1>2, <1>3

\* The list without its first entry
LEMMA TailEffect ==
  ASSUME NEW E, NEW list \in Seq(E), list # <<>>
  PROVE  /\ Tail(list) \in Seq(E) /\ Head(list) = list[1]
         /\ DOMAIN list = 1 .. Len(list) /\ 1 \in DOMAIN list /\ Len(list) \in Nat
         /\ DOMAIN Tail(list) = 1 .. Len(list) - 1
         /\ \A i \in DOMAIN Tail(list) : i + 1 \in DOMAIN list /\ Tail(list)[i] = list[i + 1]
<1>1. Len(list) \in Nat /\ Len(list) # 0 /\ DOMAIN list = 1 .. Len(list)
  OBVIOUS
<1>2. /\ Tail(list) \in Seq(E) /\ Head(list) = list[1]
      /\ Len(Tail(list)) = Len(list) - 1
  OBVIOUS
<1>3. DOMAIN Tail(list) = 1 .. Len(list) - 1
  BY <1>2
<1>4. \A i \in 1 .. Len(list) - 1 : Tail(list)[i] = list[i + 1]
  BY <1>1
<1> QED
  BY <1>1, <1>2, <1>3, <1>4

\* Taking out the first entry keeps the order, and takes out one packet.
LEMMA TailKeeps ==
  ASSUME NEW E, NEW list \in Seq(E), list # <<>>, InOrder(list), Unrepeated(list)
  PROVE  /\ InOrder(Tail(list)) /\ Unrepeated(Tail(list))
         /\ Range(list) = Range(Tail(list)) \cup {Head(list)}
         /\ \A e \in Range(Tail(list)) : e.pkt.id # Head(list).pkt.id
<1> DEFINE t == Tail(list)
<1>1. /\ Head(list) = list[1] /\ Len(list) \in Nat
      /\ DOMAIN list = 1 .. Len(list) /\ 1 \in DOMAIN list
      /\ DOMAIN t = 1 .. Len(list) - 1
      /\ \A i \in DOMAIN t : i + 1 \in DOMAIN list /\ t[i] = list[i + 1]
  BY TailEffect
<1> SUFFICES /\ InOrder(t) /\ Unrepeated(t)
             /\ Range(list) = Range(t) \cup {Head(list)}
             /\ \A e \in Range(t) : e.pkt.id # Head(list).pkt.id
  OBVIOUS
<1> HIDE DEF t
<1>2. InOrder(t)
  <2> SUFFICES ASSUME NEW i \in DOMAIN t, NEW j \in DOMAIN t, i < j
               PROVE  t[i].tick <= t[j].tick
    BY DEF InOrder
  <2>1. i + 1 \in DOMAIN list /\ j + 1 \in DOMAIN list /\ i + 1 < j + 1
    BY <1>1
  <2>2. list[i + 1].tick <= list[j + 1].tick
    BY <2>1 DEF InOrder
  <2> QED
    BY <2>2, <1>1
<1>3. Unrepeated(t)
  <2> SUFFICES ASSUME NEW i \in DOMAIN t, NEW j \in DOMAIN t, t[i].pkt.id = t[j].pkt.id
               PROVE  i = j
    BY DEF Unrepeated
  <2>1. i + 1 = j + 1
    BY <1>1 DEF Unrepeated
  <2> QED
    BY <2>1, <1>1
<1>4. ASSUME NEW i \in DOMAIN t
      PROVE  t[i] \in Range(list) /\ t[i].pkt.id # Head(list).pkt.id
  <2>1. i + 1 \in DOMAIN list /\ t[i] = list[i + 1] /\ i + 1 # 1
    BY <1>1
  <2> QED
    BY <2>1, <1>1 DEF Range, Unrepeated
<1>5. ASSUME NEW i \in DOMAIN list
      PROVE  list[i] \in Range(t) \cup {Head(list)}
  <2>1. CASE i = 1
    BY <2>1, <1>1
  <2>2. CASE i # 1
    <3>1. i - 1 \in DOMAIN t /\ (i - 1) + 1 = i
      BY <2>2, <1>1
    <3>2. t[i - 1] = list[i]
      BY <3>1, <1>1
    <3> QED
      BY <3>1, <3>2 DEF Range
  <2> QED
    BY <2>1, <2>2
<1>6. Head(list) \in Range(list)
  BY <1>1 DEF Range
<1>7. Range(list) = Range(t) \cup {Head(list)}
  BY <1>4, <1>5, <1>6 DEF Range
<1>8. \A e \in Range(t) : e.pkt.id # Head(list).pkt.id
  BY <1>4 DEF Range
<1> QED
  BY <1>2, <1>3, <1>7, <1>8

\* A tick passes: the packets stay, in order, with one thing that sends the first.
LEMMA ElapsedEffect ==
  ASSUME NEW P, NEW q \in Queue(P), InOrder(q.list), Attended(q), q.event # 0
  PROVE  /\ Elapsed(q) \in Queue(P)
         /\ DOMAIN Elapsed(q).list = DOMAIN q.list
         /\ \A i \in DOMAIN q.list : Elapsed(q).list[i].pkt = q.list[i].pkt
         /\ InOrder(Elapsed(q).list) /\ Attended(Elapsed(q))
<1> DEFINE aged == [i \in DOMAIN q.list |-> Nearer(q.list[i])]
           event == IF q.event = Unscheduled THEN q.event ELSE q.event - 1
           r == Elapsed(q)
<1>1. /\ q.list \in Seq(Entry(P)) /\ q.event \in Nat \cup {Unscheduled}
      /\ q.waiting \in BOOLEAN
      /\ q = [list |-> q.list, event |-> q.event, waiting |-> q.waiting]
  BY DEF Queue
<1>2. /\ DOMAIN q.list = 1 .. Len(q.list) /\ Len(q.list) \in Nat
      /\ \A i \in DOMAIN q.list : q.list[i] \in Entry(P)
  BY <1>1
<1>3. \A i \in DOMAIN q.list :
        /\ q.list[i].tick \in Nat
        /\ aged[i] = [tick |-> IF q.list[i].tick > 0 THEN q.list[i].tick - 1 ELSE 0,
                      pkt |-> q.list[i].pkt]
        /\ q.list[i].pkt \in P
  BY <1>2 DEF Entry, Nearer
<1>4. DOMAIN aged = DOMAIN q.list
  OBVIOUS
<1>5. r = [list |-> aged, event |-> event, waiting |-> q.waiting]
  <2>1. r = [q EXCEPT !.list = aged, !.event = event]
    BY Zenon DEF Elapsed
  <2> HIDE DEF aged, event
  <2> QED
    BY <2>1, <1>1, Zenon
<1> HIDE DEF aged
<1>6. \A i \in DOMAIN q.list : aged[i] \in Entry(P) /\ aged[i].pkt = q.list[i].pkt
       /\ aged[i].tick = IF q.list[i].tick > 0 THEN q.list[i].tick - 1 ELSE 0
  <2> TAKE i \in DOMAIN q.list
  <2> DEFINE t == IF q.list[i].tick > 0 THEN q.list[i].tick - 1 ELSE 0
  <2>1. aged[i] = [tick |-> t, pkt |-> q.list[i].pkt] /\ q.list[i].pkt \in P
    BY <1>3
  <2>2. t \in Nat
    <3>1. q.list[i].tick \in Nat
      BY <1>3, Zenon
    <3> QED
      BY <3>1
  <2> HIDE DEF t
  <2>3. aged[i] \in Entry(P) /\ aged[i].tick = t /\ aged[i].pkt = q.list[i].pkt
    BY <2>1, <2>2 DEF Entry
  <2> QED
    BY <2>3 DEF t
<1>7. aged \in Seq(Entry(P))
  <2>1. aged \in [1 .. Len(q.list) -> Entry(P)]
    <3>1. DOMAIN aged = 1 .. Len(q.list) /\ \A i \in 1 .. Len(q.list) : aged[i] \in Entry(P)
      BY <1>2, <1>4, <1>6
    <3>2. aged = [i \in DOMAIN aged |-> aged[i]]
      BY DEF aged
    <3> QED
      BY <3>1, <3>2
  <2> QED
    BY <2>1, <1>2
<1>8. event \in Nat \cup {Unscheduled}
  BY <1>1 DEF Unscheduled
<1>9. InOrder(aged)
  <2> SUFFICES ASSUME NEW i \in DOMAIN q.list, NEW j \in DOMAIN q.list, i < j
               PROVE  aged[i].tick <= aged[j].tick
    BY <1>4 DEF InOrder
  <2>1. q.list[i].tick <= q.list[j].tick
    BY DEF InOrder
  <2>2. q.list[i].tick \in Nat /\ q.list[j].tick \in Nat
    BY <1>3, Zenon
  <2>3. /\ aged[i].tick = IF q.list[i].tick > 0 THEN q.list[i].tick - 1 ELSE 0
        /\ aged[j].tick = IF q.list[j].tick > 0 THEN q.list[j].tick - 1 ELSE 0
    BY <1>6
  <2> QED
    BY <2>1, <2>2, <2>3
<1> HIDE DEF r
<1>10. r.list = aged /\ r.event = event /\ r.waiting = q.waiting
  BY <1>5
<1>11. r \in Queue(P)
  BY <1>1, <1>5, <1>7, <1>8 DEF Queue
<1>12. Attended(r)
  <2>1. CASE q.list = <<>>
    <3>1. aged = <<>>
      BY <2>1, <1>2, <1>4, <1>7
    <3>2. q.event = Unscheduled /\ ~q.waiting
      BY <2>1 DEF Attended
    <3> QED
      BY <3>1, <3>2, <1>10 DEF Attended
  <2>2. CASE q.list # <<>>
    <3>1. 1 \in DOMAIN q.list /\ aged # <<>>
      BY <2>2, <1>1, <1>2, <1>4
    <3> DEFINE h == q.list[1].tick
               k == aged[1].tick
    <3>2. h \in Nat /\ k = IF h > 0 THEN h - 1 ELSE 0
      BY <3>1, <1>3, <1>6, Zenon
    <3>3. CASE q.waiting
      <4>1. h = 0 /\ q.event = Unscheduled
        BY <3>3 DEF Attended
      <4>2. k = 0 /\ event = Unscheduled
        BY <4>1, <3>2
      <4> QED
        BY <4>2, <3>1, <3>3, <1>10 DEF Attended
    <3>4. CASE ~q.waiting
      <4>1. q.event # Unscheduled /\ h <= q.event /\ q.event <= Soonest(h)
        BY <3>4, <2>2 DEF Attended
      <4>2. q.event \in Nat \ {0}
        BY <4>1, <1>1
      <4>3. event = q.event - 1 /\ event \in Nat
        BY <4>1, <4>2
      <4>4. k <= event /\ event <= Soonest(k) /\ event # Unscheduled
        BY <4>1, <4>2, <4>3, <3>2 DEF Soonest, Unscheduled
      <4> HIDE DEF event
      <4> QED
        BY <4>4, <3>1, <3>4, <1>10 DEF Attended
    <3> QED
      BY <3>3, <3>4
  <2> QED
    BY <2>1, <2>2
<1> QED
  BY <1>4, <1>6, <1>9, <1>10, <1>11, <1>12 DEF r
=============================================================================
