----------------------- MODULE PageReplacementProofs -----------------------
(***************************************************************************)
(* The simulator keeps its page table, its physical memory and its queue   *)
(* consistent, every row translates its address and the totals count the  *)
(* rows, for every size of memory, every page size and every address       *)
(* string.                                                                 *)
(***************************************************************************)
EXTENDS PageReplacement, FiniteSetTheorems, WellFoundedInduction, TLAPS

-----------------------------------------------------------------------------
(* The inductive invariant.                                                *)

(* A page number was computed from its address and stays so.               *)
InfosInv ==
  \A n \in Index :
    infos[n].pageNum = Quotient(infos[n].virtualAddress, pageSizeByte)

(* While frames are free, frame s sits in slot s and nothing has left.     *)
FillingShape ==
  /\ pageQueue.rear # totalFrame - 1
  /\ pageQueue.front = IF pageQueue.rear = -1 THEN -1 ELSE 0
  /\ Occupied = 0 .. pageQueue.rear
  /\ \A s \in 0 .. pageQueue.rear : pageQueue.items[s] = s

(* A ring that holds frame s in every slot s, and one with a gap at v.     *)
FullRing(q) ==
  /\ q.front \in Slots /\ q.rear \in Slots
  /\ \A s \in Slots : q.items[s] = s
  /\ NextSlot(q.rear) = q.front

GapRing(q, v) ==
  /\ q.front \in Slots /\ q.rear \in Slots
  /\ \A s \in Slots : q.items[s] = s
  /\ NextSlot(q.rear) = v /\ NextSlot(v) = q.front

(* With memory full FIFO and Second-Chance only turn the ring: slot s      *)
(* holds frame s for ever, and a frame in hand is the gap.                 *)
TurningShape ==
  IF victimFrameNum = -1 THEN FullRing(pageQueue)
  ELSE GapRing(pageQueue, victimFrameNum)

(* With memory full Optimal keeps front and rear and permutes the items.   *)
Permuted(q) ==
  /\ q.front = 0 /\ q.rear = totalFrame - 1
  /\ \A s \in Slots : q.items[s] \in Frames
  /\ \A s, t \in Slots : q.items[s] = q.items[t] => s = t
  /\ \A f \in Frames : \E s \in Slots : q.items[s] = f

QueueShape ==
  algorithm # "LRU" =>
    IF FreeFrames # {} THEN FillingShape
    ELSE IF algorithm = "Optimal" THEN Permuted(pageQueue) ELSE TurningShape

(* Inside the Second-Chance loop memory is full and the current page is    *)
(* not in it; outside no frame is in hand.                                 *)
LoopInv ==
  IF pc = "second_chance"
  THEN /\ algorithm = "SC" /\ currentIndex \in Index
       /\ FreeFrames = {} /\ pageTable[pageNum].frameNum = -1
       /\ victimFrameNum \in Frames
  ELSE victimFrameNum = -1

IInv ==
  /\ TypeOK /\ MappingInv /\ InfosInv /\ QueueShape /\ LoopInv
  /\ RowsTranslate

(* The step RowsTellResidency speaks of.                                   *)
ResidencyStep ==
  Len(output') > Len(output) =>
    LET row == output'[Len(output')]
    IN  /\ (row.pageFault = "H") <=>
             (\E f \in Frames : pageTable[row.pageNum].frameNum = f)
        /\ pageTable'[row.pageNum].frameNum = row.frameNum

-----------------------------------------------------------------------------
(* Arithmetic.                                                             *)

(* x % n of a number below n.                                              *)
LEMMA ModSmall ==
  ASSUME NEW n \in Nat \ {0}, NEW x \in 0 .. n - 1
  PROVE  x % n = x
  OBVIOUS

(* x % n one turn of the ring later.                                       *)
LEMMA ModWrap ==
  ASSUME NEW n \in Nat \ {0}, NEW x \in n .. 2 * n - 1
  PROVE  x % n = x - n
  OBVIOUS

(* Division splits a number below t * s into a quotient below t and a      *)
(* remainder below s.                                                      *)
LEMMA DivRange ==
  ASSUME NEW s \in Nat \ {0}, NEW t \in Nat, NEW x \in 0 .. t * s - 1
  PROVE  /\ x \div s \in 0 .. t - 1
         /\ x - s * (x \div s) \in 0 .. s - 1
  OBVIOUS

(* A non-empty set of naturals has a least element, and Min is it.         *)
LEMMA MinProp ==
  ASSUME NEW S \in SUBSET Nat, S # {}
  PROVE  Min(S) \in S /\ \A x \in S : Min(S) <= x
<1> DEFINE R == OpToRel(<, Nat)
<1>1. IsWellFoundedOn(R, Nat)
  BY Zenon, NatLessThanWellFounded
<1>2. \A x, y \in S : y < x => <<y, x>> \in R
  BY DEF OpToRel
<1> HIDE DEF R
<1>3. \E x \in S : \A y \in S : ~ (<<y, x>> \in R)
  BY Zenon, <1>1, WFMin
<1>4. PICK x \in S : \A y \in S : ~ (<<y, x>> \in R)
  BY <1>3
<1>5. \A y \in S : ~ (y < x)
  BY <1>2, <1>4, Zenon
<1>6. \A y \in S : x <= y
  BY <1>5
<1> QED BY Zenon, <1>6 DEF Min

(* A non-empty bounded set of naturals has a greatest element, and Max is  *)
(* it.                                                                     *)
LEMMA MaxProp ==
  ASSUME NEW n \in Nat, NEW S \in SUBSET (0 .. n), S # {}
  PROVE  Max(S) \in S /\ \A x \in S : x <= Max(S)
<1> DEFINE T == {n - x : x \in S}
<1>1. T \in SUBSET Nat
  OBVIOUS
<1>a. T # {}
  <2>1. PICK x \in S : TRUE
    BY Zenon
  <2>2. n - x \in T
    BY <2>1
  <2> QED BY <2>2
<1>2. Min(T) \in T /\ \A x \in T : Min(T) <= x
  BY Zenon, <1>1, <1>a, MinProp
<1>3. PICK m \in S : Min(T) = n - m
  BY Zenon, <1>2
<1>4. \A x \in S : x <= m
  BY <1>2, <1>3
<1>5. \A y \in S : m >= y
  BY <1>4
<1> QED BY Zenon, <1>5 DEF Max

(* Min and Max of a single number.                                         *)
LEMMA MinSingleton ==
  ASSUME NEW x \in Int
  PROVE  Min({x}) = x /\ Max({x}) = x
  BY DEF Min, Max

(* The largest value of a bounded table is at some index, and              *)
(* maxDistanceFrameNum finds one: it returns a frame.                      *)
LEMMA MaxDistanceIsFrame ==
  ASSUME NEW n \in Nat, NEW distances \in [Frames -> 0 .. n]
  PROVE  /\ maxDistanceFrameNum(distances) \in Frames
         /\ \A g \in Frames :
              distances[g] <= distances[maxDistanceFrameNum(distances)]
<1> DEFINE D == {distances[f] : f \in Frames}
           A == {f \in Frames : \A g \in Frames : distances[g] <= distances[f]}
<1>1. 0 \in Frames
  BY SimulatorAssumption DEF Frames
<1>2. D \in SUBSET (0 .. n) /\ D # {}
  BY <1>1
<1> HIDE DEF D
<1>3. Max(D) \in D /\ \A x \in D : x <= Max(D)
  BY Zenon, <1>2, MaxProp
<1> USE DEF D
<1>4. PICK f \in Frames : distances[f] = Max(D)
  BY Zenon, <1>3
<1>5. f \in A
  BY <1>3, <1>4
<1>6. A \in SUBSET Nat
  BY SimulatorAssumption DEF Frames
<1> HIDE DEF D, A
<1>7. Min(A) \in A
  BY <1>5, <1>6, MinProp
<1> QED BY <1>7 DEF A, maxDistanceFrameNum

(* The slot after s on the ring.                                           *)
LEMMA NextSlotValue ==
  ASSUME NEW s \in Slots
  PROVE  /\ NextSlot(s) = IF s = totalFrame - 1 THEN 0 ELSE s + 1
         /\ NextSlot(s) \in Slots
<1>1. totalFrame \in Nat \ {0} /\ totalFrame >= 3
  BY SimulatorAssumption
<1>2. CASE s = totalFrame - 1
  BY <1>1, <1>2, ModWrap DEF NextSlot, Slots
<1>3. CASE s # totalFrame - 1
  BY <1>1, <1>3, ModSmall DEF NextSlot, Slots
<1> QED BY <1>2, <1>3

(* The first slot enqueue writes in an empty queue.                        *)
LEMMA NextSlotOfEmpty == NextSlot(-1) = 0
  BY SimulatorAssumption, ModSmall DEF NextSlot

(* How far slot s is behind front.                                         *)
LEMMA OffsetValue ==
  ASSUME NEW q, q.front \in Slots, NEW s \in Slots
  PROVE  Offset(q, s) = IF q.front <= s THEN s - q.front
                        ELSE s - q.front + totalFrame
<1>1. totalFrame \in Nat \ {0} /\ totalFrame >= 3
  BY SimulatorAssumption
<1>2. CASE q.front <= s
  <2>1. s - q.front + totalFrame \in totalFrame .. 2 * totalFrame - 1
    BY <1>1, <1>2 DEF Slots
  <2> QED BY <1>1, <1>2, <2>1, ModWrap DEF Offset, Slots
<1>3. CASE ~(q.front <= s)
  <2>1. s - q.front + totalFrame \in 0 .. totalFrame - 1
    BY <1>1, <1>3 DEF Slots
  <2> QED BY <1>1, <1>3, <2>1, ModSmall DEF Offset, Slots
<1> QED BY <1>2, <1>3

(* A virtual address splits into a page of the table and an offset, also   *)
(* the -1 of an entry that was never read: page 0, offset -1.              *)
LEMMA AddressSplit ==
  ASSUME NEW a \in -1 .. maxAddress
  PROVE  /\ Quotient(a, pageSizeByte) \in Pages
         /\ Remainder(a, pageSizeByte) \in -1 .. pageSizeByte - 1
<1>1. /\ pageSizeByte \in Nat \ {0} /\ pageSizeByte >= 2
      /\ totalPage \in Nat /\ totalPage >= 1
  BY SimulatorAssumption
<1>2. CASE a = -1
  <2>1. 1 \div pageSizeByte = 0
    BY <1>1
  <2> QED BY <1>1, <1>2, <2>1 DEF Quotient, Remainder, Pages
<1>3. CASE a # -1
  <2>1. a \in 0 .. totalPage * pageSizeByte - 1
    BY <1>1, <1>3 DEF maxAddress
  <2>2. /\ a \div pageSizeByte \in 0 .. totalPage - 1
        /\ a - pageSizeByte * (a \div pageSizeByte) \in 0 .. pageSizeByte - 1
    BY Zenon, <1>1, <2>1, DivRange
  <2>3. Quotient(a, pageSizeByte) = a \div pageSizeByte
    BY <1>3, <2>1 DEF Quotient
  <2> QED BY <1>1, <2>2, <2>3 DEF Remainder, Pages
<1> QED BY <1>2, <1>3

(* A frame and an offset give an address of physical memory.               *)
LEMMA PhysicalRange ==
  ASSUME NEW f \in Frames, NEW d \in -1 .. pageSizeByte - 1
  PROVE  f * pageSizeByte + d \in -1 .. totalFrame * pageSizeByte - 1
<1>1. pageSizeByte \in Nat /\ totalFrame \in Nat
  BY SimulatorAssumption
<1>2. f * pageSizeByte \in Nat
  BY <1>1 DEF Frames
<1>3. f * pageSizeByte <= (totalFrame - 1) * pageSizeByte
  BY <1>1 DEF Frames
<1>4. (totalFrame - 1) * pageSizeByte = totalFrame * pageSizeByte - pageSizeByte
  BY <1>1
<1>5. totalFrame * pageSizeByte \in Nat
  BY <1>1
<1> QED BY <1>1, <1>2, <1>3, <1>4, <1>5

-----------------------------------------------------------------------------
(* The mapping.                                                            *)

(* MappingInv of any page table and physical memory.                       *)
Mapping(table, mem) ==
  /\ \A p \in Pages :
       \/ table[p].pageNum = -1 /\ table[p].frameNum = -1
       \/ /\ table[p].pageNum = p /\ table[p].frameNum \in Frames
          /\ mem[table[p].frameNum].isOccupied = 1
  /\ \A p, r \in Pages :
       table[p].frameNum = table[r].frameNum
         => p = r \/ table[p].frameNum = -1
  /\ \A f \in Frames :
       IF mem[f].isOccupied = 1
       THEN mem[f].frameNum = f /\ \E p \in Pages : table[p].frameNum = f
       ELSE mem[f].frameNum = -1

(* MappingInv, before and after a step, as Mapping.                        *)
LEMMA MappingIs ==
  /\ MappingInv <=> Mapping(pageTable, frames)
  /\ MappingInv' <=> Mapping(pageTable', frames')
  BY DEF MappingInv, Mapping, Occupied

(* The two searches behind a row find the frame the page is in.            *)
LEMMA Lookup ==
  ASSUME NEW table \in [Pages -> PageEntry],
         NEW mem \in [Frames -> FrameEntry],
         Mapping(table, mem),
         NEW addr, NEW f \in Frames,
         Quotient(addr, pageSizeByte) \in Pages,
         table[Quotient(addr, pageSizeByte)].frameNum = f
  PROVE  /\ getFrameNumFromVA(addr, table) = f
         /\ getPhysicalAddressFromVA(addr, table, mem) = mem[f].physicalAddress
<1> DEFINE p  == Quotient(addr, pageSizeByte)
           js == {j \in Pages : table[j].pageNum = p}
           fs == {g \in Frames : mem[g].frameNum = f}
<1>1. p \in Int /\ f \in Int /\ f # -1
  BY SimulatorAssumption DEF Pages, Frames
<1>2. \A j \in Pages : table[j].pageNum = p <=> j = p
  BY <1>1 DEF Mapping, Pages
<1>3. js = {p}
  BY <1>2
<1>4. \A g \in Frames : mem[g].frameNum = f <=> g = f
  BY <1>1 DEF Mapping, Frames
<1>5. fs = {f}
  BY <1>4
<1> HIDE DEF p
<1>6. Min(js) = p /\ Max(js) = p /\ Min(fs) = f
  BY <1>1, <1>3, <1>5, MinSingleton
<1>7. table[p].frameNum = f
  BY DEF p
<1>8. getFrameNumFromVA(addr, table) = f
  BY <1>3, <1>6, <1>7 DEF getFrameNumFromVA, p
<1>9. getPhysicalAddressFromVA(addr, table, mem) = mem[f].physicalAddress
  <2>1. {g \in Frames : mem[g].frameNum = table[Max(js)].frameNum} = fs
    BY Zenon, <1>6, <1>7
  <2> QED BY Zenon, <1>3, <1>5, <1>6, <2>1 DEF getPhysicalAddressFromVA, p
<1> QED BY <1>8, <1>9

(* An occupied frame holds one page, and every search for it agrees.       *)
LEMMA PageOfFrame ==
  ASSUME TypeOK, MappingInv, NEW f \in Occupied
  PROVE  \E p \in Pages : /\ pageTable[p].frameNum = f /\ pageTable[p].pageNum = p
                          /\ \A r \in Pages : pageTable[r].frameNum = f => r = p
                          /\ pageNumFromFrame(f) = p
                          /\ pageNumforSearch(f) = p
<1>1. f \in Frames /\ f # -1 /\ frames[f].frameNum = f
  BY SimulatorAssumption DEF Occupied, Frames, MappingInv
<1>2. PICK p \in Pages : pageTable[p].frameNum = f
  BY <1>1 DEF MappingInv
<1>3. pageTable[p].pageNum = p
  BY <1>1, <1>2 DEF MappingInv
<1>4. \A r \in Pages : pageTable[r].frameNum = f => r = p
  BY <1>1, <1>2 DEF MappingInv
<1>5. {j \in Pages : pageTable[j].frameNum = frames[f].frameNum} = {p}
  BY <1>1, <1>2, <1>4
<1>6. Min({p}) = p /\ Max({p}) = p
  BY MinSingleton DEF Pages
<1>7. pageTable[Max({p})].pageNum = p /\ pageTable[Min({p})].pageNum = p
  BY <1>3, <1>6
<1>8. {p} # {}
  OBVIOUS
<1>9. pageNumFromFrame(f) = p
  BY Zenon, <1>5, <1>7, <1>8 DEF pageNumFromFrame
<1>10. pageNumforSearch(f) = p
  BY Zenon, <1>5, <1>7, <1>8 DEF pageNumforSearch
<1> QED BY <1>2, <1>3, <1>4, <1>9, <1>10

(* A reference hits exactly when the page table maps the current page.     *)
LEMMA HitIsResident ==
  ASSUME TypeOK, MappingInv, InfosInv, currentIndex \in Index
  PROVE  /\ pageNum \in Pages /\ offset \in -1 .. pageSizeByte - 1
         /\ infos[currentIndex].pageNum = pageNum
         /\ va \in -1 .. maxAddress
         /\ HitFrames = {} => pageTable[pageNum].frameNum = -1
         /\ HitFrames # {} => /\ Min(HitFrames) = pageTable[pageNum].frameNum
                              /\ Min(HitFrames) \in Occupied
                              /\ pageNumFromFrame(Min(HitFrames)) = pageNum
<1>1. va \in -1 .. maxAddress
  BY DEF TypeOK, AddressInfo, va
<1>2. pageNum \in Pages /\ offset \in -1 .. pageSizeByte - 1
  BY <1>1, AddressSplit DEF pageNum, offset
<1>3. infos[currentIndex].pageNum = pageNum
  BY DEF InfosInv, pageNum, va
<1>4. HitFrames \in SUBSET Occupied
  BY DEF HitFrames, Occupied
<1>5. \A f \in Occupied : f \in HitFrames <=> pageTable[pageNum].frameNum = f
  <2> TAKE f \in Occupied
  <2>1. PICK p \in Pages : /\ pageTable[p].frameNum = f
                           /\ \A r \in Pages : pageTable[r].frameNum = f => r = p
                           /\ pageNumFromFrame(f) = p
    BY PageOfFrame
  <2> QED BY <1>2, <1>3, <2>1 DEF HitFrames, Occupied
<1>6. pageTable[pageNum].frameNum = -1 \/ pageTable[pageNum].frameNum \in Occupied
  BY <1>2 DEF MappingInv
<1>7. ASSUME HitFrames # {}
      PROVE  /\ Min(HitFrames) = pageTable[pageNum].frameNum
             /\ Min(HitFrames) \in Occupied
             /\ pageNumFromFrame(Min(HitFrames)) = pageNum
  <2>1. PICK f \in HitFrames : TRUE
    BY <1>7
  <2>2. HitFrames = {f} /\ f \in Occupied /\ f = pageTable[pageNum].frameNum
    BY <1>4, <1>5, <2>1
  <2>3. Min({f}) = f
    BY <2>2, MinSingleton DEF Occupied, Frames
  <2>4. pageNumFromFrame(f) = pageNum
    BY <1>3, <2>1 DEF HitFrames
  <2> QED BY <2>2, <2>3, <2>4
<1> QED BY <1>1, <1>2, <1>3, <1>5, <1>6, <1>7

(* What a load does to the page table: the current page gets frame f, the  *)
(* page that had it loses it, and no other entry changes.                  *)
LoadedIn(f, bit) ==
  /\ pageTable'[pageNum] =
       [pageNum |-> pageNum, frameNum |-> f, referenceBit |-> bit]
  /\ \A j \in Pages : j # pageNum =>
       \/ /\ pageTable[j].frameNum = f
          /\ pageTable'[j].frameNum = -1 /\ pageTable'[j].pageNum = -1
       \/ pageTable[j].frameNum # f /\ pageTable'[j] = pageTable[j]

(* The page table after a load, with the entries of the old page cleared.  *)
LEMMA LoadRemaps ==
  ASSUME TypeOK, MappingInv, pageNum \in Pages,
         NEW f \in Frames, NEW bit, pageTable[pageNum].frameNum # f,
         pageTable' = Remapped(f, bit, StaleEntries(f))
  PROVE  LoadedIn(f, bit)
<1>1. pageTable \in [Pages -> PageEntry]
  BY DEF TypeOK
<1>2. \A j \in Pages :
        /\ pageTable'[j] =
             IF j = pageNum
             THEN [pageNum |-> pageNum, frameNum |-> f, referenceBit |-> bit]
             ELSE IF j \in StaleEntries(f)
                  THEN [pageTable[j] EXCEPT !.frameNum = -1, !.pageNum = -1]
                  ELSE pageTable[j]
  BY Zenon DEF Remapped
<1>3. f # -1 /\ -1 \notin Frames /\ -1 \notin Pages
  BY SimulatorAssumption DEF Frames, Pages
<1>4. ASSUME NEW j \in Pages, j # pageNum
      PROVE  \/ /\ pageTable[j].frameNum = f
                /\ pageTable'[j].frameNum = -1
                /\ pageTable'[j].pageNum = -1
             \/ /\ pageTable[j].frameNum # f
                /\ pageTable'[j] = pageTable[j]
  <2>1. CASE pageTable[j].frameNum = f
    <3>1. pageTable[j].pageNum # pageNum
      BY <1>3, <1>4, <2>1 DEF MappingInv
    <3>2. j \in StaleEntries(f)
      BY Zenon, <2>1, <3>1 DEF StaleEntries
    <3> QED BY Zenon, <1>1, <1>2, <1>4, <2>1, <3>2 DEF PageEntry
  <2>2. CASE pageTable[j].frameNum # f
    BY Zenon, <1>2, <1>4, <2>2 DEF StaleEntries
  <2> QED BY <2>1, <2>2
<1>5. pageTable'[pageNum] =
        [pageNum |-> pageNum, frameNum |-> f, referenceBit |-> bit]
  BY Zenon, <1>2
<1> QED BY Zenon, <1>4, <1>5 DEF LoadedIn

(* Putting an unmapped page into frame f and clearing what f held keeps    *)
(* the two tables consistent.                                              *)
LEMMA LoadKeepsMapping ==
  ASSUME TypeOK, MappingInv, InfosInv, currentIndex \in Index,
         pageTable[pageNum].frameNum = -1,
         NEW f \in Frames, NEW bit \in {0, 1},
         LoadFrame(f), pageTable' = Remapped(f, bit, StaleEntries(f))
  PROVE  /\ infos' = infos
         /\ pageTable' \in [Pages -> PageEntry]
         /\ frames' \in [Frames -> FrameEntry]
         /\ MappingInv'
         /\ pageTable'[pageNum].frameNum = f
         /\ frames'[f].physicalAddress = f * pageSizeByte + offset
         /\ Occupied' = Occupied \union {f}
         /\ FreeFrames' = FreeFrames \ {f}
<1>1. /\ pageNum \in Pages /\ offset \in -1 .. pageSizeByte - 1
      /\ infos[currentIndex].pageNum = pageNum
  BY HitIsResident
<1>2. f * pageSizeByte + offset \in -1 .. totalFrame * pageSizeByte - 1
  BY <1>1, PhysicalRange
<1>3. infos' = infos
  BY <1>1 DEF LoadFrame, TypeOK, AddressInfo
<1>4. frames' = [frames EXCEPT ![f] =
                   [isOccupied |-> 1, frameNum |-> f,
                    physicalAddress |-> f * pageSizeByte + offset]]
  BY DEF LoadFrame
<1>5. frames \in [Frames -> FrameEntry] /\ pageTable \in [Pages -> PageEntry]
  BY DEF TypeOK
<1> DEFINE entry == [isOccupied |-> 1, frameNum |-> f,
                     physicalAddress |-> f * pageSizeByte + offset]
<1>6. entry \in FrameEntry
  BY <1>2 DEF FrameEntry
<1>7. frames' \in [Frames -> FrameEntry]
  BY <1>4, <1>5, <1>6
<1>8. /\ frames'[f].isOccupied = 1 /\ frames'[f].frameNum = f
      /\ frames'[f].physicalAddress = f * pageSizeByte + offset
      /\ \A g \in Frames : g # f => frames'[g] = frames[g]
  <2>1. frames'[f] = entry /\ \A g \in Frames : g # f => frames'[g] = frames[g]
    BY Zenon, <1>4, <1>5
  <2> QED BY <2>1
<1>9. \A j \in Pages :
        /\ pageTable'[j] =
             IF j = pageNum
             THEN [pageNum |-> pageNum, frameNum |-> f, referenceBit |-> bit]
             ELSE IF j \in StaleEntries(f)
                  THEN [pageTable[j] EXCEPT !.frameNum = -1, !.pageNum = -1]
                  ELSE pageTable[j]
  BY Zenon DEF Remapped
<1>10. \A j \in Pages :
         /\ pageTable[j] \in PageEntry
         /\ [pageTable[j] EXCEPT !.frameNum = -1, !.pageNum = -1] \in PageEntry
  BY Zenon, <1>5 DEF PageEntry
<1>11. [pageNum |-> pageNum, frameNum |-> f, referenceBit |-> bit] \in PageEntry
  BY <1>1 DEF PageEntry
<1>12. pageTable' \in [Pages -> PageEntry]
  BY Zenon, <1>9, <1>10, <1>11 DEF Remapped
<1>13. f # -1 /\ -1 \notin Frames /\ -1 \notin Pages
  BY SimulatorAssumption DEF Frames, Pages
<1>14. \A j \in Pages : j # pageNum =>
         \/ pageTable[j].frameNum = f /\ pageTable'[j].frameNum = -1
                                      /\ pageTable'[j].pageNum = -1
         \/ pageTable[j].frameNum # f /\ pageTable'[j] = pageTable[j]
  BY ZenonT(60), <1>1, <1>13, LoadRemaps DEF LoadedIn
<1>15. pageTable'[pageNum].frameNum = f /\ pageTable'[pageNum].pageNum = pageNum
  <2>1. pageTable'[pageNum] =
          [pageNum |-> pageNum, frameNum |-> f, referenceBit |-> bit]
    BY Zenon, <1>1, <1>9
  <2> QED BY <2>1
<1>16. Occupied' = Occupied \union {f}
  BY <1>8 DEF Occupied
<1>17. FreeFrames' = FreeFrames \ {f}
  BY <1>8 DEF FreeFrames
<1>18. MappingInv'
  <2>1. Mapping(pageTable, frames)
    BY Zenon, MappingIs
  <2>2. \A p \in Pages :
          \/ pageTable'[p].pageNum = -1 /\ pageTable'[p].frameNum = -1
          \/ /\ pageTable'[p].pageNum = p /\ pageTable'[p].frameNum \in Frames
             /\ frames'[pageTable'[p].frameNum].isOccupied = 1
    BY <1>8, <1>14, <1>15, <2>1 DEF Mapping
  <2>3. \A p, r \in Pages :
          pageTable'[p].frameNum = pageTable'[r].frameNum
            => p = r \/ pageTable'[p].frameNum = -1
    BY <1>13, <1>14, <1>15, <2>1 DEF Mapping
  <2>4. ASSUME NEW g \in Frames
        PROVE  IF frames'[g].isOccupied = 1
               THEN /\ frames'[g].frameNum = g
                    /\ \E p \in Pages : pageTable'[p].frameNum = g
               ELSE frames'[g].frameNum = -1
    <3>1. CASE g = f
      BY <1>1, <1>8, <1>15, <3>1
    <3>2. CASE g # f
      <4>1. CASE frames[g].isOccupied = 1
        <5>1. PICK p \in Pages : pageTable[p].frameNum = g
          BY <2>1, <4>1 DEF Mapping
        <5>2. p # pageNum /\ pageTable'[p].frameNum = g
          BY Zenon, <1>13, <1>14, <3>2, <5>1
        <5> QED BY <1>8, <2>1, <3>2, <4>1, <5>2 DEF Mapping
      <4>2. CASE frames[g].isOccupied # 1
        BY ZenonT(60), <1>8, <2>1, <3>2, <4>2 DEF Mapping
      <4> QED BY <4>1, <4>2
    <3> QED BY <3>1, <3>2
  <2>5. Mapping(pageTable', frames')
    BY <2>2, <2>3, <2>4 DEF Mapping
  <2> QED BY <2>5, MappingIs
<1> QED BY <1>3, <1>7, <1>8, <1>12, <1>15, <1>16, <1>17, <1>18

(* The row written for a reference whose page is now in frame f.           *)
LEMMA RecordedRow ==
  ASSUME TypeOK, MappingInv, InfosInv, RowsTranslate, currentIndex \in Index,
         infos' = infos, MappingInv',
         pageTable' \in [Pages -> PageEntry],
         frames' \in [Frames -> FrameEntry],
         NEW f \in Frames, pageTable'[pageNum].frameNum = f,
         frames'[f].physicalAddress = f * pageSizeByte + offset,
         NEW result \in {0, 1}, Record(result)
  PROVE  /\ output' \in Seq(Row) /\ RowsTranslate'
         /\ pageHits' \in Nat /\ pageFaults' \in Nat
         /\ total' \in Nat \union {-1}
         /\ currentIndex' \in 0 .. NUM_ADDRESSES
         /\ algorithm' = algorithm
         /\ output' = Append(output,
              [virtualAddress |-> va, pageNum |-> pageNum, frameNum |-> f,
               physicalAddress |-> f * pageSizeByte + offset,
               pageFault |-> IF result = 1 THEN "H" ELSE "F"])
<1>1. /\ pageNum \in Pages /\ offset \in -1 .. pageSizeByte - 1
      /\ infos[currentIndex].pageNum = pageNum
      /\ va \in -1 .. maxAddress
  BY HitIsResident
<1>2. Quotient(va, pageSizeByte) = pageNum /\ Remainder(va, pageSizeByte) = offset
  BY DEF pageNum, offset
<1>3. Mapping(pageTable', frames')
  BY MappingIs
<1>4. /\ getFrameNumFromVA(va, pageTable') = f
      /\ getPhysicalAddressFromVA(va, pageTable', frames')
           = f * pageSizeByte + offset
  BY <1>1, <1>2, <1>3, Lookup
<1> DEFINE row == [virtualAddress |-> va, pageNum |-> pageNum, frameNum |-> f,
                   physicalAddress |-> f * pageSizeByte + offset,
                   pageFault |-> IF result = 1 THEN "H" ELSE "F"]
<1>5. output' = Append(output, row)
  BY <1>1, <1>4 DEF Record
<1>6. f * pageSizeByte + offset \in -1 .. totalFrame * pageSizeByte - 1
  BY <1>1, PhysicalRange
<1>7. row \in Row
  BY <1>1, <1>6 DEF Row
<1>8. /\ row.frameNum = f /\ row.virtualAddress = va
      /\ row.physicalAddress = f * pageSizeByte + offset
  OBVIOUS
<1>9. output \in Seq(Row)
  BY DEF TypeOK
<1> HIDE DEF row
<1>10. output' \in Seq(Row)
  BY <1>5, <1>7, <1>9
<1>11. RowsTranslate'
  <2> SUFFICES ASSUME NEW n \in 1 .. Len(output')
               PROVE  output'[n].physicalAddress =
                        output'[n].frameNum * pageSizeByte
                          + Remainder(output'[n].virtualAddress, pageSizeByte)
    BY DEF RowsTranslate
  <2>1. CASE n = Len(output) + 1
    <3>1. output'[n] = row
      BY <1>5, <1>7, <1>9, <2>1
    <3> QED BY <1>2, <1>8, <3>1
  <2>2. CASE n # Len(output) + 1
    <3>1. n \in 1 .. Len(output) /\ output'[n] = output[n]
      BY <1>5, <1>7, <1>9, <2>2
    <3> QED BY <3>1 DEF RowsTranslate
  <2> QED BY <2>1, <2>2
<1>12. /\ pageHits' \in Nat /\ pageFaults' \in Nat
       /\ total' \in Nat \union {-1}
  BY DEF Record, TypeOK
<1>13. currentIndex' \in 0 .. NUM_ADDRESSES
  BY SimulatorAssumption DEF Record, Index
<1> QED BY <1>5, <1>10, <1>11, <1>12, <1>13 DEF Record, row

(* A hit changes the frame's physical address, and at most reference bits  *)
(* of the page table.                                                      *)
LEMMA TouchKeepsMapping ==
  ASSUME TypeOK, MappingInv, InfosInv, currentIndex \in Index,
         HitFrames # {}, TouchFrame,
         pageTable' \in [Pages -> PageEntry],
         \A j \in Pages : /\ pageTable'[j].frameNum = pageTable[j].frameNum
                          /\ pageTable'[j].pageNum = pageTable[j].pageNum
  PROVE  /\ frames' \in [Frames -> FrameEntry]
         /\ MappingInv'
         /\ Min(HitFrames) \in Frames
         /\ pageTable'[pageNum].frameNum = Min(HitFrames)
         /\ frames'[Min(HitFrames)].physicalAddress =
              Min(HitFrames) * pageSizeByte + offset
         /\ Occupied' = Occupied /\ FreeFrames' = FreeFrames
<1> DEFINE f == Min(HitFrames)
<1>1. /\ pageNum \in Pages /\ offset \in -1 .. pageSizeByte - 1
      /\ f = pageTable[pageNum].frameNum
      /\ f \in Frames
  BY HitIsResident DEF Occupied
<1>2. frames' = [frames EXCEPT ![f].physicalAddress = f * pageSizeByte + offset]
  BY DEF TouchFrame
<1> HIDE DEF f
<1>3. f * pageSizeByte + offset \in -1 .. totalFrame * pageSizeByte - 1
  BY <1>1, PhysicalRange
<1>4. frames \in [Frames -> FrameEntry]
  BY DEF TypeOK
<1>5. frames' \in [Frames -> FrameEntry]
  BY ZenonT(60), <1>1, <1>2, <1>3, <1>4 DEF FrameEntry
<1>6. \A g \in Frames : /\ frames'[g].isOccupied = frames[g].isOccupied
                        /\ frames'[g].frameNum = frames[g].frameNum
  BY <1>1, <1>2, <1>4 DEF FrameEntry
<1>7. frames'[f].physicalAddress = f * pageSizeByte + offset
  BY <1>1, <1>2, <1>4 DEF FrameEntry
<1>8. Occupied' = Occupied /\ FreeFrames' = FreeFrames
  BY Zenon, <1>6 DEF Occupied, FreeFrames
<1>9. MappingInv'
  BY <1>6, MappingIs DEF Mapping
<1> QED BY <1>1, <1>5, <1>7, <1>8, <1>9 DEF f

-----------------------------------------------------------------------------
(* The ring of frames as the four algorithms use it: filling, turning by   *)
(* one slot, taking a frame in hand and giving it back, and Optimal's      *)
(* removal from the middle.                                                *)

QueueType == [items : [Slots -> Int], front : Slots \union {-1},
              rear : Slots \union {-1}]

(* enqueue on a ring that is neither empty nor full.                       *)
LEMMA EnqueueOnRing ==
  ASSUME NEW q \in QueueType, q.front \in Slots, q.rear \in Slots,
         NextSlot(q.rear) # q.front, NEW v \in Int
  PROVE  /\ enqueue(q, v) \in QueueType
         /\ enqueue(q, v).items = [q.items EXCEPT ![NextSlot(q.rear)] = v]
         /\ enqueue(q, v).front = q.front
         /\ enqueue(q, v).rear = NextSlot(q.rear)
<1>1. NextSlot(q.rear) \in Slots
  BY NextSlotValue
<1>2. ~isFull(q) /\ ~isEmpty(q)
  BY SimulatorAssumption DEF isFull, isEmpty, Slots
<1>3. enqueue(q, v) = [items |-> [q.items EXCEPT ![NextSlot(q.rear)] = v],
                       front |-> q.front, rear |-> NextSlot(q.rear)]
  BY <1>2 DEF enqueue
<1>4. [q.items EXCEPT ![NextSlot(q.rear)] = v] \in [Slots -> Int]
  BY <1>1 DEF QueueType
<1> QED BY <1>1, <1>3, <1>4 DEF QueueType

(* dequeue on a ring with more than one element.                           *)
LEMMA DequeueOnRing ==
  ASSUME NEW q \in QueueType, q.front \in Slots, q.rear \in Slots,
         q.front # q.rear
  PROVE  /\ dequeuedItem(q) = q.items[q.front]
         /\ dequeue(q) \in QueueType
         /\ dequeue(q).items = q.items
         /\ dequeue(q).front = NextSlot(q.front)
         /\ dequeue(q).rear = q.rear
<1>1. NextSlot(q.front) \in Slots
  BY NextSlotValue
<1>2. ~isEmpty(q)
  BY SimulatorAssumption DEF isEmpty, Slots
<1>3. dequeue(q) = [q EXCEPT !.front = NextSlot(q.front)]
  BY <1>2 DEF dequeue
<1> QED BY <1>1, <1>2, <1>3 DEF QueueType, dequeuedItem

(* Taking the frame at the front of a full ring leaves a gap.              *)
LEMMA TakeFront ==
  ASSUME NEW q \in QueueType, FullRing(q)
  PROVE  /\ dequeuedItem(q) \in Frames /\ dequeuedItem(q) = q.front
         /\ dequeue(q) \in QueueType
         /\ GapRing(dequeue(q), dequeuedItem(q))
<1> DEFINE v == q.front
<1>1. /\ v \in Slots /\ q.rear \in Slots /\ NextSlot(q.rear) = v
      /\ \A s \in Slots : q.items[s] = s
  BY DEF FullRing
<1>2. q.rear # v /\ NextSlot(v) \in Slots
  BY <1>1, NextSlotValue, SimulatorAssumption DEF Slots
<1>3. v \in Frames
  BY <1>1 DEF Slots, Frames
<1>4. /\ dequeuedItem(q) = v /\ dequeue(q) \in QueueType
      /\ dequeue(q).items = q.items
      /\ dequeue(q).front = NextSlot(v) /\ dequeue(q).rear = q.rear
  BY Zenon, <1>1, <1>2, DequeueOnRing
<1> QED BY <1>1, <1>2, <1>3, <1>4 DEF GapRing

(* Queueing the missing frame closes the gap.                              *)
LEMMA GiveBack ==
  ASSUME NEW q \in QueueType, NEW v \in Frames, GapRing(q, v)
  PROVE  /\ enqueue(q, v) \in QueueType /\ FullRing(enqueue(q, v))
         /\ enqueue(q, v).front = q.front
<1>1. v \in Slots /\ v \in Int
  BY SimulatorAssumption DEF Frames, Slots
<1>2. /\ q.front \in Slots /\ q.rear \in Slots
      /\ NextSlot(q.rear) = v /\ NextSlot(v) = q.front
      /\ \A s \in Slots : q.items[s] = s
  BY DEF GapRing
<1>3. NextSlot(v) # v
  BY <1>1, NextSlotValue, SimulatorAssumption DEF Slots
<1>4. /\ enqueue(q, v) \in QueueType
      /\ enqueue(q, v).items = [q.items EXCEPT ![v] = v]
      /\ enqueue(q, v).front = q.front
      /\ enqueue(q, v).rear = v
  BY Zenon, <1>1, <1>2, <1>3, EnqueueOnRing
<1>5. \A s \in Slots : enqueue(q, v).items[s] = s
  BY Zenon, <1>1, <1>2, <1>4 DEF QueueType
<1> QED BY <1>1, <1>2, <1>4, <1>5 DEF FullRing

(* The frames are numbered from 0 as they fill, and the last one closes    *)
(* the ring.                                                               *)
LEMMA FillQueue ==
  ASSUME TypeOK, FreeFrames # {}, FillingShape
  PROVE  LET f == Min(FreeFrames)
             q == enqueue(pageQueue, f)
         IN  /\ f \in FreeFrames /\ f = pageQueue.rear + 1
             /\ q \in QueueType
             /\ q.front = 0 /\ q.rear = f
             /\ \A s \in 0 .. f : q.items[s] = s
<1> DEFINE f == Min(FreeFrames)
           q == enqueue(pageQueue, f)
           r == pageQueue.rear
<1>1. FreeFrames \in SUBSET Nat
  BY SimulatorAssumption DEF FreeFrames, Frames
<1>2. f \in FreeFrames /\ \A g \in FreeFrames : f <= g
  BY <1>1, MinProp
<1>3. Occupied = Frames \ FreeFrames
  BY DEF TypeOK, Occupied, FreeFrames, FrameEntry
<1>4. /\ pageQueue \in QueueType /\ pageQueue.rear \in Slots \union {-1}
      /\ pageQueue.items \in [Slots -> Int]
  BY DEF TypeOK, QueueType
<1>5. r \in -1 .. totalFrame - 2
  BY <1>4, SimulatorAssumption DEF FillingShape, Slots
<1>6. r + 1 \in FreeFrames
  BY <1>3, <1>5, SimulatorAssumption DEF FillingShape, Frames
<1> HIDE DEF f
<1>7. f \notin Occupied /\ f \in Frames
  BY <1>2, <1>3 DEF FreeFrames
<1>8. f = r + 1
  BY <1>2, <1>5, <1>6, <1>7 DEF FillingShape, Frames
<1>9. CASE r = -1
  <2>1. pageQueue.front = -1
    BY <1>9 DEF FillingShape
  <2>2. ~isFull(pageQueue) /\ isEmpty(pageQueue)
    BY <1>9, <2>1, NextSlotOfEmpty DEF isFull, isEmpty
  <2>3. q = [items |-> [pageQueue.items EXCEPT ![0] = f],
             front |-> 0, rear |-> 0]
    BY <1>9, <2>2, NextSlotOfEmpty DEF enqueue
  <2>4. f = 0 /\ 0 \in Slots
    BY <1>8, <1>9, SimulatorAssumption DEF Slots
  <2>5. q \in QueueType
    BY <1>4, <2>3, <2>4 DEF QueueType
  <2> QED BY <1>2, <1>4, <1>8, <2>3, <2>4, <2>5 DEF f
<1>10. CASE r # -1
  <2>1. /\ r \in Slots /\ pageQueue.front = 0 /\ 0 \in Slots
        /\ NextSlot(r) = f /\ f # 0 /\ f \in Slots /\ f \in Int
    BY <1>5, <1>8, <1>10, NextSlotValue, SimulatorAssumption
       DEF FillingShape, Slots
  <2>2. /\ q \in QueueType /\ q.items = [pageQueue.items EXCEPT ![f] = f]
        /\ q.front = 0 /\ q.rear = f
    BY <1>4, <2>1, EnqueueOnRing
  <2>3. \A s \in 0 .. f : q.items[s] = s
    <3> TAKE s \in 0 .. f
    <3>1. s \in Slots
      BY <2>1, SimulatorAssumption DEF Slots
    <3>2. s # f => pageQueue.items[s] = s
      BY <1>5, <1>8 DEF FillingShape
    <3> QED BY <1>4, <2>1, <2>2, <3>1, <3>2
  <2> QED BY <1>2, <1>8, <2>2, <2>3 DEF f
<1> QED BY <1>9, <1>10

(* In Optimal's full queue a frame is found at its position.               *)
LEMMA PermutedPositions ==
  ASSUME NEW q \in QueueType, Permuted(q)
  PROVE  /\ Live(q) = Slots
         /\ \A s \in Slots : Offset(q, s) = s
         /\ \A f \in Frames : /\ findPositionInQueue(q, f) \in Slots
                              /\ q.items[findPositionInQueue(q, f)] = f
<1>1. q.front \in Slots /\ q.front = 0 /\ q.rear \in Slots /\ q.rear = totalFrame - 1
  BY SimulatorAssumption DEF Permuted, Slots
<1>2. \A s \in Slots : Offset(q, s) = s
  BY <1>1, OffsetValue DEF Slots
<1>3. Live(q) = Slots
  <2>1. \A s \in Slots : Offset(q, s) <= Offset(q, q.rear)
    BY <1>1, <1>2, SimulatorAssumption DEF Slots
  <2>2. ~isEmpty(q)
    BY <1>1 DEF isEmpty
  <2> QED BY <2>1, <2>2 DEF Live
<1>4. ASSUME NEW f \in Frames
      PROVE  /\ findPositionInQueue(q, f) \in Slots
             /\ q.items[findPositionInQueue(q, f)] = f
  <2> DEFINE found == {s \in Live(q) : q.items[s] = f}
  <2>1. PICK s \in Slots : q.items[s] = f
    BY DEF Permuted
  <2>2. found = {s}
    BY <1>3, <2>1 DEF Permuted
  <2>3. findPositionInQueue(q, f) =
          CHOOSE t \in found : \A u \in found : Offset(q, t) <= Offset(q, u)
    BY <2>2 DEF findPositionInQueue
  <2>4. Offset(q, s) <= Offset(q, s)
    BY <1>2 DEF Slots
  <2>5. (CHOOSE t \in found : \A u \in found : Offset(q, t) <= Offset(q, u)) = s
    BY ZenonT(60), <2>2, <2>4
  <2> QED BY Zenon, <2>1, <2>3, <2>5
<1> QED BY <1>2, <1>3, <1>4

(* Queue e is queue q with frame f moved to the tail.                      *)
Requeued(q, e, f) ==
  \E pos \in Slots :
    /\ q.items[pos] = f
    /\ \A s \in Slots :
         e.items[s] = IF s = totalFrame - 1 THEN f
                      ELSE IF pos <= s THEN q.items[s + 1] ELSE q.items[s]

(* Optimal takes the victim out of the middle and puts it at the tail.     *)
LEMMA OptimalRequeues ==
  ASSUME NEW q \in QueueType, Permuted(q), NEW f \in Frames
  PROVE  LET e == enqueue(removeFrameFromQueue(q, f), f)
         IN  e \in QueueType /\ Permuted(e) /\ Requeued(q, e, f)
<1> DEFINE pos     == findPositionInQueue(q, f)
           last    == totalFrame - 1
           shifted == [s \in Slots |->
                         IF s = last THEN -1
                         ELSE IF pos <= s THEN q.items[s + 1] ELSE q.items[s]]
           d       == [items |-> shifted, front |-> 0, rear |-> totalFrame - 2]
           e       == enqueue(d, f)
<1>1. /\ totalFrame \in Nat /\ totalFrame >= 3
  BY SimulatorAssumption
<1>2. /\ q.front = 0 /\ q.rear = last
      /\ \A s \in Slots : q.items[s] \in Frames
      /\ \A s, t \in Slots : q.items[s] = q.items[t] => s = t
      /\ \A g \in Frames : \E s \in Slots : q.items[s] = g
  BY DEF Permuted
<1>3. /\ pos \in Slots /\ q.items[pos] = f
      /\ \A s \in Slots : Offset(q, s) = s
  BY PermutedPositions
<1>4. last \in Slots /\ pos # -1
  BY <1>1, <1>3 DEF Slots
<1> HIDE DEF pos
<1>5. (q.rear - 1 + totalFrame) % totalFrame = totalFrame - 2
  <2>1. q.rear - 1 + totalFrame \in totalFrame .. 2 * totalFrame - 1
    BY <1>1, <1>2
  <2> QED BY SMTT(60), <1>1, <1>2, <2>1, ModWrap
<1>6. [s \in Slots |->
         IF s = q.rear THEN -1
         ELSE IF /\ Offset(q, pos) <= Offset(q, s)
                 /\ Offset(q, s) < Offset(q, q.rear)
              THEN q.items[NextSlot(s)] ELSE q.items[s]] = shifted
  <2>1. ASSUME NEW s \in Slots, s # last
        PROVE  /\ (Offset(q, pos) <= Offset(q, s)
                    /\ Offset(q, s) < Offset(q, q.rear)) <=> pos <= s
               /\ NextSlot(s) = s + 1
    BY <1>1, <1>2, <1>3, <1>4, <2>1, NextSlotValue DEF Slots
  <2> QED BY <1>2, <2>1
<1>7. removeFrameFromQueue(q, f) = d
  <2>1. totalFrame - 2 # 0
    BY <1>1
  <2> QED BY Zenon, <1>2, <1>4, <1>5, <1>6, <2>1 DEF removeFrameFromQueue, pos
<1>8. \A s \in Slots : s # last => s + 1 \in Slots
  BY <1>1 DEF Slots
<1>9. shifted \in [Slots -> Int]
  <2>1. \A s \in Slots : q.items[s] \in Int
    BY Zenon DEF QueueType
  <2> QED BY <1>8, <2>1
<1>10. /\ d \in QueueType /\ d.front \in Slots /\ d.rear \in Slots
       /\ d.items = shifted /\ d.front = 0 /\ d.rear = totalFrame - 2
       /\ f \in Int
  BY <1>1, <1>9 DEF QueueType, Slots, Frames
<1> HIDE DEF d
<1>11. NextSlot(d.rear) = last /\ last # 0
  BY <1>1, <1>10, NextSlotValue DEF Slots
<1>12. /\ e \in QueueType /\ e.items = [shifted EXCEPT ![last] = f]
       /\ e.front = 0 /\ e.rear = last
  <2> HIDE DEF shifted, last
  <2>1. /\ enqueue(d, f) \in QueueType
        /\ enqueue(d, f).items = [d.items EXCEPT ![NextSlot(d.rear)] = f]
        /\ enqueue(d, f).front = d.front
        /\ enqueue(d, f).rear = NextSlot(d.rear)
    BY Zenon, <1>10, <1>11, EnqueueOnRing
  <2> QED BY <1>10, <1>11, <2>1
<1> HIDE DEF e
<1>13. \A s \in Slots :
         e.items[s] = IF s = last THEN f
                      ELSE IF pos <= s THEN q.items[s + 1] ELSE q.items[s]
  BY <1>4, <1>12
<1>14. \A s \in Slots : e.items[s] \in Frames
  BY ZenonT(60), <1>2, <1>8, <1>13
<1>15. \A s, t \in Slots : e.items[s] = e.items[t] => s = t
  BY <1>1, <1>2, <1>3, <1>8, <1>13 DEF Slots
<1>16. \A g \in Frames : \E s \in Slots : e.items[s] = g
  <2> TAKE g \in Frames
  <2>1. PICK s \in Slots : q.items[s] = g
    BY <1>2
  <2>2. CASE s = pos
    BY ZenonT(60), <1>3, <1>4, <1>13, <2>1, <2>2
  <2>3. CASE s > pos
    <3>1. s - 1 \in Slots /\ s - 1 # last /\ pos <= s - 1 /\ (s - 1) + 1 = s
      BY <1>1, <1>3, <2>3 DEF Slots
    <3> QED BY <1>13, <2>1, <3>1
  <2>4. CASE s < pos
    <3>1. s # last /\ ~(pos <= s)
      BY <1>1, <1>3, <2>4 DEF Slots
    <3> QED BY <1>13, <2>1, <3>1
  <2> QED BY <1>3, <2>2, <2>3, <2>4 DEF Slots
<1>17. Permuted(e)
  BY Zenon, <1>12, <1>14, <1>15, <1>16 DEF Permuted
<1>18. Requeued(q, e, f)
  BY Zenon, <1>3, <1>13 DEF Requeued
<1> QED BY <1>7, <1>12, <1>17, <1>18 DEF e

-----------------------------------------------------------------------------
(* The victims.                                                            *)

(* LRU's distances lie between 0 and NUM_ADDRESSES.                        *)
LEMMA LastUseBounded ==
  ASSUME currentIndex \in Index
  PROVE  LastUseDistances \in [Frames -> 0 .. NUM_ADDRESSES]
<1> SUFFICES ASSUME NEW f \in Frames
             PROVE  LastUseDistances[f] \in 0 .. NUM_ADDRESSES
  BY DEF LastUseDistances
<1> DEFINE uses == {j \in 0 .. currentIndex :
                      infos[j].pageNum = pageNumforSearch(f)}
<1>1. /\ NUM_ADDRESSES \in Nat
      /\ currentIndex \in Nat /\ currentIndex < NUM_ADDRESSES
  BY SimulatorAssumption DEF Index
<1>2. LastUseDistances[f] =
        IF uses # {} THEN currentIndex - Max(uses)
        ELSE IF currentIndex = NUM_ADDRESSES - 1 THEN NUM_ADDRESSES ELSE 0
  BY DEF LastUseDistances
<1>3. uses \in SUBSET (0 .. currentIndex)
  OBVIOUS
<1> HIDE DEF uses
<1>4. uses # {} => Max(uses) \in 0 .. currentIndex
  BY Zenon, <1>1, <1>3, MaxProp
<1> QED BY <1>1, <1>2, <1>4

(* Optimal's distances lie between 0 and NUM_ADDRESSES.                    *)
LEMMA NextUseBounded ==
  ASSUME currentIndex \in Index
  PROVE  NextUseDistances \in [Frames -> 0 .. NUM_ADDRESSES]
<1> SUFFICES ASSUME NEW f \in Frames
             PROVE  NextUseDistances[f] \in 0 .. NUM_ADDRESSES
  BY DEF NextUseDistances
<1> DEFINE uses == {j \in currentIndex .. NUM_ADDRESSES - 1 :
                      infos[j].pageNum = pageNumforSearch(f)}
<1>1. /\ NUM_ADDRESSES \in Nat
      /\ currentIndex \in Nat /\ currentIndex < NUM_ADDRESSES
  BY SimulatorAssumption DEF Index
<1>2. NextUseDistances[f] =
        IF uses = {} THEN NUM_ADDRESSES ELSE Min(uses) - currentIndex
  BY DEF NextUseDistances
<1>3. /\ uses \in SUBSET (currentIndex .. NUM_ADDRESSES - 1)
      /\ uses \in SUBSET Nat
  BY <1>1
<1> HIDE DEF uses
<1>4. uses # {} => Min(uses) \in currentIndex .. NUM_ADDRESSES - 1
  BY Zenon, <1>3, MinProp
<1> QED BY <1>1, <1>2, <1>4

(* No page is used later than the one in frame v, and of the pages that    *)
(* are not used again v's comes first in the queue.                        *)
BestVictim(v) ==
  \A g \in Frames :
    /\ NextUseDistances[g] <= NextUseDistances[v]
    /\ NextUseDistances[g] = NUM_ADDRESSES
         => findPositionInQueue(pageQueue, v) <= findPositionInQueue(pageQueue, g)

(* With every frame queued, Optimal's tie-break always names a frame: the  *)
(* -1 it starts from never reaches the tables.                             *)
LEMMA OptimalVictimIsFrame ==
  ASSUME currentIndex \in Index, pageQueue \in QueueType, Permuted(pageQueue)
  PROVE  OptimalVictim \in Frames /\ BestVictim(OptimalVictim)
<1> DEFINE d         == NextUseDistances
           notAppear == {f \in Frames : d[f] = NUM_ADDRESSES}
           pos(f)    == findPositionInQueue(pageQueue, f)
           queued    == {f \in Frames : d[f] = NUM_ADDRESSES /\ pos(f) # -1}
           first     == {f \in queued : \A g \in queued : pos(f) <= pos(g)}
<1>1. CASE \E f, g \in notAppear : f # g
  <2>1. PICK h \in Frames : d[h] = NUM_ADDRESSES
    BY <1>1
  <2>2. \A f \in Frames : pos(f) \in Nat /\ pos(f) # -1
    BY PermutedPositions, SimulatorAssumption DEF Slots
  <2>3. h \in queued
    BY <2>1, <2>2
  <2> DEFINE P == {pos(f) : f \in queued}
  <2>4. P \in SUBSET Nat
    BY <2>2
  <2>5. P # {}
    BY <2>3
  <2>6. Min(P) \in P /\ \A x \in P : Min(P) <= x
    BY Zenon, <2>4, <2>5, MinProp
  <2>7. PICK f \in queued : pos(f) = Min(P)
    BY Zenon, <2>6
  <2>8. f \in first
    BY Zenon, <2>6, <2>7
  <2>9. first \in SUBSET Nat /\ first \in SUBSET Frames
    BY SimulatorAssumption DEF Frames
  <2> HIDE DEF first
  <2>10. Min(first) \in Frames /\ Min(first) \in first
    BY Zenon, <2>8, <2>9, MinProp
  <2>11. OptimalVictim = firstOutFrameNum(NextUseDistances)
    BY <1>1 DEF OptimalVictim
  <2>12. firstOutFrameNum(NextUseDistances) = Min(first)
    BY <2>3 DEF firstOutFrameNum, first
  <2>13. PICK v \in Frames : v = OptimalVictim /\ v \in first
    BY Zenon, <2>10, <2>11, <2>12
  <2>14. /\ d[v] = NUM_ADDRESSES
         /\ \A g \in Frames : d[g] = NUM_ADDRESSES => pos(v) <= pos(g)
    BY ZenonT(60), <2>2, <2>13 DEF first
  <2>15. \A g \in Frames : d[g] <= d[v]
    <3>1. \A g \in Frames : d[g] \in 0 .. NUM_ADDRESSES
      BY Zenon, NextUseBounded
    <3> QED BY <2>14, <3>1, SimulatorAssumption
  <2> QED BY Zenon, <2>13, <2>14, <2>15 DEF BestVictim
<1>2. CASE ~ \E f, g \in notAppear : f # g
  <2>1. OptimalVictim = maxDistanceFrameNum(NextUseDistances)
    BY <1>2 DEF OptimalVictim
  <2>2. PICK v \in Frames : /\ v = OptimalVictim
                            /\ \A g \in Frames : d[g] <= d[v]
    BY Zenon, <2>1, NextUseBounded, MaxDistanceIsFrame, SimulatorAssumption
  <2>3. ASSUME NEW g \in Frames, d[g] = NUM_ADDRESSES
        PROVE  pos(v) <= pos(g)
    <3>1. d[v] = NUM_ADDRESSES
      <4>1. d[v] \in 0 .. NUM_ADDRESSES /\ d[g] <= d[v]
        BY Zenon, <2>2, NextUseBounded
      <4> QED BY <2>3, <4>1, SimulatorAssumption
    <3>2. v = g
      BY ZenonT(60), <1>2, <2>3, <3>1
    <3>3. pos(v) \in Int
      BY PermutedPositions, SimulatorAssumption DEF Slots
    <3> QED BY <3>2, <3>3
  <2> QED BY Zenon, <2>2, <2>3 DEF BestVictim
<1> QED BY <1>1, <1>2

-----------------------------------------------------------------------------
(* Every action keeps the inductive invariant, and a row it writes tells   *)
(* whether the page was resident: one lemma per action.                    *)

(* What a step that handles a reference owes: the new tables are           *)
(* consistent, the page is in frame f, and the queue has its shape.        *)
LEMMA ReferenceStep ==
  ASSUME IInv, currentIndex \in Index, infos' = infos, MappingInv',
         pageTable' \in [Pages -> PageEntry],
         frames' \in [Frames -> FrameEntry],
         NEW f \in Frames, pageTable'[pageNum].frameNum = f,
         frames'[f].physicalAddress = f * pageSizeByte + offset,
         NEW result \in {0, 1}, Record(result),
         result = 1 <=> pageTable[pageNum].frameNum \in Frames,
         pageQueue' \in QueueType, QueueShape',
         pc' = "reference", victimFrameNum' = -1
  PROVE  IInv' /\ ResidencyStep
<1>0. TypeOK /\ MappingInv /\ InfosInv /\ RowsTranslate
  BY DEF IInv
<1> DEFINE row == [virtualAddress |-> va, pageNum |-> pageNum, frameNum |-> f,
                   physicalAddress |-> f * pageSizeByte + offset,
                   pageFault |-> IF result = 1 THEN "H" ELSE "F"]
<1>1. /\ output' \in Seq(Row) /\ RowsTranslate'
      /\ pageHits' \in Nat /\ pageFaults' \in Nat
      /\ total' \in Nat \union {-1}
      /\ currentIndex' \in 0 .. NUM_ADDRESSES
      /\ algorithm' = algorithm
      /\ output' = Append(output, row)
  BY Zenon, <1>0, RecordedRow
<1>2. TypeOK'
  <2>1. algorithm \in Algorithms /\ infos \in [Index -> AddressInfo]
    BY <1>0 DEF TypeOK
  <2>2. pc' \in {"reference", "second_chance", "done"}
    BY Zenon
  <2> QED BY Zenon, <1>1, <2>1, <2>2 DEF TypeOK, QueueType
<1>3. InfosInv' /\ LoopInv'
  BY Zenon, <1>0 DEF InfosInv, LoopInv
<1>4. IInv'
  BY ZenonT(60), <1>1, <1>2, <1>3 DEF IInv
<1>5. ResidencyStep
  <2>1. output'[Len(output')] = row
    BY SMTT(60), <1>0, <1>1 DEF TypeOK
  <2>2. /\ row.pageNum = pageNum /\ row.frameNum = f
        /\ (row.pageFault = "H") <=> result = 1
    OBVIOUS
  <2> HIDE DEF row
  <2> QED BY <2>1, <2>2 DEF ResidencyStep
<1> QED BY <1>4, <1>5

(* What the type invariant and the shape say of single variables.          *)
LEMMA QueueTyped == TypeOK => pageQueue \in QueueType
  BY Zenon DEF TypeOK, QueueType

(* A reference bit is 0 or 1.                                              *)
LEMMA ReferenceBitTyped ==
  ASSUME TypeOK, NEW p \in Pages
  PROVE  pageTable[p].referenceBit \in {0, 1}
<1>1. pageTable[p] \in PageEntry
  BY DEF TypeOK
<1> QED BY <1>1 DEF PageEntry

(* FIFO and Second-Chance turn the ring once memory is full.               *)
LEMMA RingTurns ==
  ASSUME QueueShape, FreeFrames = {}, algorithm \in {"FIFO", "SC"}
  PROVE  TurningShape
  BY DEF QueueShape

(* A step that only touches the page table, the queue, the victim and the  *)
(* control state keeps the types of the other variables.                   *)
LEMMA TypeKept ==
  ASSUME TypeOK,
         UNCHANGED <<algorithm, infos, frames, currentIndex, pageHits,
                     pageFaults, output, total>>,
         pageTable' \in [Pages -> PageEntry], pageQueue' \in QueueType,
         pc' \in {"reference", "second_chance", "done"},
         victimFrameNum' \in Frames \union {-1}
  PROVE  TypeOK'
  BY Zenon DEF TypeOK, QueueType

(* A step that writes no row owes nothing to RowsTellResidency.            *)
LEMMA NoRow ==
  ASSUME output \in Seq(Row), output' = output
  PROVE  ResidencyStep
<1>1. Len(output) \in Nat
  OBVIOUS
<1>2. ~(Len(output') > Len(output))
  BY <1>1
<1> QED BY <1>2 DEF ResidencyStep

(* A hit under Optimal, FIFO or LRU.                                       *)
LEMMA HitStep ==
  ASSUME IInv, currentIndex \in Index, pc = "reference", Hit
  PROVE  IInv' /\ ResidencyStep
<1>0. TypeOK /\ MappingInv /\ InfosInv /\ QueueShape /\ LoopInv
  BY DEF IInv
<1>1. /\ HitFrames # {} /\ TouchFrame /\ Record(1)
      /\ UNCHANGED <<infos, pageTable, pageQueue, pc, victimFrameNum>>
  BY DEF Hit
<1>2. pageTable' \in [Pages -> PageEntry] /\ pageQueue' \in QueueType
  BY Zenon, <1>0, <1>1 DEF TypeOK, QueueType
<1>3. /\ frames' \in [Frames -> FrameEntry]
      /\ MappingInv'
      /\ Min(HitFrames) \in Frames
      /\ pageTable'[pageNum].frameNum = Min(HitFrames)
      /\ frames'[Min(HitFrames)].physicalAddress =
           Min(HitFrames) * pageSizeByte + offset
      /\ Occupied' = Occupied /\ FreeFrames' = FreeFrames
  BY Zenon, <1>0, <1>1, <1>2, TouchKeepsMapping
<1>4. victimFrameNum' = -1 /\ pc' = "reference"
  BY Zenon, <1>0, <1>1 DEF LoopInv
<1>5. algorithm' = algorithm
  BY Zenon, <1>1 DEF Record
<1>6. QueueShape'
  BY ZenonT(60), <1>0, <1>1, <1>3, <1>5
     DEF QueueShape, FillingShape, TurningShape, Permuted, FullRing, GapRing
<1>7. pageTable[pageNum].frameNum \in Frames
  BY <1>1, <1>3
<1> QED BY <1>1, <1>2, <1>3, <1>4, <1>6, <1>7, ReferenceStep

(* A hit under Second-Chance, which also sets the reference bit.           *)
LEMMA SCHitStep ==
  ASSUME IInv, currentIndex \in Index, pc = "reference", SCHit
  PROVE  IInv' /\ ResidencyStep
<1>0. TypeOK /\ MappingInv /\ InfosInv /\ QueueShape /\ LoopInv
  BY DEF IInv
<1>1. /\ HitFrames # {} /\ TouchFrame /\ Record(1)
      /\ UNCHANGED <<infos, pageQueue, pc, victimFrameNum>>
      /\ pageTable' = [pageTable EXCEPT
                         ![pageNumFromFrame(Min(HitFrames))].referenceBit = 1]
  BY DEF SCHit
<1>2. pageNumFromFrame(Min(HitFrames)) = pageNum /\ pageNum \in Pages
  BY <1>0, <1>1, HitIsResident
<1>3. /\ pageTable' \in [Pages -> PageEntry]
      /\ \A j \in Pages : /\ pageTable'[j].frameNum = pageTable[j].frameNum
                          /\ pageTable'[j].pageNum = pageTable[j].pageNum
  BY ZenonT(60), <1>0, <1>1, <1>2 DEF TypeOK, PageEntry
<1>4. /\ frames' \in [Frames -> FrameEntry]
      /\ MappingInv'
      /\ Min(HitFrames) \in Frames
      /\ pageTable'[pageNum].frameNum = Min(HitFrames)
      /\ frames'[Min(HitFrames)].physicalAddress =
           Min(HitFrames) * pageSizeByte + offset
      /\ Occupied' = Occupied /\ FreeFrames' = FreeFrames
  BY <1>0, <1>1, <1>3, TouchKeepsMapping
<1>5. victimFrameNum' = -1 /\ pc' = "reference" /\ pageQueue' \in QueueType
  BY <1>0, <1>1 DEF LoopInv, TypeOK, QueueType
<1>6. algorithm' = algorithm
  BY <1>1 DEF Record
<1>7. QueueShape'
  BY Zenon, <1>0, <1>1, <1>4, <1>6
     DEF QueueShape, FillingShape, TurningShape, Permuted, FullRing, GapRing
<1>8. pageTable[pageNum].frameNum \in Frames
  BY Zenon, <1>2, <1>3, <1>4
<1> QED BY <1>1, <1>3, <1>4, <1>5, <1>7, <1>8, ReferenceStep

(* No entry names a free frame.                                            *)
LEMMA FillClears ==
  ASSUME MappingInv, FreeFrames # {}
  PROVE  /\ Min(FreeFrames) \in Frames /\ Min(FreeFrames) \notin Occupied
         /\ Min(FreeFrames) # -1
         /\ StaleEntries(Min(FreeFrames)) = {}
<1>1. PICK f : f = Min(FreeFrames)
  OBVIOUS
<1>2. FreeFrames \in SUBSET Nat
  BY SimulatorAssumption DEF FreeFrames, Frames
<1>3. f \in FreeFrames
  BY ZenonT(60), <1>1, <1>2, MinProp
<1>4. f \in Frames /\ f \notin Occupied /\ f # -1
  BY <1>3, SimulatorAssumption DEF FreeFrames, Occupied, Frames
<1>5. StaleEntries(f) = {}
  BY <1>4 DEF StaleEntries, MappingInv
<1> QED BY Zenon, <1>1, <1>4, <1>5

(* FIFO clears the entries whose index is a page number it finds; since an *)
(* entry names its own page these are the entries themselves.              *)
LEMMA FIFOClears ==
  ASSUME MappingInv, NEW f \in Frames
  PROVE  {pageTable[j].pageNum : j \in StaleEntries(f)} = StaleEntries(f)
<1>1. f # -1
  BY SimulatorAssumption DEF Frames
<1>2. \A j \in StaleEntries(f) : pageTable[j].pageNum = j
  BY SMTT(60), <1>1 DEF StaleEntries, MappingInv
<1> QED BY <1>2

(* A fault that takes the first free frame.                                *)
LEMMA FillStep ==
  ASSUME IInv, currentIndex \in Index, pc = "reference",
         NEW STATE queue, NEW STATE bit, bit \in {0, 1},
         queue = IF algorithm = "LRU" THEN pageQueue
                 ELSE enqueue(pageQueue, Min(FreeFrames)),
         FillFrame(bit, queue)
  PROVE  IInv' /\ ResidencyStep
<1> DEFINE f == Min(FreeFrames)
<1>0. TypeOK /\ MappingInv /\ InfosInv /\ QueueShape /\ LoopInv
  BY DEF IInv
<1>1. /\ HitFrames = {} /\ FreeFrames # {} /\ LoadFrame(f) /\ Record(0)
      /\ pageTable' = Remapped(f, bit, {}) /\ pageQueue' = queue
      /\ UNCHANGED <<pc, victimFrameNum>>
  BY DEF FillFrame
<1>4. f \in Frames /\ f \notin Occupied /\ f # -1
  BY Zenon, <1>0, <1>1, FillClears
<1>5. pageTable[pageNum].frameNum = -1 /\ pageNum \in Pages
  BY Zenon, <1>0, <1>1, HitIsResident
<1>6. StaleEntries(f) = {}
  BY Zenon, <1>0, <1>1, FillClears
<1> HIDE DEF f
<1>7. pageTable' = Remapped(f, bit, StaleEntries(f))
  BY Zenon, <1>1, <1>6
<1>8. /\ infos' = infos
      /\ pageTable' \in [Pages -> PageEntry]
      /\ frames' \in [Frames -> FrameEntry]
      /\ MappingInv'
      /\ pageTable'[pageNum].frameNum = f
      /\ frames'[f].physicalAddress = f * pageSizeByte + offset
      /\ Occupied' = Occupied \union {f}
      /\ FreeFrames' = FreeFrames \ {f}
  BY ZenonT(60), <1>0, <1>1, <1>4, <1>5, <1>7, LoadKeepsMapping
<1>9. algorithm' = algorithm /\ victimFrameNum' = -1 /\ pc' = "reference"
  BY <1>0, <1>1 DEF LoopInv, Record
<1>10. QueueShape' /\ pageQueue' \in QueueType
  <2>1. CASE algorithm = "LRU"
    BY ZenonT(60), <1>0, <1>1, <1>9, <2>1 DEF QueueShape, TypeOK, QueueType
  <2>2. CASE algorithm # "LRU"
    <3>1. FillingShape
      BY Zenon, <1>0, <1>1, <2>2 DEF QueueShape
    <3>2. /\ f = pageQueue.rear + 1 /\ pageQueue' \in QueueType
          /\ pageQueue'.front = 0 /\ pageQueue'.rear = f
          /\ \A s \in 0 .. f : pageQueue'.items[s] = s
      BY ZenonT(60), <1>0, <1>1, <2>2, <3>1, FillQueue DEF f
    <3>3. /\ Occupied' = 0 .. f /\ f \in 0 .. totalFrame - 1
      <4>1. pageQueue.rear \in Slots \union {-1} /\ Occupied = 0 .. pageQueue.rear
        BY ZenonT(60), <1>0, <3>1 DEF TypeOK, FillingShape
      <4> QED BY <1>4, <1>8, <3>2, <4>1 DEF Frames, Slots
    <3>4. Occupied' = Frames \ FreeFrames'
      BY <1>8 DEF Occupied, FreeFrames, FrameEntry
    <3>5. FreeFrames' = {} <=> f = totalFrame - 1
      <4>1. FreeFrames' \subseteq Frames
        BY DEF FreeFrames
      <4>2. FreeFrames' = {} <=> Frames = 0 .. f
        BY <3>3, <3>4, <4>1, Zenon
      <4>3. Frames = 0 .. f <=> f = totalFrame - 1
        <5>1. ASSUME Frames = 0 .. f PROVE f = totalFrame - 1
          <6>1. totalFrame - 1 \in Frames
            BY SimulatorAssumption DEF Frames
          <6>2. totalFrame - 1 \in 0 .. f
            BY ZenonT(60), <5>1, <6>1
          <6> QED BY <3>3, <6>2, SimulatorAssumption
        <5> QED BY <5>1 DEF Frames
      <4> QED BY <4>2, <4>3
    <3>6. CASE f # totalFrame - 1
      <4>1. FillingShape'
        BY SMTT(60), <3>2, <3>3, <3>6 DEF FillingShape
      <4> QED BY <3>2, <3>5, <3>6, <4>1 DEF QueueShape
    <3>7. CASE f = totalFrame - 1
      <4>1. /\ 0 \in Slots /\ f \in Slots /\ Slots = 0 .. f
            /\ NextSlot(f) = 0
        BY ZenonT(60), <3>3, <3>7, NextSlotValue, SimulatorAssumption DEF Slots
      <4>2. FullRing(pageQueue')
        BY <3>2, <4>1 DEF FullRing
      <4>3. Frames = Slots
        BY Zenon DEF Frames, Slots
      <4>4. Permuted(pageQueue')
        BY ZenonT(60), <3>2, <3>7, <4>1, <4>3 DEF Permuted
      <4> QED BY SMTT(60), <1>9, <3>2, <3>5, <3>7, <4>2, <4>4
              DEF QueueShape, TurningShape, FullRing, Permuted
    <3> QED BY <3>6, <3>7
  <2> QED BY <2>1, <2>2
<1>11. pageTable[pageNum].frameNum \notin Frames
  BY SMTT(60), <1>5, SimulatorAssumption DEF Frames
<1> QED BY SMTT(60), <1>1, <1>4, <1>8, <1>9, <1>10, <1>11, ReferenceStep

(* A fault with memory full that replaces the page in frame f.             *)
LEMMA ReplaceStep ==
  ASSUME IInv, currentIndex \in Index, FreeFrames = {},
         pageTable[pageNum].frameNum = -1,
         NEW STATE f, f \in Frames, NEW STATE bit, bit \in {0, 1},
         LoadFrame(f), pageTable' = Remapped(f, bit, StaleEntries(f)),
         pageQueue' \in QueueType,
         algorithm = "Optimal" => Permuted(pageQueue'),
         algorithm \in {"FIFO", "SC"} => FullRing(pageQueue'),
         pc' = "reference", victimFrameNum' = -1, Record(0)
  PROVE  IInv' /\ ResidencyStep
<1>0. TypeOK /\ MappingInv /\ InfosInv
  BY Zenon DEF IInv
<1>1. /\ infos' = infos
      /\ pageTable' \in [Pages -> PageEntry]
      /\ frames' \in [Frames -> FrameEntry]
      /\ MappingInv'
      /\ pageTable'[pageNum].frameNum = f
      /\ frames'[f].physicalAddress = f * pageSizeByte + offset
      /\ FreeFrames' = FreeFrames \ {f}
  BY Zenon, <1>0, LoadKeepsMapping
<1>2. algorithm' = algorithm /\ algorithm \in {"Optimal", "FIFO", "LRU", "SC"}
  BY Zenon, <1>0, SimulatorAssumption DEF TypeOK, Record
<1>3. FreeFrames' = {}
  BY Zenon, <1>1
<1>4. QueueShape'
  BY ZenonT(60), <1>2, <1>3 DEF QueueShape, TurningShape, FullRing, Permuted
<1>5. pageTable[pageNum].frameNum \notin Frames
  BY SimulatorAssumption DEF Frames
<1> QED BY <1>1, <1>4, <1>5, ReferenceStep

(* Optimal's replacement.                                                  *)
LEMMA OptimalReplaceStep ==
  ASSUME IInv, currentIndex \in Index, pc = "reference",
         algorithm = "Optimal", OptimalReplace
  PROVE  IInv' /\ ResidencyStep
<1>0. TypeOK /\ MappingInv /\ InfosInv /\ QueueShape /\ LoopInv
  BY Zenon DEF IInv
<1> DEFINE f   == OptimalVictim
           bit == pageTable[pageNum].referenceBit
<1>1. /\ HitFrames = {} /\ FreeFrames = {} /\ LoadFrame(f) /\ Record(0)
      /\ pageTable' = Remapped(f, bit, StaleEntries(f))
      /\ pageQueue' = enqueue(removeFrameFromQueue(pageQueue, f), f)
      /\ UNCHANGED <<pc, victimFrameNum>>
  BY Zenon DEF OptimalReplace, Full
<1>2. pageTable[pageNum].frameNum = -1 /\ pageNum \in Pages
  BY Zenon, <1>0, <1>1, HitIsResident
<1>3. bit \in {0, 1}
  BY Zenon, <1>0, <1>2, ReferenceBitTyped
<1>4. pageQueue \in QueueType /\ Permuted(pageQueue)
  BY Zenon, <1>0, <1>1, QueueTyped DEF QueueShape
<1>5. f \in Frames
  BY Zenon, <1>4, OptimalVictimIsFrame
<1> HIDE DEF f, bit
<1>6. pageQueue' \in QueueType /\ Permuted(pageQueue')
  BY ZenonT(60), <1>1, <1>4, <1>5, OptimalRequeues
<1>7. victimFrameNum' = -1 /\ pc' = "reference"
  BY <1>0, <1>1 DEF LoopInv
<1> QED BY SMTT(60), <1>1, <1>2, <1>3, <1>5, <1>6, <1>7, ReplaceStep

(* FIFO's replacement.                                                     *)
LEMMA FIFOReplaceStep ==
  ASSUME IInv, currentIndex \in Index, pc = "reference",
         algorithm = "FIFO", FIFOReplace
  PROVE  IInv' /\ ResidencyStep
<1>0. TypeOK /\ MappingInv /\ InfosInv /\ QueueShape /\ LoopInv
  BY Zenon DEF IInv
<1> DEFINE f   == dequeuedItem(pageQueue)
           bit == pageTable[pageNum].referenceBit
<1>1. /\ HitFrames = {} /\ FreeFrames = {} /\ LoadFrame(f) /\ Record(0)
      /\ pageTable' = Remapped(f, bit,
                               {pageTable[j].pageNum : j \in StaleEntries(f)})
      /\ pageQueue' = enqueue(dequeue(pageQueue), f)
      /\ UNCHANGED <<pc, victimFrameNum>>
  BY Zenon DEF FIFOReplace, Full
<1>2. pageTable[pageNum].frameNum = -1 /\ pageNum \in Pages
  BY Zenon, <1>0, <1>1, HitIsResident
<1>3. bit \in {0, 1}
  BY ZenonT(60), <1>0, <1>2, ReferenceBitTyped
<1>4. pageQueue \in QueueType /\ FullRing(pageQueue)
  <2>1. TurningShape
    BY ZenonT(60), <1>0, <1>1, RingTurns
  <2>2. victimFrameNum = -1
    BY Zenon, <1>0 DEF LoopInv
  <2> QED BY <1>0, <2>1, <2>2, QueueTyped DEF TurningShape
<1>5. f \in Frames /\ pageQueue' \in QueueType /\ FullRing(pageQueue')
  BY ZenonT(60), <1>1, <1>4, TakeFront, GiveBack
<1> HIDE DEF f, bit
<1>7. {pageTable[j].pageNum : j \in StaleEntries(f)} = StaleEntries(f)
  BY Zenon, <1>0, <1>5, FIFOClears
<1>8. pageTable' = Remapped(f, bit, StaleEntries(f))
  BY Zenon, <1>1, <1>7
<1>9. victimFrameNum' = -1 /\ pc' = "reference"
  BY ZenonT(60), <1>0, <1>1 DEF LoopInv
<1> QED BY ZenonT(60), <1>1, <1>2, <1>3, <1>5, <1>8, <1>9, ReplaceStep

(* LRU's replacement.                                                      *)
LEMMA LRUReplaceStep ==
  ASSUME IInv, currentIndex \in Index, pc = "reference",
         algorithm = "LRU", LRUReplace
  PROVE  IInv' /\ ResidencyStep
<1>0. TypeOK /\ MappingInv /\ InfosInv /\ QueueShape /\ LoopInv
  BY Zenon DEF IInv
<1> DEFINE f   == maxDistanceFrameNum(LastUseDistances)
           bit == pageTable[pageNum].referenceBit
<1>1. /\ HitFrames = {} /\ FreeFrames = {} /\ LoadFrame(f) /\ Record(0)
      /\ pageTable' = Remapped(f, bit, StaleEntries(f))
      /\ UNCHANGED <<pageQueue, pc, victimFrameNum>>
  BY Zenon DEF LRUReplace, Full
<1>2. pageTable[pageNum].frameNum = -1 /\ pageNum \in Pages
  BY Zenon, <1>0, <1>1, HitIsResident
<1>3. bit \in {0, 1}
  BY Zenon, <1>0, <1>2 DEF TypeOK, PageEntry
<1>4. f \in Frames
  BY Zenon, LastUseBounded, MaxDistanceIsFrame, SimulatorAssumption
<1> HIDE DEF f, bit
<1>5. victimFrameNum' = -1 /\ pc' = "reference" /\ pageQueue' \in QueueType
  BY ZenonT(60), <1>0, <1>1 DEF LoopInv, TypeOK, QueueType
<1> QED BY <1>1, <1>2, <1>3, <1>4, <1>5, ReplaceStep

(* Second-Chance takes a frame in hand.                                    *)
LEMMA SCTakeVictimStep ==
  ASSUME IInv, currentIndex \in Index, pc = "reference",
         algorithm = "SC", SCTakeVictim
  PROVE  IInv' /\ ResidencyStep
<1>0. TypeOK /\ MappingInv /\ InfosInv /\ QueueShape /\ LoopInv /\ RowsTranslate
  BY DEF IInv
<1>1. /\ HitFrames = {} /\ FreeFrames = {}
      /\ victimFrameNum' = dequeuedItem(pageQueue)
      /\ pageQueue' = dequeue(pageQueue) /\ pc' = "second_chance"
      /\ UNCHANGED <<algorithm, infos, pageTable, frames, currentIndex,
                     pageHits, pageFaults, output, total>>
  BY Zenon DEF SCTakeVictim, Full
<1>2. pageTable[pageNum].frameNum = -1
  BY ZenonT(60), <1>0, <1>1, HitIsResident
<1>3. pageQueue \in QueueType /\ FullRing(pageQueue)
  <2>1. TurningShape
    BY Zenon, <1>0, <1>1, RingTurns
  <2>2. victimFrameNum = -1
    BY Zenon, <1>0 DEF LoopInv
  <2> QED BY <1>0, <2>1, <2>2, QueueTyped DEF TurningShape
<1>4. /\ victimFrameNum' \in Frames /\ pageQueue' \in QueueType
      /\ GapRing(pageQueue', victimFrameNum')
  BY Zenon, <1>1, <1>3, TakeFront
<1>5. victimFrameNum' # -1
  BY <1>4, SimulatorAssumption DEF Frames
<1>6. FreeFrames' = {} /\ pageTable'[pageNum'].frameNum = -1
  <2>1. FreeFrames' = FreeFrames
    BY Zenon, <1>1 DEF FreeFrames
  <2>2. pageNum' = pageNum
    BY Zenon, <1>1 DEF pageNum, va
  <2> QED BY <1>1, <1>2, <2>1, <2>2
<1>7. QueueShape'
  BY ZenonT(60), <1>1, <1>4, <1>5, <1>6 DEF QueueShape, TurningShape, GapRing
<1>8. LoopInv'
  BY ZenonT(60), <1>1, <1>4, <1>6 DEF LoopInv
<1>9. TypeOK'
  <2>1. pageTable' \in [Pages -> PageEntry]
    BY <1>0, <1>1 DEF TypeOK
  <2> QED BY SMTT(60), <1>0, <1>1, <1>4, <2>1, TypeKept
<1>10. MappingInv' /\ InfosInv' /\ RowsTranslate'
  BY ZenonT(60), <1>0, <1>1 DEF MappingInv, Occupied, InfosInv, RowsTranslate
<1>11. ResidencyStep
  BY <1>0, <1>1, NoRow DEF TypeOK
<1> QED BY <1>7, <1>8, <1>9, <1>10, <1>11 DEF IInv

(* The page of the frame in hand is a page of the table.                   *)
LEMMA VictimPage ==
  ASSUME TypeOK, MappingInv, FreeFrames = {}, victimFrameNum \in Frames
  PROVE  victimPageNum \in Pages
<1>1. victimFrameNum \in Occupied
  BY Zenon DEF TypeOK, Occupied, FreeFrames, FrameEntry
<1>2. PICK p \in Pages : /\ pageTable[p].frameNum = victimFrameNum
                         /\ pageTable[p].pageNum = p
                         /\ \A r \in Pages :
                              pageTable[r].frameNum = victimFrameNum => r = p
  BY ZenonT(60), <1>1, PageOfFrame
<1>3. {j \in Pages : pageTable[j].frameNum = victimFrameNum} = {p}
  BY <1>2
<1>4. Min({p}) = p
  BY MinSingleton DEF Pages
<1> QED BY ZenonT(60), <1>2, <1>3, <1>4 DEF victimPageNum

(* A reprieve turns the ring with the gap by one slot.                     *)
LEMMA SCGiveChanceStep ==
  ASSUME IInv, SCGiveChance
  PROVE  IInv' /\ ResidencyStep
<1> DEFINE again == enqueue(pageQueue, victimFrameNum)
<1>0. TypeOK /\ MappingInv /\ InfosInv /\ QueueShape /\ LoopInv /\ RowsTranslate
  BY DEF IInv
<1>1. /\ pc = "second_chance"
      /\ pageTable' = [pageTable EXCEPT ![victimPageNum].referenceBit = 0]
      /\ victimFrameNum' = dequeuedItem(again)
      /\ pageQueue' = dequeue(again)
      /\ UNCHANGED <<algorithm, infos, frames, currentIndex, pc, pageHits,
                     pageFaults, output, total>>
  BY DEF SCGiveChance
<1>2. /\ algorithm = "SC" /\ currentIndex \in Index /\ FreeFrames = {}
      /\ pageTable[pageNum].frameNum = -1 /\ victimFrameNum \in Frames
  BY ZenonT(60), <1>0, <1>1 DEF LoopInv
<1>3. victimPageNum \in Pages
  BY <1>0, <1>2, VictimPage
<1>4. /\ pageTable' \in [Pages -> PageEntry]
      /\ \A j \in Pages : /\ pageTable'[j].frameNum = pageTable[j].frameNum
                          /\ pageTable'[j].pageNum = pageTable[j].pageNum
  BY ZenonT(60), <1>0, <1>1, <1>3 DEF TypeOK, PageEntry
<1>5. victimFrameNum # -1
  BY <1>2, SimulatorAssumption DEF Frames
<1>6. pageQueue \in QueueType /\ GapRing(pageQueue, victimFrameNum)
  BY ZenonT(60), <1>0, <1>2, <1>5, RingTurns, QueueTyped DEF TurningShape
<1>7. again \in QueueType /\ FullRing(again)
  BY <1>2, <1>6, GiveBack
<1> HIDE DEF again
<1>8. /\ victimFrameNum' \in Frames /\ pageQueue' \in QueueType
      /\ GapRing(pageQueue', victimFrameNum')
  BY ZenonT(60), <1>1, <1>7, TakeFront
<1>9. victimFrameNum' # -1
  BY <1>8, SimulatorAssumption DEF Frames
<1>10. pageNum' = pageNum /\ pageNum \in Pages
  BY ZenonT(60), <1>0, <1>1, <1>2, HitIsResident DEF pageNum, va
<1>11. FreeFrames' = {} /\ pageTable'[pageNum'].frameNum = -1
  BY ZenonT(60), <1>1, <1>2, <1>4, <1>10 DEF FreeFrames
<1>12. QueueShape'
  BY ZenonT(60), <1>1, <1>2, <1>8, <1>9, <1>11 DEF QueueShape, TurningShape, GapRing
<1>13. LoopInv'
  BY ZenonT(60), <1>1, <1>2, <1>8, <1>11 DEF LoopInv
<1>14. TypeOK'
  BY ZenonT(60), <1>0, <1>1, <1>4, <1>8, TypeKept
<1>15. MappingInv'
  BY <1>0, <1>1, <1>4, MappingIs DEF Mapping
<1>16. InfosInv' /\ RowsTranslate'
  BY <1>0, <1>1 DEF InfosInv, RowsTranslate
<1>17. ResidencyStep
  BY ZenonT(60), <1>0, <1>1, NoRow DEF TypeOK
<1> QED BY SMTT(60), <1>12, <1>13, <1>14, <1>15, <1>16, <1>17 DEF IInv

(* Second-Chance's replacement closes the gap.                             *)
LEMMA SCReplaceStep ==
  ASSUME IInv, SCReplace
  PROVE  IInv' /\ ResidencyStep
<1>0. TypeOK /\ MappingInv /\ InfosInv /\ QueueShape /\ LoopInv
  BY Zenon DEF IInv
<1>1. /\ pc = "second_chance" /\ LoadFrame(victimFrameNum)
      /\ pageTable' = Remapped(victimFrameNum, 0, StaleEntries(victimFrameNum))
      /\ pageQueue' = enqueue(pageQueue, victimFrameNum)
      /\ victimFrameNum' = -1 /\ pc' = "reference" /\ Record(0)
  BY Zenon DEF SCReplace
<1>2. /\ algorithm = "SC" /\ currentIndex \in Index /\ FreeFrames = {}
      /\ pageTable[pageNum].frameNum = -1 /\ victimFrameNum \in Frames
  BY ZenonT(60), <1>0, <1>1 DEF LoopInv
<1>3. victimFrameNum # -1
  BY <1>2, SimulatorAssumption DEF Frames
<1>4. pageQueue \in QueueType /\ GapRing(pageQueue, victimFrameNum)
  BY ZenonT(60), <1>0, <1>2, <1>3, RingTurns, QueueTyped DEF TurningShape
<1>5. pageQueue' \in QueueType /\ FullRing(pageQueue')
  BY ZenonT(60), <1>1, <1>2, <1>4, GiveBack
<1> QED BY SMTT(60), <1>1, <1>2, <1>5, ReplaceStep

-----------------------------------------------------------------------------
(* The invariant holds initially: memory and queue are empty.              *)
LEMMA InitIInv == Init => IInv
<1>0. SUFFICES ASSUME Init PROVE IInv
  BY Zenon
<1>1. PICK addr \in Inputs :
        infos = [n \in Index |->
                   [virtualAddress |-> addr[n],
                    pageNum |-> Quotient(addr[n], pageSizeByte)]]
  BY Zenon, <1>0 DEF Init
<1>2. \A n \in Index : addr[n] \in -1 .. maxAddress
  BY Zenon, <1>1, SimulatorAssumption
<1>3. \A n \in Index : Quotient(addr[n], pageSizeByte) \in Pages
  BY Zenon, <1>2, AddressSplit
<1>4. infos \in [Index -> AddressInfo]
  BY Zenon, <1>1, <1>2, <1>3 DEF AddressInfo
<1>5. InfosInv
  BY Zenon, <1>1 DEF InfosInv
<1>6. pageTable \in [Pages -> PageEntry]
  BY ZenonT(60), <1>0 DEF Init, PageEntry
<1>7. frames \in [Frames -> FrameEntry]
  <2>1. totalFrame * pageSizeByte \in Nat
    BY SimulatorAssumption
  <2>2. -1 \in -1 .. totalFrame * pageSizeByte - 1
    BY <2>1
  <2> QED BY <1>0, <2>2 DEF Init, FrameEntry
<1>8. pageQueue \in [items : [Slots -> Int], front : Slots \union {-1},
                     rear : Slots \union {-1}]
  BY SMTT(60), <1>0 DEF Init, initializePageQueue, Uninit
<1>9. /\ algorithm \in Algorithms /\ currentIndex \in 0 .. NUM_ADDRESSES
      /\ pc \in {"reference", "second_chance", "done"}
      /\ victimFrameNum \in Frames \union {-1}
      /\ pageHits \in Nat /\ pageFaults \in Nat
      /\ output \in Seq(Row) /\ total \in Nat \union {-1}
  BY <1>0, SimulatorAssumption DEF Init
<1>10. TypeOK
  BY ZenonT(60), <1>4, <1>6, <1>7, <1>8, <1>9 DEF TypeOK
<1>11. MappingInv
  BY <1>0 DEF Init, MappingInv, Occupied
<1>12. QueueShape
  <2>1. 0 \in Frames
    BY SMTT(60), SimulatorAssumption DEF Frames
  <2>2. Occupied = {} /\ FreeFrames # {}
    BY SMTT(60), <1>0, <2>1 DEF Init, Occupied, FreeFrames
  <2>3. pageQueue.rear = -1 /\ pageQueue.front = -1
    BY <1>0 DEF Init, initializePageQueue
  <2>4. 0 .. -1 = {} /\ -1 # totalFrame - 1
    BY SMTT(60), SimulatorAssumption
  <2> QED BY <2>2, <2>3, <2>4 DEF QueueShape, FillingShape
<1>13. LoopInv /\ RowsTranslate
  BY <1>0 DEF Init, LoopInv, RowsTranslate
<1> QED BY SMTT(60), <1>5, <1>10, <1>11, <1>12, <1>13 DEF IInv

(* Every step keeps the invariant, and a row it writes tells residency.    *)
LEMMA NextIInv == IInv /\ [Next]_vars => IInv' /\ ResidencyStep
<1> SUFFICES ASSUME IInv, [Next]_vars
             PROVE  IInv' /\ ResidencyStep
  OBVIOUS
<1>0. TypeOK
  BY DEF IInv
<1>2. ASSUME currentIndex \in Index
      PROVE  pageTable[pageNum].referenceBit \in {0, 1}
  <2>1. pageNum \in Pages
    BY ZenonT(60), <1>0, <1>2, HitIsResident DEF IInv
  <2> QED BY <1>0, <2>1 DEF TypeOK, PageEntry
<1>3. CASE replacePageOptimal
  <2>1. currentIndex \in Index /\ pc = "reference" /\ algorithm = "Optimal"
    BY <1>0, <1>3, SimulatorAssumption
       DEF replacePageOptimal, Referencing, TypeOK, Index
  <2>2. CASE Hit
    BY ZenonT(60), <2>1, <2>2, HitStep
  <2>3. CASE FillFrame(pageTable[pageNum].referenceBit,
                       enqueue(pageQueue, Min(FreeFrames)))
    BY ZenonT(60), <1>2, <2>1, <2>3, FillStep
  <2>4. CASE OptimalReplace
    BY ZenonT(60), <2>1, <2>4, OptimalReplaceStep
  <2> QED BY SMTT(60), <1>3, <2>2, <2>3, <2>4 DEF replacePageOptimal
<1>4. CASE replacePageFIFO
  <2>1. currentIndex \in Index /\ pc = "reference" /\ algorithm = "FIFO"
    BY <1>0, <1>4, SimulatorAssumption
       DEF replacePageFIFO, Referencing, TypeOK, Index
  <2>2. CASE Hit
    BY Zenon, <2>1, <2>2, HitStep
  <2>3. CASE FillFrame(pageTable[pageNum].referenceBit,
                       enqueue(pageQueue, Min(FreeFrames)))
    BY ZenonT(60), <1>2, <2>1, <2>3, FillStep
  <2>4. CASE FIFOReplace
    BY ZenonT(60), <2>1, <2>4, FIFOReplaceStep
  <2> QED BY SMTT(60), <1>4, <2>2, <2>3, <2>4 DEF replacePageFIFO
<1>5. CASE replacePageLRU
  <2>1. currentIndex \in Index /\ pc = "reference" /\ algorithm = "LRU"
    BY <1>0, <1>5, SimulatorAssumption
       DEF replacePageLRU, Referencing, TypeOK, Index
  <2>2. CASE Hit
    BY Zenon, <2>1, <2>2, HitStep
  <2>3. CASE FillFrame(pageTable[pageNum].referenceBit, pageQueue)
    BY ZenonT(60), <1>2, <2>1, <2>3, FillStep
  <2>4. CASE LRUReplace
    BY ZenonT(60), <2>1, <2>4, LRUReplaceStep
  <2> QED BY SMTT(60), <1>5, <2>2, <2>3, <2>4 DEF replacePageLRU
<1>6. CASE replacePageSC
  <2>1. currentIndex \in Index /\ pc = "reference" /\ algorithm = "SC"
    BY <1>0, <1>6, SimulatorAssumption
       DEF replacePageSC, Referencing, TypeOK, Index
  <2>2. CASE SCHit
    BY Zenon, <2>1, <2>2, SCHitStep
  <2>3. CASE FillFrame(0, enqueue(pageQueue, Min(FreeFrames)))
    BY Zenon, <2>1, <2>3, FillStep
  <2>4. CASE SCTakeVictim
    BY <2>1, <2>4, SCTakeVictimStep
  <2> QED BY SMTT(60), <1>6, <2>2, <2>3, <2>4 DEF replacePageSC
<1>7. CASE SCGiveChance
  BY <1>7, SCGiveChanceStep
<1>8. CASE SCReplace
  BY <1>8, SCReplaceStep
<1>9. ASSUME UNCHANGED <<algorithm, infos, pageTable, frames, pageQueue,
                         currentIndex, victimFrameNum, pageHits, pageFaults,
                         output, total>>,
             pc' = pc \/ (pc = "reference" /\ pc' = "done")
      PROVE  IInv' /\ ResidencyStep
  <2>0. TypeOK /\ QueueShape /\ LoopInv
    BY <1>0 DEF IInv
  <2>1. TypeOK' /\ LoopInv'
    <3>1. /\ pageTable' \in [Pages -> PageEntry] /\ pageQueue' \in QueueType
          /\ pc' \in {"reference", "second_chance", "done"}
          /\ victimFrameNum' \in Frames \union {-1}
      BY ZenonT(60), <1>9, <2>0, QueueTyped DEF TypeOK
    <3>2. TypeOK'
      BY ZenonT(60), <1>9, <2>0, <3>1, TypeKept
    <3>3. FreeFrames' = FreeFrames /\ pageNum' = pageNum
      BY ZenonT(60), <1>9 DEF FreeFrames, pageNum, va
    <3>4. LoopInv'
      BY <1>9, <2>0, <3>3 DEF LoopInv
    <3> QED BY <3>2, <3>4
  <2>2. MappingInv' /\ InfosInv' /\ RowsTranslate'
    BY ZenonT(60), <1>9 DEF IInv, MappingInv, Occupied, InfosInv, RowsTranslate
  <2>3. QueueShape'
    <3>1. FreeFrames' = FreeFrames /\ Occupied' = Occupied
      BY <1>9 DEF FreeFrames, Occupied
    <3>2. /\ FillingShape => FillingShape'
          /\ TurningShape => TurningShape'
          /\ Permuted(pageQueue) => Permuted(pageQueue')
      BY Zenon, <1>9, <3>1 DEF FillingShape, TurningShape
    <3> QED BY <1>9, <2>0, <3>1, <3>2 DEF QueueShape
  <2>4. ResidencyStep
    BY ZenonT(60), <1>0, <1>9, NoRow DEF TypeOK
  <2> QED BY <2>1, <2>2, <2>3, <2>4 DEF IInv
<1>10. CASE Finish
  BY ZenonT(60), <1>9, <1>10 DEF Finish
<1>11. CASE UNCHANGED vars
  BY <1>9, <1>11 DEF vars
<1> QED BY SMTT(60), <1>3, <1>4, <1>5, <1>6, <1>7, <1>8, <1>10, <1>11 DEF Next

(* The queued slots while frames are free.                                 *)
LEMMA FillingLive ==
  ASSUME TypeOK, FillingShape
  PROVE  Live(pageQueue) = 0 .. pageQueue.rear
<1> DEFINE r == pageQueue.rear
<1>1. r \in Slots \union {-1}
  BY ZenonT(60) DEF TypeOK
<1>2. CASE r = -1
  BY <1>2 DEF FillingShape, Live, isEmpty
<1>3. CASE r # -1
  <2>1. pageQueue.front = 0 /\ 0 \in Slots /\ r \in Slots
    BY SMTT(60), <1>1, <1>3, SimulatorAssumption DEF FillingShape, Slots
  <2>2. \A s \in Slots : Offset(pageQueue, s) = s
    BY <2>1, OffsetValue DEF Slots
  <2>3. Live(pageQueue) = {s \in Slots : s <= r}
    BY <2>1, <2>2 DEF Live, isEmpty
  <2> QED BY SMTT(60), <2>1, <2>3, SimulatorAssumption DEF Slots
<1> QED BY <1>2, <1>3

(* The queued slots of a full ring: all.                                   *)
LEMMA FullRingLive ==
  ASSUME NEW q, FullRing(q)
  PROVE  Live(q) = Slots
<1>1. q.front \in Slots /\ q.rear \in Slots /\ NextSlot(q.rear) = q.front
  BY ZenonT(60) DEF FullRing
<1>2. \A s \in Slots : Offset(q, s) <= Offset(q, q.rear)
  BY SMTT(60), <1>1, OffsetValue, NextSlotValue, SimulatorAssumption DEF Slots
<1>3. ~isEmpty(q)
  BY <1>1, SimulatorAssumption DEF isEmpty, Slots
<1> QED BY <1>2, <1>3 DEF Live

(* The queued slots of a ring with a gap: all but the gap.                 *)
LEMMA GapRingLive ==
  ASSUME NEW q, NEW v \in Slots, GapRing(q, v)
  PROVE  Live(q) = Slots \ {v}
<1>1. /\ q.front \in Slots /\ q.rear \in Slots
      /\ NextSlot(q.rear) = v /\ NextSlot(v) = q.front
  BY ZenonT(60) DEF GapRing
<1>2. \A s \in Slots : Offset(q, s) <= Offset(q, q.rear) <=> s # v
  BY <1>1, OffsetValue, NextSlotValue, SimulatorAssumption DEF Slots
<1>3. ~isEmpty(q)
  BY SMTT(60), <1>1, SimulatorAssumption DEF isEmpty, Slots
<1> QED BY <1>2, <1>3 DEF Live

(* The shape of the ring gives the queue's correctness.                    *)
LEMMA ShapeGivesQueueInv == IInv => QueueInv
<1> SUFFICES ASSUME IInv, algorithm # "LRU"
             PROVE  /\ \A s \in Live(pageQueue) :
                         pageQueue.items[s] \in Occupied \ {victimFrameNum}
                    /\ \A s, t \in Live(pageQueue) :
                         pageQueue.items[s] = pageQueue.items[t] => s = t
                    /\ \A f \in Occupied \ {victimFrameNum} :
                         \E s \in Live(pageQueue) : pageQueue.items[s] = f
  BY DEF QueueInv
<1>0. TypeOK /\ QueueShape /\ LoopInv
  BY DEF IInv
<1>1. Slots = Frames /\ -1 \notin Frames
  BY SimulatorAssumption DEF Slots, Frames
<1>2. pageQueue \in QueueType
  BY ZenonT(60), <1>0 DEF TypeOK, QueueType
<1>3. CASE FreeFrames # {}
  <2>1. FillingShape /\ victimFrameNum = -1
    BY <1>0, <1>3 DEF QueueShape, LoopInv
  <2>2. /\ Live(pageQueue) = Occupied
        /\ \A s \in Live(pageQueue) : pageQueue.items[s] = s
    BY ZenonT(60), <1>0, <2>1, FillingLive DEF FillingShape
  <2>3. -1 \notin Occupied
    BY ZenonT(60), <1>1 DEF Occupied
  <2> QED BY SMTT(60), <2>1, <2>2, <2>3
<1>4. CASE FreeFrames = {}
  <2>1. Occupied = Frames
    BY ZenonT(60), <1>0, <1>4 DEF TypeOK, Occupied, FreeFrames, FrameEntry
  <2>2. CASE algorithm = "Optimal"
    <3>1. Permuted(pageQueue) /\ victimFrameNum = -1
      BY ZenonT(60), <1>0, <1>4, <2>2 DEF QueueShape, LoopInv
    <3>2. Live(pageQueue) = Slots
      BY ZenonT(60), <1>2, <3>1, PermutedPositions
    <3> QED BY <1>1, <2>1, <3>1, <3>2 DEF Permuted
  <2>3. CASE algorithm # "Optimal" /\ victimFrameNum = -1
    <3>1. FullRing(pageQueue)
      BY ZenonT(60), <1>0, <1>4, <2>3 DEF QueueShape, TurningShape
    <3>2. Live(pageQueue) = Slots
      BY ZenonT(60), <3>1, FullRingLive
    <3> QED BY SMTT(60), <1>1, <2>1, <2>3, <3>1, <3>2 DEF FullRing
  <2>4. CASE algorithm # "Optimal" /\ victimFrameNum # -1
    <3>1. GapRing(pageQueue, victimFrameNum) /\ victimFrameNum \in Slots
      BY ZenonT(60), <1>0, <1>1, <1>4, <2>4 DEF QueueShape, TurningShape, TypeOK
    <3>2. Live(pageQueue) = Slots \ {victimFrameNum}
      BY <3>1, GapRingLive
    <3> QED BY <1>1, <2>1, <3>1, <3>2 DEF GapRing
  <2> QED BY SMTT(60), <2>2, <2>3, <2>4
<1> QED BY <1>3, <1>4

-----------------------------------------------------------------------------

(* The inductive invariant holds in every reachable state.                 *)
THEOREM Invariance == Spec => []IInv
<1>1. IInv /\ [Next]_vars => IInv'
  BY NextIInv
<1> QED BY <1>1, InitIInv, PTL DEF Spec

(* Every variable keeps its range, whatever the sizes and the addresses:   *)
(* no function of as4.c writes or reads outside an array.                  *)
THEOREM TypeCorrect == Spec => []TypeOK
<1>1. IInv => TypeOK
  BY DEF IInv
<1> QED BY <1>1, Invariance, PTL

(* The page table and physical memory always describe one injective        *)
(* mapping, under all four algorithms.                                     *)
THEOREM MappingCorrect == Spec => []MappingInv
<1>1. IInv => MappingInv
  BY DEF IInv
<1> QED BY <1>1, Invariance, PTL

(* The queue always holds each occupied frame once.                        *)
THEOREM QueueCorrect == Spec => []QueueInv
<1>1. IInv => QueueInv
  BY ZenonT(60), ShapeGivesQueueInv
<1> QED BY <1>1, Invariance, PTL

(* The physical address of every row is its frame and offset.              *)
THEOREM TranslationCorrect == Spec => []RowsTranslate
<1>1. IInv => RowsTranslate
  BY DEF IInv
<1> QED BY <1>1, Invariance, PTL

(* A row says H exactly when its page was resident, and names the frame    *)
(* the page is in afterwards.                                              *)
THEOREM ResidencyCorrect == Spec => RowsTellResidency
<1>1. IInv /\ [Next]_vars => [ResidencyStep]_vars
  BY NextIInv
<1>2. Spec => [][ResidencyStep]_vars
  BY <1>1, Invariance, PTL DEF Spec
<1> QED BY <1>2 DEF RowsTellResidency, ResidencyStep

-----------------------------------------------------------------------------
(* The rows and counters while an address is left.                         *)
LEMMA StatisticsStep ==
  ASSUME TypeOK, StatisticsAgree, currentIndex \in Index, NEW result, Record(result)
  PROVE  StatisticsAgree'
<1>0. /\ output \in Seq(Row) /\ pageHits \in Nat /\ pageFaults \in Nat
      /\ NUM_ADDRESSES \in Nat /\ currentIndex \in Nat /\ currentIndex < NUM_ADDRESSES
      /\ Len(output) = currentIndex /\ pageHits + pageFaults = currentIndex
      /\ pageFaults = Cardinality(FaultRows)
  BY SimulatorAssumption DEF TypeOK, StatisticsAgree, Index
<1>1. PICK row : /\ output' = Append(output, row)
                 /\ row.pageFault = IF result = 1 THEN "H" ELSE "F"
  BY DEF Record
<1>2. /\ pageHits' = IF result = 1 THEN pageHits + 1 ELSE pageHits
      /\ pageFaults' = IF result = 1 THEN pageFaults ELSE pageFaults + 1
      /\ total' = IF currentIndex = NUM_ADDRESSES - 1 THEN pageFaults' ELSE total
      /\ currentIndex' = currentIndex + 1
  BY Zenon DEF Record
<1>3. PICK o, w, n : /\ o = output /\ w = output' /\ n = Len(o) + 1 /\ o \in Seq(Row)
                     /\ w = Append(o, row) /\ n = currentIndex + 1
  BY ZenonT(60), <1>0, <1>1
<1>4. /\ Len(o) \in Nat /\ Len(w) = n /\ w[n] = row /\ n \notin 1 .. Len(o)
      /\ \A i \in 1 .. Len(o) : w[i] = o[i]
      /\ \A i : i \in 1 .. n <=> i \in 1 .. Len(o) \/ i = n
  BY <1>3
<1>5. FaultRows' = IF result = 1 THEN FaultRows ELSE FaultRows \cup {n}
  <2>1. \A i : i \in FaultRows <=> i \in 1 .. Len(o) /\ o[i].pageFault = "F"
    BY Zenon, <1>3 DEF FaultRows
  <2>2. \A i : i \in FaultRows' <=> i \in 1 .. n /\ w[i].pageFault = "F"
    BY Zenon, <1>3, <1>4 DEF FaultRows
  <2>3. CASE result = 1
    <3>1. w[n].pageFault # "F"
      BY <1>1, <1>4, <2>3
    <3> QED
      BY ZenonT(60), <1>4, <2>1, <2>2, <2>3, <3>1
  <2>4. CASE result # 1
    <3>1. w[n].pageFault = "F"
      BY Zenon, <1>1, <1>4, <2>4
    <3> QED
      BY ZenonT(60), <1>4, <2>1, <2>2, <2>4, <3>1
  <2> QED
    BY Zenon, <2>3, <2>4
<1>6. IsFiniteSet(FaultRows) /\ n \notin FaultRows
  <2>1. FaultRows \subseteq 1 .. Len(o)
    BY ZenonT(60), <1>3 DEF FaultRows
  <2>2. IsFiniteSet(1 .. Len(o))
    BY <1>4, FS_Interval
  <2> QED
    BY ZenonT(60), <1>4, <2>1, <2>2, FS_Subset
<1>7. Cardinality(FaultRows \cup {n}) = Cardinality(FaultRows) + 1
  BY Zenon, <1>6, FS_AddElement
<1>8. pageFaults' = Cardinality(FaultRows')
  BY ZenonT(60), <1>0, <1>2, <1>5, <1>7
<1>9. Len(output') = currentIndex' /\ pageHits' + pageFaults' = currentIndex'
  <2>1. Len(output') = currentIndex'
    BY ZenonT(60), <1>2, <1>3, <1>4
  <2>2. pageHits' + pageFaults' = currentIndex'
    BY SMTT(60), <1>0, <1>2
  <2> QED
    BY Zenon, <2>1, <2>2
<1>10. currentIndex' = NUM_ADDRESSES => total' = pageFaults'
  BY <1>0, <1>2
<1> QED
  BY ZenonT(60), <1>8, <1>9, <1>10 DEF StatisticsAgree

(* The counters of main() agree with the rows of the output file after     *)
(* every address, whatever the algorithm, and the total with its F rows.   *)
THEOREM StatisticsCorrect == Spec => []StatisticsAgree
<1>1. Init => StatisticsAgree
  <2> SUFFICES ASSUME Init PROVE StatisticsAgree
    OBVIOUS
  <2>1. output = << >> /\ currentIndex = 0 /\ pageHits = 0 /\ pageFaults = 0
    BY Zenon DEF Init
  <2>2. FaultRows = {}
    BY <2>1 DEF FaultRows
  <2>3. Cardinality(FaultRows) = 0
    BY ZenonT(60), <2>2, FS_EmptySet
  <2>4. NUM_ADDRESSES # 0 /\ Len(output) = 0 /\ 0 + 0 = 0
    BY <2>1, SimulatorAssumption
  <2> QED
    BY ZenonT(60), <2>1, <2>3, <2>4 DEF StatisticsAgree
<1>2. IInv /\ StatisticsAgree /\ [Next]_vars => StatisticsAgree'
  <2> SUFFICES ASSUME IInv, StatisticsAgree, [Next]_vars PROVE StatisticsAgree'
    OBVIOUS
  <2>0. TypeOK /\ LoopInv
    BY Zenon DEF IInv
  <2>1. ASSUME UNCHANGED <<output, currentIndex, pageHits, pageFaults, total>>
        PROVE  StatisticsAgree'
    BY Zenon, <2>1 DEF StatisticsAgree, FaultRows
  <2>2. CASE SCTakeVictim \/ SCGiveChance \/ Finish \/ UNCHANGED vars
    BY ZenonT(60), <2>1, <2>2 DEF SCTakeVictim, SCGiveChance, Finish, vars
  <2>3. ASSUME NEW alg, Referencing(alg) PROVE currentIndex \in Index
    BY <2>0, <2>3, SimulatorAssumption DEF TypeOK, Referencing, Index
  <2>4. CASE replacePageOptimal
    BY ZenonT(60), <2>0, <2>3, <2>4, StatisticsStep
       DEF replacePageOptimal, Hit, FillFrame, OptimalReplace
  <2>5. CASE replacePageFIFO
    BY ZenonT(60), <2>0, <2>3, <2>5, StatisticsStep DEF replacePageFIFO, Hit, FillFrame, FIFOReplace
  <2>6. CASE replacePageLRU
    BY ZenonT(60), <2>0, <2>3, <2>6, StatisticsStep DEF replacePageLRU, Hit, FillFrame, LRUReplace
  <2>7. CASE replacePageSC
    BY ZenonT(60), <2>0, <2>2, <2>3, <2>7, StatisticsStep DEF replacePageSC, SCHit, FillFrame
  <2>8. CASE SCReplace
    <3>1. pc = "second_chance" /\ Record(0)
      BY Zenon, <2>8 DEF SCReplace
    <3>2. currentIndex \in Index
      BY Zenon, <2>0, <3>1 DEF LoopInv
    <3> QED
      BY ZenonT(60), <2>0, <3>1, <3>2, StatisticsStep
  <2> QED
    BY ZenonT(60), <2>2, <2>4, <2>5, <2>6, <2>7, <2>8 DEF Next
<1> QED
  BY <1>1, <1>2, Invariance, PTL DEF Spec

=============================================================================
