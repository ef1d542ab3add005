-------------------------- MODULE PageReplacement --------------------------
(***************************************************************************)
(* The page-replacement simulator of src/4/as4.c from the point where the  *)
(* addresses have been read: main's loop over the address string, the four *)
(* replacePage functions, and the row each reference adds to the output    *)
(* file.  State is named after the C variables:                            *)
(*   infos      virtualAddressInfoArray (virtualAddress, pageNum)          *)
(*   pageTable  one entry per page (pageNum, frameNum, referenceBit)       *)
(*   frames     physicalMemoryInfoArray (isOccupied, frameNum,             *)
(*              physicalAddress)                                           *)
(*   pageQueue  the circular queue of frame numbers (module PageQueue)     *)
(* Arrays are functions on the C index range; -1 is the C sentinel.        *)
(***************************************************************************)
EXTENDS Integers, Sequences, FiniteSetsExt

CONSTANTS
  NUM_ADDRESSES,   (* length of the address array (5000)                   *)
  totalPage,       (* entries of the page table                            *)
  totalFrame,      (* entries of physical memory                           *)
  pageSizeByte,    (* bytes per page                                       *)
  Inputs,          (* the address arrays the read loop can leave behind    *)
  Algorithms       (* the replacement algorithms the user may pick         *)

Index  == 0 .. NUM_ADDRESSES - 1
Pages  == 0 .. totalPage - 1
Frames == 0 .. totalFrame - 1

maxAddress == totalPage * pageSizeByte - 1

(* main's menu gives at least 8 frames; three are enough for every proof.  *)
(* An address is in range or is the -1 the array was created with, left    *)
(* where the input file was too short.                                     *)
ASSUME SimulatorAssumption ==
  /\ NUM_ADDRESSES \in Nat \ {0}
  /\ totalPage \in Nat \ {0}
  /\ totalFrame \in Nat /\ totalFrame >= 3
  /\ pageSizeByte \in Nat /\ pageSizeByte >= 2
  /\ Inputs \subseteq [Index -> -1 .. maxAddress]
  /\ Algorithms \subseteq {"Optimal", "FIFO", "LRU", "SC"}

INSTANCE PageQueue WITH maxSize <- totalFrame

VARIABLES
  algorithm,        (* pageReplacementAlgorithm                            *)
  infos, pageTable, frames, pageQueue,
  currentIndex,     (* main's loop counter i                               *)
  pc,               (* "reference", "second_chance" or "done"              *)
  victimFrameNum,   (* the frame replacePageSC has in hand, else -1        *)
  pageHits, pageFaults,
  output,           (* the rows written to the output file                 *)
  total             (* the fault total on its last line, -1 before         *)

vars == <<algorithm, infos, pageTable, frames, pageQueue, currentIndex, pc,
          victimFrameNum, pageHits, pageFaults, output, total>>

-----------------------------------------------------------------------------
(* C's / and %, which round towards zero: -1 / 1024 = 0, -1 % 1024 = -1.   *)
Quotient(a, b)  == IF a < 0 THEN -((-a) \div b) ELSE a \div b
Remainder(a, b) == a - b * Quotient(a, b)

(* The current reference: its address and what the callees derive from it.   *)
va      == infos[currentIndex].virtualAddress
pageNum == Quotient(va, pageSizeByte)
offset  == Remainder(va, pageSizeByte)

(* The last page-table entry that names the frame stored in frames[f].     *)
pageNumFromFrame(f) ==
  LET js == {j \in Pages : pageTable[j].frameNum = frames[f].frameNum}
  IN  IF js = {} THEN -1 ELSE pageTable[Max(js)].pageNum

HitFrames ==
  {f \in Frames : /\ frames[f].isOccupied = 1
                  /\ infos[currentIndex].pageNum = pageNumFromFrame(f)}

FreeFrames == {f \in Frames : frames[f].isOccupied = 0}

(* The frame number printed in a row: the first entry for the page.  With  *)
(* no entry the C function returns no value; -1 stands for that.           *)
getFrameNumFromVA(addr, table) ==
  LET js == {j \in Pages : table[j].pageNum = Quotient(addr, pageSizeByte)}
  IN  IF js = {} THEN -1 ELSE table[Min(js)].frameNum

(* The physical address printed in a row: of the first frame that carries  *)
(* the frame number of the last entry for the page.                        *)
getPhysicalAddressFromVA(addr, table, mem) ==
  LET js    == {j \in Pages : table[j].pageNum = Quotient(addr, pageSizeByte)}
      match == {f \in Frames : mem[f].frameNum = table[Max(js)].frameNum}
  IN  IF js = {} \/ match = {} THEN -1 ELSE mem[Min(match)].physicalAddress

-----------------------------------------------------------------------------
(* Mutant of Record that prints the total before the last fault is counted. *)
RecordEarlyTotal(result) ==
  /\ pageHits' = IF result = 1 THEN pageHits + 1 ELSE pageHits
  /\ pageFaults' = IF result = 1 THEN pageFaults ELSE pageFaults + 1
  /\ output' = Append(output,
       [virtualAddress |-> va,
        pageNum        |-> infos'[currentIndex].pageNum,
        frameNum       |-> getFrameNumFromVA(va, pageTable'),
        physicalAddress|-> getPhysicalAddressFromVA(va, pageTable', frames'),
        pageFault      |-> IF result = 1 THEN "H" ELSE "F"])
  /\ total' = IF currentIndex = NUM_ADDRESSES - 1 THEN pageFaults ELSE total
  /\ currentIndex' = currentIndex + 1
  /\ UNCHANGED algorithm

(* What main does with a callee's result: count it, write the row, move to *)
(* the next address.  The last row is followed by the fault total.         *)
Record(result) ==
  /\ pageHits' = IF result = 1 THEN pageHits + 1 ELSE pageHits
  /\ pageFaults' = IF result = 1 THEN pageFaults ELSE pageFaults + 1
  /\ output' = Append(output,
       [virtualAddress |-> va,
        pageNum        |-> infos'[currentIndex].pageNum,
        frameNum       |-> getFrameNumFromVA(va, pageTable'),
        physicalAddress|-> getPhysicalAddressFromVA(va, pageTable', frames'),
        pageFault      |-> IF result = 1 THEN "H" ELSE "F"])
  /\ total' = IF currentIndex = NUM_ADDRESSES - 1 THEN pageFaults' ELSE total
  /\ currentIndex' = currentIndex + 1
  /\ UNCHANGED algorithm

(* Mutant of TouchFrame that leaves the old physical address.              *)
TouchFrameNot == UNCHANGED frames

(* The current page is in memory: refresh the frame's physical address.    *)
TouchFrame ==
  LET f == Min(HitFrames)
  IN  frames' = [frames EXCEPT ![f].physicalAddress = f * pageSizeByte + offset]

(* Put the current page into frame f; a frame number outside the array     *)
(* writes none of its cells.                                               *)
LoadFrame(f) ==
  /\ infos' = [infos EXCEPT ![currentIndex].pageNum = pageNum]
  /\ frames' = [frames EXCEPT ![f] =
                  [isOccupied |-> 1, frameNum |-> f,
                   physicalAddress |-> f * pageSizeByte + offset]]

(* The page table once the current page has frame f, its reference bit is  *)
(* bit, and the entries in old have been cleared.                          *)
Remapped(f, bit, old) ==
  [j \in Pages |->
     IF j = pageNum
     THEN [pageNum |-> pageNum, frameNum |-> f, referenceBit |-> bit]
     ELSE IF j \in old
          THEN [pageTable[j] EXCEPT !.frameNum = -1, !.pageNum = -1]
          ELSE pageTable[j]]

(* Mutant of StaleEntries: the victim's page keeps its frame.              *)
StaleEntriesKept(f) == {}

(* The entries of other pages that still name frame f.                     *)
StaleEntries(f) ==
  {j \in Pages : pageTable[j].frameNum = f /\ pageTable[j].pageNum # pageNum}

(* Mutant of Hit that returns 0.                                           *)
HitReturnsFault ==
  /\ HitFrames # {}
  /\ TouchFrame
  /\ UNCHANGED <<infos, pageTable, pageQueue, pc, victimFrameNum>>
  /\ Record(0)

(* A reference to a page in memory, common to Optimal, FIFO and LRU.       *)
Hit ==
  /\ HitFrames # {}
  /\ TouchFrame
  /\ UNCHANGED <<infos, pageTable, pageQueue, pc, victimFrameNum>>
  /\ Record(1)

(* A fault while a frame is free: take the first one.                      *)
FillFrame(bit, queue) ==
  LET f == Min(FreeFrames)
  IN  /\ HitFrames = {} /\ FreeFrames # {}
      /\ LoadFrame(f)
      /\ pageTable' = Remapped(f, bit, {})
      /\ pageQueue' = queue
      /\ UNCHANGED <<pc, victimFrameNum>>
      /\ Record(0)

Full == HitFrames = {} /\ FreeFrames = {}

Referencing(alg) ==
  /\ pc = "reference" /\ algorithm = alg /\ currentIndex < NUM_ADDRESSES

-----------------------------------------------------------------------------
(* The page in frame f as the victim searches see it: the first entry that *)
(* names the frame, page 0 if none does.                                   *)
pageNumforSearch(f) ==
  LET js == {j \in Pages : pageTable[j].frameNum = frames[f].frameNum}
  IN  IF js = {} THEN 0 ELSE pageTable[Min(js)].pageNum

(* Mutant of maxDistanceFrameNum that takes the smallest.                  *)
minDistanceFrameNum(distances) ==
  Min({f \in Frames : \A g \in Frames : distances[g] >= distances[f]})

(* The first frame whose distance is the largest.                          *)
maxDistanceFrameNum(distances) ==
  Min({f \in Frames : \A g \in Frames : distances[g] <= distances[f]})

(* Optimal: how far ahead each frame's page is next used, NUM_ADDRESSES    *)
(* (the C literal 5000) when it is not.                                    *)
NextUseDistances ==
  [f \in Frames |->
     LET uses == {j \in currentIndex .. NUM_ADDRESSES - 1 :
                    infos[j].pageNum = pageNumforSearch(f)}
     IN  IF uses = {} THEN NUM_ADDRESSES ELSE Min(uses) - currentIndex]

(* Mutants of firstOutFrameNum: one that compares with NUM_ADDRESSES + 1,  *)
(* one that takes the last of the queue.                                   *)
firstOutFrameNumOffByOne(distances) ==
  LET pos(f) == findPositionInQueue(pageQueue, f)
      queued == {f \in Frames :
                   distances[f] = NUM_ADDRESSES + 1 /\ pos(f) # -1}
      first  == {f \in queued : \A g \in queued : pos(f) <= pos(g)}
  IN  IF queued = {} THEN -1 ELSE Min(first)

firstOutFrameNumLast(distances) ==
  LET pos(f) == findPositionInQueue(pageQueue, f)
      queued == {f \in Frames : distances[f] = NUM_ADDRESSES /\ pos(f) # -1}
      first  == {f \in queued : \A g \in queued : pos(f) >= pos(g)}
  IN  IF queued = {} THEN -1 ELSE Min(first)

(* With two or more frames that are not used again, the one at the lowest  *)
(* array position of the queue goes; -1 if none of them is queued.         *)
firstOutFrameNum(distances) ==
  LET pos(f) == findPositionInQueue(pageQueue, f)
      queued == {f \in Frames : distances[f] = NUM_ADDRESSES /\ pos(f) # -1}
      first  == {f \in queued : \A g \in queued : pos(f) <= pos(g)}
  IN  IF queued = {} THEN -1 ELSE Min(first)

OptimalVictim ==
  LET notAppear == {f \in Frames : NextUseDistances[f] = NUM_ADDRESSES}
  IN  IF \E f, g \in notAppear : f # g
      THEN firstOutFrameNum(NextUseDistances)
      ELSE maxDistanceFrameNum(NextUseDistances)

OptimalReplace ==
  LET f == OptimalVictim
  IN  /\ Full
      /\ LoadFrame(f)
      /\ pageTable' = Remapped(f, pageTable[pageNum].referenceBit,
                               StaleEntries(f))
      /\ pageQueue' = enqueue(removeFrameFromQueue(pageQueue, f), f)
      /\ UNCHANGED <<pc, victimFrameNum>>
      /\ Record(0)

replacePageOptimal ==
  /\ Referencing("Optimal")
  /\ \/ Hit
     \/ FillFrame(pageTable[pageNum].referenceBit,
                  enqueue(pageQueue, Min(FreeFrames)))
     \/ OptimalReplace

(* Mutant of FIFOReplace that takes the frame at the rear.                 *)
FIFOReplaceNewest ==
  LET f == pageQueue.items[pageQueue.rear]
  IN  /\ Full
      /\ LoadFrame(f)
      /\ pageTable' = Remapped(f, pageTable[pageNum].referenceBit,
                               {pageTable[j].pageNum : j \in StaleEntries(f)})
      /\ UNCHANGED <<pageQueue, pc, victimFrameNum>>
      /\ Record(0)

(* FIFO clears the entry whose index is the page number it finds.          *)
FIFOReplace ==
  LET f == dequeuedItem(pageQueue)
  IN  /\ Full
      /\ LoadFrame(f)
      /\ pageTable' = Remapped(f, pageTable[pageNum].referenceBit,
                               {pageTable[j].pageNum : j \in StaleEntries(f)})
      /\ pageQueue' = enqueue(dequeue(pageQueue), f)
      /\ UNCHANGED <<pc, victimFrameNum>>
      /\ Record(0)

replacePageFIFO ==
  /\ Referencing("FIFO")
  /\ \/ Hit
     \/ FillFrame(pageTable[pageNum].referenceBit,
                  enqueue(pageQueue, Min(FreeFrames)))
     \/ FIFOReplace

(* Mutant of LastUseDistances that searches forward from the start.        *)
LastUseDistancesFirst ==
  [f \in Frames |->
     LET uses == {j \in 0 .. currentIndex :
                    infos[j].pageNum = pageNumforSearch(f)}
     IN  IF uses # {} THEN currentIndex - Min(uses)
         ELSE IF currentIndex = NUM_ADDRESSES - 1 THEN NUM_ADDRESSES ELSE 0]

(* LRU: how long ago each frame's page was last used.  The backward search *)
(* passes j = 4999 only from the last address.                             *)
LastUseDistances ==
  [f \in Frames |->
     LET uses == {j \in 0 .. currentIndex :
                    infos[j].pageNum = pageNumforSearch(f)}
     IN  IF uses # {} THEN currentIndex - Max(uses)
         ELSE IF currentIndex = NUM_ADDRESSES - 1 THEN NUM_ADDRESSES ELSE 0]

LRUReplace ==
  LET f == maxDistanceFrameNum(LastUseDistances)
  IN  /\ Full
      /\ LoadFrame(f)
      /\ pageTable' = Remapped(f, pageTable[pageNum].referenceBit,
                               StaleEntries(f))
      /\ UNCHANGED <<pageQueue, pc, victimFrameNum>>
      /\ Record(0)

replacePageLRU ==
  /\ Referencing("LRU")
  /\ \/ Hit
     \/ FillFrame(pageTable[pageNum].referenceBit, pageQueue)
     \/ LRUReplace

(* Mutant of SCHit that does not set the reference bit.                    *)
SCHitNoBit ==
  /\ HitFrames # {}
  /\ TouchFrame
  /\ UNCHANGED <<infos, pageTable, pageQueue, pc, victimFrameNum>>
  /\ Record(1)

(* Second-Chance: a hit sets the reference bit of the page in the frame.   *)
SCHit ==
  /\ HitFrames # {}
  /\ TouchFrame
  /\ pageTable' = [pageTable EXCEPT
                     ![pageNumFromFrame(Min(HitFrames))].referenceBit = 1]
  /\ UNCHANGED <<infos, pageQueue, pc, victimFrameNum>>
  /\ Record(1)

(* A fault with no free frame takes the frame at the head of the queue.    *)
SCTakeVictim ==
  /\ Full
  /\ victimFrameNum' = dequeuedItem(pageQueue)
  /\ pageQueue' = dequeue(pageQueue)
  /\ pc' = "second_chance"
  /\ UNCHANGED <<algorithm, infos, pageTable, frames, currentIndex, pageHits,
                 pageFaults, output, total>>

replacePageSC ==
  /\ Referencing("SC")
  /\ \/ SCHit
     \/ FillFrame(0, enqueue(pageQueue, Min(FreeFrames)))
     \/ SCTakeVictim

(* The page of the frame in hand, -1 if no entry names the frame.          *)
victimPageNum ==
  LET js == {j \in Pages : pageTable[j].frameNum = victimFrameNum}
  IN  IF js = {} THEN -1 ELSE pageTable[Min(js)].pageNum

(* Mutant of SCGiveChance that leaves the reference bit set.               *)
SCGiveChanceKeepsBit ==
  LET again == enqueue(pageQueue, victimFrameNum)
  IN  /\ pc = "second_chance"
      /\ victimPageNum # -1 /\ pageTable[victimPageNum].referenceBit = 1
      /\ victimFrameNum' = dequeuedItem(again)
      /\ pageQueue' = dequeue(again)
      /\ UNCHANGED <<algorithm, infos, pageTable, frames, currentIndex, pc,
                     pageHits, pageFaults, output, total>>

(* One round of the victim loop: a referenced page loses its bit, its      *)
(* frame goes back to the tail, and the next frame is taken.               *)
SCGiveChance ==
  LET again == enqueue(pageQueue, victimFrameNum)
  IN  /\ pc = "second_chance"
      /\ victimPageNum # -1 /\ pageTable[victimPageNum].referenceBit = 1
      /\ pageTable' = [pageTable EXCEPT ![victimPageNum].referenceBit = 0]
      /\ victimFrameNum' = dequeuedItem(again)
      /\ pageQueue' = dequeue(again)
      /\ UNCHANGED <<algorithm, infos, frames, currentIndex, pc, pageHits,
                     pageFaults, output, total>>

(* Mutant of SCReplace that does not queue the frame again.                *)
SCReplaceNoEnqueue ==
  /\ pc = "second_chance"
  /\ victimPageNum = -1 \/ pageTable[victimPageNum].referenceBit # 1
  /\ LoadFrame(victimFrameNum)
  /\ pageTable' = Remapped(victimFrameNum, 0, StaleEntries(victimFrameNum))
  /\ UNCHANGED pageQueue
  /\ victimFrameNum' = -1
  /\ pc' = "reference"
  /\ Record(0)

(* The loop stops at an unreferenced page, which is replaced.              *)
SCReplace ==
  /\ pc = "second_chance"
  /\ victimPageNum = -1 \/ pageTable[victimPageNum].referenceBit # 1
  /\ LoadFrame(victimFrameNum)
  /\ pageTable' = Remapped(victimFrameNum, 0, StaleEntries(victimFrameNum))
  /\ pageQueue' = enqueue(pageQueue, victimFrameNum)
  /\ victimFrameNum' = -1
  /\ pc' = "reference"
  /\ Record(0)

(* The loop over the addresses is over: the files are closed.              *)
Finish ==
  /\ pc = "reference" /\ currentIndex = NUM_ADDRESSES
  /\ pc' = "done"
  /\ UNCHANGED <<algorithm, infos, pageTable, frames, pageQueue, currentIndex,
                 victimFrameNum, pageHits, pageFaults, output, total>>

-----------------------------------------------------------------------------
(* The page numbers are filled in for the whole array before the loop.     *)
Init ==
  /\ algorithm \in Algorithms
  /\ \E addr \in Inputs :
       infos = [n \in Index |->
                  [virtualAddress |-> addr[n],
                   pageNum |-> Quotient(addr[n], pageSizeByte)]]
  /\ pageTable = [j \in Pages |->
                    [pageNum |-> -1, frameNum |-> -1, referenceBit |-> 0]]
  /\ frames = [f \in Frames |->
                 [isOccupied |-> 0, frameNum |-> -1, physicalAddress |-> -1]]
  /\ pageQueue = initializePageQueue
  /\ currentIndex = 0 /\ pc = "reference" /\ victimFrameNum = -1
  /\ pageHits = 0 /\ pageFaults = 0 /\ output = << >> /\ total = -1

Next ==
  \/ replacePageOptimal
  \/ replacePageFIFO
  \/ replacePageLRU
  \/ replacePageSC \/ SCGiveChance \/ SCReplace
  \/ Finish

Spec == Init /\ [][Next]_vars

(* The simulator is one sequential process that only stops at its end.  A  *)
(* step of replacePageOptimal is one that moves to the next address, which *)
(* is all its fairness has to say.                                         *)
FairSpec ==
  /\ Spec
  /\ WF_currentIndex(Referencing("Optimal") /\ currentIndex' = currentIndex + 1)
  /\ WF_vars(\/ replacePageFIFO \/ replacePageLRU
             \/ replacePageSC \/ SCGiveChance \/ SCReplace
             \/ Finish)

-----------------------------------------------------------------------------
Occupied == {f \in Frames : frames[f].isOccupied = 1}

PageEntry == [pageNum : Pages \union {-1}, frameNum : Frames \union {-1},
              referenceBit : {0, 1}]

FrameEntry == [isOccupied : {0, 1}, frameNum : Frames \union {-1},
               physicalAddress : -1 .. totalFrame * pageSizeByte - 1]

AddressInfo == [virtualAddress : -1 .. maxAddress, pageNum : Pages]

Row == [virtualAddress : -1 .. maxAddress, pageNum : Pages,
        frameNum : Frames,
        physicalAddress : -1 .. totalFrame * pageSizeByte - 1,
        pageFault : {"H", "F"}]

(* Every variable stays in the range its C declaration and use give it;    *)
(* in particular every row names a real frame and no index leaves its      *)
(* array (as4.c:202-624, 806-873).                                         *)
TypeOK ==
  /\ algorithm \in Algorithms
  /\ infos \in [Index -> AddressInfo]
  /\ pageTable \in [Pages -> PageEntry]
  /\ frames \in [Frames -> FrameEntry]
  /\ pageQueue \in [items : [Slots -> Int], front : Slots \union {-1},
                    rear : Slots \union {-1}]
  /\ currentIndex \in 0 .. NUM_ADDRESSES
  /\ pc \in {"reference", "second_chance", "done"}
  /\ victimFrameNum \in Frames \union {-1}
  /\ pageHits \in Nat /\ pageFaults \in Nat
  /\ output \in Seq(Row)
  /\ total \in Nat \union {-1}

(* The page table and physical memory describe the same mapping: an entry  *)
(* is either cleared or names its own page and an occupied frame, two      *)
(* pages never share a frame, and every occupied frame holds a page.  All  *)
(* four functions update the two arrays separately (as4.c:320-338,         *)
(* 412-427, 528-540, 592-607).                                             *)
MappingInv ==
  /\ \A p \in Pages :
       \/ pageTable[p].pageNum = -1 /\ pageTable[p].frameNum = -1
       \/ pageTable[p].pageNum = p /\ pageTable[p].frameNum \in Occupied
  /\ \A p, r \in Pages :
       pageTable[p].frameNum = pageTable[r].frameNum
         => p = r \/ pageTable[p].frameNum = -1
  /\ \A f \in Frames :
       IF f \in Occupied
       THEN frames[f].frameNum = f
            /\ \E p \in Pages : pageTable[p].frameNum = f
       ELSE frames[f].frameNum = -1

(* Under the algorithms that use the queue every occupied frame, but for   *)
(* the one Second-Chance has in hand, is queued exactly once: enqueue      *)
(* never finds the queue full and dequeue never finds it empty             *)
(* (as4.c:62-129, 238, 327-329, 392-403, 429, 589, 609).                   *)
QueueInv ==
  algorithm # "LRU" =>
    /\ \A s \in Live(pageQueue) :
         pageQueue.items[s] \in Occupied \ {victimFrameNum}
    /\ \A s, t \in Live(pageQueue) :
         pageQueue.items[s] = pageQueue.items[t] => s = t
    /\ \A f \in Occupied \ {victimFrameNum} :
         \E s \in Live(pageQueue) : pageQueue.items[s] = f

FaultRows == {n \in 1 .. Len(output) : output[n].pageFault = "F"}

(* The statistics agree with the rows: every address handled has a row,    *)
(* the counters count the rows' letters, and the total on the last line is *)
(* the number of F rows (as4.c:818-871).                                   *)
StatisticsAgree ==
  /\ Len(output) = currentIndex /\ pageHits + pageFaults = currentIndex
  /\ pageFaults = Cardinality(FaultRows)
  /\ currentIndex = NUM_ADDRESSES => total = Cardinality(FaultRows)

(* Each row's physical address is the row's frame and the address's        *)
(* offset, although it is looked up through two linear searches after the  *)
(* tables have changed (as4.c:177-200, 864-865).                           *)
RowsTranslate ==
  \A n \in 1 .. Len(output) :
    output[n].physicalAddress =
      output[n].frameNum * pageSizeByte
        + Remainder(output[n].virtualAddress, pageSizeByte)

(* Only addresses of the chosen length are simulated: main says "a virtual *)
(* address outside the given length was found, the program ends" and exits *)
(* for any other (as4.c:771-774).                                          *)
SimulatedAddressesInRange ==
  \A n \in 1 .. Len(output) : output[n].virtualAddress \in 0 .. maxAddress

(* A row says H exactly when the page was in memory before the reference,  *)
(* and the page is in memory, in the row's frame, after it                 *)
(* (as4.c:208-225 and its copies, 861-866).                                *)
RowsTellResidency ==
  [][Len(output') > Len(output) =>
       LET row == output'[Len(output')]
       IN  /\ (row.pageFault = "H") <=>
                (\E f \in Frames : pageTable[row.pageNum].frameNum = f)
           /\ pageTable'[row.pageNum].frameNum = row.frameNum]_vars

-----------------------------------------------------------------------------
(* The history of a frame, read from the rows.                             *)
Evicts(f) ==
  \E p \in Pages : /\ pageTable[p].frameNum = f
                   /\ pageTable'[p].frameNum = -1
LoadedAt(f) == Max({n \in FaultRows : output[n].frameNum = f})
UsedAt(f)   == Max({n \in 1 .. Len(output) : output[n].frameNum = f})
HitSince(f, n) ==
  \E m \in n + 1 .. Len(output) :
    output[m].frameNum = f /\ output[m].pageFault = "H"

(* FIFO evicts the page that was loaded first (as4.c:587-609).             *)
FIFOEvictsOldest ==
  [][algorithm = "FIFO" =>
       \A f, g \in Frames : Evicts(f) => LoadedAt(f) <= LoadedAt(g)]_vars

(* LRU evicts the page whose last reference is the oldest                  *)
(* (as4.c:489-533).                                                        *)
LRUEvictsLeastRecent ==
  [][algorithm = "LRU" =>
       \A f, g \in Frames : Evicts(f) => UsedAt(f) <= UsedAt(g)]_vars

(* Second-Chance spares a page hit since the last fault unless every page  *)
(* in memory has been hit since it was loaded, and among pages never hit   *)
(* it evicts in loading order (as4.c:390-429).                             *)
SCGivesSecondChance ==
  [][algorithm = "SC" =>
       \A f \in Frames : Evicts(f) =>
         /\ HitSince(f, Max(FaultRows))
              => \A g \in Frames : HitSince(g, LoadedAt(g))
         /\ ~HitSince(f, LoadedAt(f))
              => \A g \in Frames :
                   LoadedAt(g) < LoadedAt(f) => HitSince(g, LoadedAt(g))]_vars

(* The next reference to the page in frame f, NUM_ADDRESSES if none.       *)
NextUse(f) ==
  LET uses == {n \in currentIndex + 1 .. NUM_ADDRESSES - 1 :
                 pageTable[infos[n].pageNum].frameNum = f}
  IN  IF uses = {} THEN NUM_ADDRESSES ELSE Min(uses)

(* Optimal evicts a page whose next use is the farthest, and of several    *)
(* that are not used again the one loaded first: comparing array positions *)
(* of the ring is comparing ages (as4.c:244-327).                          *)
OptimalEvictsFarthest ==
  [][algorithm = "Optimal" =>
       \A f, g \in Frames : Evicts(f) =>
         /\ NextUse(f) >= NextUse(g)
         /\ NextUse(f) = NextUse(g) => LoadedAt(f) <= LoadedAt(g)]_vars

(* Each algorithm evicts the page its policy names (as4.c:202-624).        *)
EvictsByPolicy ==
  /\ FIFOEvictsOldest
  /\ LRUEvictsLeastRecent
  /\ SCGivesSecondChance
  /\ OptimalEvictsFarthest

(* The simulation ends, also through Second-Chance's loop that restarts    *)
(* itself with j = -1 (as4.c:397-410).                                     *)
Termination == <>(pc = "done")

=============================================================================
