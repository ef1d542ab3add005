-------------------------- MODULE PagePolicyProofs --------------------------
(***************************************************************************)
(* Proofs about PageReplacement, for every stream of addresses and every   *)
(* number of frames, that each algorithm of the simulator evicts the page  *)
(* its policy names: FIFO the oldest, LRU the least recently used, Second- *)
(* Chance the oldest that was not used since, Optimal the one used last.   *)
(***************************************************************************)
EXTENDS PageReplacementProofs

-----------------------------------------------------------------------------
(* Which page goes.  The policies speak of the rows written so far: when a *)
(* frame was loaded and used.  These are the history functions of          *)
(* EvictsByPolicy for any sequence of rows.                                *)
LoadRows(o)     == {n \in 1 .. Len(o) : o[n].pageFault = "F"}
RowsOf(o, f)    == {n \in 1 .. Len(o) : o[n].frameNum = f}
LoadRowsOf(o, f) == {n \in LoadRows(o) : o[n].frameNum = f}
LastLoad(o)     == Max(LoadRows(o))
LoadOf(o, f)    == Max(LoadRowsOf(o, f))
UseOf(o, f)     == Max(RowsOf(o, f))
HitAfter(o, f, n) ==
  \E m \in n + 1 .. Len(o) : o[m].frameNum = f /\ o[m].pageFault = "H"

(* The properties speak of the same functions, of the rows written so far. *)
LEMMA HistoryIs ==
  ASSUME NEW f
  PROVE  /\ LoadedAt(f) = LoadOf(output, f) /\ UsedAt(f) = UseOf(output, f)
         /\ Max(FaultRows) = LastLoad(output)
         /\ \A n : HitSince(f, n) <=> HitAfter(output, f, n)
  BY DEF LoadedAt, LoadOf, LoadRowsOf, LoadRows, FaultRows, UsedAt, UseOf,
     RowsOf, LastLoad, HitSince, HitAfter

(* What row r at the end of o makes of f's history.                        *)
RowAdds(o, r, l, f) ==
  /\ Len(l) = Len(o) + 1
  /\ LoadOf(l, f) = IF r.pageFault = "F" /\ r.frameNum = f THEN Len(l)
                    ELSE LoadOf(o, f)
  /\ UseOf(l, f) = IF r.frameNum = f THEN Len(l) ELSE UseOf(o, f)
  /\ LastLoad(l) = IF r.pageFault = "F" THEN Len(l) ELSE LastLoad(o)
  /\ \A k \in Nat : HitAfter(l, f, k) <=>
       \/ HitAfter(o, f, k)
       \/ r.frameNum = f /\ r.pageFault = "H" /\ k <= Len(o)

(* The largest row of a set that has the last one.                         *)
LEMMA LastIsMax ==
  ASSUME NEW n \in Nat, NEW S \in SUBSET (1 .. n), n \in S
  PROVE  Max(S) = n
<1>1. S \in SUBSET (0 .. n) /\ S # {}
  OBVIOUS
<1>2. Max(S) \in S /\ \A x \in S : x <= Max(S)
  BY Zenon, <1>1, MaxProp
<1>3. PICK m \in 1 .. n : m = Max(S) /\ n <= m
  BY Zenon, <1>2
<1> QED BY <1>3

(* What one more row changes: the history of its own frame.                *)
LEMMA RowHistory ==
  ASSUME NEW o \in Seq(Row), NEW r, NEW l, l = Append(o, r), NEW f
  PROVE  RowAdds(o, r, l, f)
<1>1. PICK n \in Nat : n = Len(o) + 1 /\ Len(o) \in Nat /\ n = Len(l)
  OBVIOUS
<1>2. /\ l[n] = r /\ n \notin 1 .. Len(o)
      /\ \A i \in 1 .. Len(o) : l[i] = o[i]
      /\ \A i : i \in 1 .. n <=> i \in 1 .. Len(o) \/ i = n
  BY <1>1
<1>3. LoadRows(l) = IF r.pageFault = "F" THEN LoadRows(o) \union {n}
                    ELSE LoadRows(o)
  BY <1>2 DEF LoadRows
<1>4. RowsOf(l, f) = IF r.frameNum = f THEN RowsOf(o, f) \union {n}
                     ELSE RowsOf(o, f)
  BY <1>2 DEF RowsOf
<1>5. LoadRowsOf(l, f) = IF r.pageFault = "F" /\ r.frameNum = f
                         THEN LoadRowsOf(o, f) \union {n} ELSE LoadRowsOf(o, f)
  <2>1. \A i \in LoadRows(o) : l[i] = o[i]
    BY DEF LoadRows
  <2> QED BY ZenonT(60), <1>2, <1>3, <2>1 DEF LoadRowsOf
<1>6. /\ LoadRows(l) \in SUBSET (1 .. n) /\ RowsOf(l, f) \in SUBSET (1 .. n)
      /\ LoadRowsOf(l, f) \in SUBSET (1 .. n)
  BY <1>1 DEF LoadRows, RowsOf, LoadRowsOf
<1>7. LoadOf(l, f) = IF r.pageFault = "F" /\ r.frameNum = f THEN n
                     ELSE LoadOf(o, f)
  BY <1>5, <1>6, LastIsMax DEF LoadOf
<1>8. UseOf(l, f) = IF r.frameNum = f THEN n ELSE UseOf(o, f)
  BY <1>4, <1>6, LastIsMax DEF UseOf
<1>9. LastLoad(l) = IF r.pageFault = "F" THEN n ELSE LastLoad(o)
  BY Zenon, <1>3, <1>6, LastIsMax DEF LastLoad
<1>10. ASSUME NEW k \in Nat
       PROVE  HitAfter(l, f, k) <=>
                \/ HitAfter(o, f, k)
                \/ r.frameNum = f /\ r.pageFault = "H" /\ k <= Len(o)
  <2> \A i : i \in k + 1 .. n <=> \/ i \in k + 1 .. Len(o)
                                  \/ i = n /\ k <= Len(o)
    BY <1>1
  <2>2. \A i \in k + 1 .. Len(o) : l[i] = o[i]
    OBVIOUS
  <2> HitAfter(l, f, k) <=>
        \E i \in k + 1 .. n : l[i].frameNum = f /\ l[i].pageFault = "H"
    BY <1>1 DEF HitAfter
  <2>4. HitAfter(o, f, k) <=>
          \E i \in k + 1 .. Len(o) : l[i].frameNum = f /\ l[i].pageFault = "H"
    BY DEF HitAfter
  <2>5. ASSUME HitAfter(l, f, k)
        PROVE  \/ HitAfter(o, f, k)
               \/ r.frameNum = f /\ r.pageFault = "H" /\ k <= Len(o)
    <3>1. PICK i \in k + 1 .. n : l[i].frameNum = f /\ l[i].pageFault = "H"
      BY Zenon, <2>5
    <3>2. i \in k + 1 .. Len(o) \/ (i = n /\ k <= Len(o))
      OBVIOUS
    <3> QED BY <1>2, <2>4, <3>1
  <2>6. HitAfter(o, f, k) => HitAfter(l, f, k)
    BY <2>4
  <2>7. ASSUME r.frameNum = f, r.pageFault = "H", k <= Len(o)
        PROVE  HitAfter(l, f, k)
    <3>1. n \in k + 1 .. n /\ l[n] = r
      BY Zenon, <1>2, <2>7
    <3> QED BY <2>7, <3>1
  <2> QED BY Zenon, <2>5, <2>6, <2>7
<1> QED BY <1>1, <1>7, <1>8, <1>9, <1>10 DEF RowAdds

(* A step that writes one row, of frame g.                                 *)
RowWritten(g, mark) ==
  /\ currentIndex' = currentIndex + 1 /\ algorithm' = algorithm
  /\ infos' = infos
  /\ \E r : output' = Append(output, r) /\ r.frameNum = g /\ r.pageFault = mark

(* The row a reference writes, from the tables it leaves.                  *)
LEMMA RowRecorded ==
  ASSUME IInv, currentIndex \in Index, infos' = infos, MappingInv',
         pageTable' \in [Pages -> PageEntry],
         frames' \in [Frames -> FrameEntry],
         NEW f \in Frames, pageTable'[pageNum].frameNum = f,
         frames'[f].physicalAddress = f * pageSizeByte + offset,
         NEW result \in {0, 1}, Record(result)
  PROVE  RowWritten(f, IF result = 1 THEN "H" ELSE "F")
<1>0. TypeOK /\ MappingInv /\ InfosInv /\ RowsTranslate
  BY DEF IInv
<1> DEFINE row == [virtualAddress |-> va, pageNum |-> pageNum, frameNum |-> f,
                   physicalAddress |-> f * pageSizeByte + offset,
                   pageFault |-> IF result = 1 THEN "H" ELSE "F"]
<1>1. output' = Append(output, row)
  BY Zenon, <1>0, RecordedRow
<1>2. row.frameNum = f /\ row.pageFault = IF result = 1 THEN "H" ELSE "F"
  OBVIOUS
<1>3. currentIndex' = currentIndex + 1 /\ algorithm' = algorithm
  BY DEF Record
<1> HIDE DEF row
<1> QED BY Zenon, <1>1, <1>2, <1>3 DEF RowWritten

(* A hit in frame g: what it changes of the mapping, the bits and the ring.*)
HitIn(g) ==
  /\ g \in Occupied /\ pageNum \in Pages /\ pageTable[pageNum].frameNum = g
  /\ \A j \in Pages : pageTable'[j].frameNum = pageTable[j].frameNum
  /\ algorithm = "SC" =>
       /\ pageTable'[pageNum].referenceBit = 1
       /\ \A j \in Pages \ {pageNum} :
            pageTable'[j].referenceBit = pageTable[j].referenceBit
  /\ Occupied' = Occupied /\ FreeFrames' = FreeFrames
  /\ UNCHANGED <<pageQueue, victimFrameNum>>
  /\ RowWritten(g, "H")

(* The current page loaded into frame g.                                   *)
LoadIn(g) ==
  /\ g \in Frames /\ pageNum \in Pages /\ pageTable[pageNum].frameNum = -1
  /\ \E bit \in {0, 1} : LoadedIn(g, bit) /\ (algorithm = "SC" => bit = 0)
  /\ Occupied' = Occupied \union {g} /\ FreeFrames' = FreeFrames \ {g}
  /\ victimFrameNum' = -1
  /\ RowWritten(g, "F")

(* Optimal, FIFO and LRU find the page in frame g.                         *)
LEMMA HitIsHitIn ==
  ASSUME IInv, currentIndex \in Index, algorithm # "SC", Hit
  PROVE  \E g \in Frames : HitIn(g)
<1> TypeOK /\ MappingInv /\ InfosInv
  BY DEF IInv
<1> /\ HitFrames # {} /\ TouchFrame /\ Record(1)
    /\ UNCHANGED <<infos, pageTable, pageQueue, victimFrameNum>>
  BY DEF Hit
<1> pageTable' \in [Pages -> PageEntry]
  BY DEF TypeOK
<1> PICK g \in Frames : /\ g = Min(HitFrames) /\ g \in Occupied
                        /\ pageTable[pageNum].frameNum = g /\ pageNum \in Pages
  BY Zenon, HitIsResident DEF Occupied
<1> /\ frames' \in [Frames -> FrameEntry] /\ MappingInv'
    /\ pageTable'[pageNum].frameNum = g
    /\ frames'[g].physicalAddress = g * pageSizeByte + offset
    /\ Occupied' = Occupied /\ FreeFrames' = FreeFrames
  BY Zenon, TouchKeepsMapping
<1>5. RowWritten(g, IF 1 = 1 THEN "H" ELSE "F")
  BY Zenon, RowRecorded
<1>6. HitIn(g)
  BY Zenon, <1>5 DEF HitIn
<1> QED BY <1>6

(* Second-Chance finds the page in frame g and sets its bit.               *)
LEMMA SCHitIsHitIn ==
  ASSUME IInv, currentIndex \in Index, SCHit
  PROVE  \E g \in Frames : HitIn(g)
<1> TypeOK /\ MappingInv /\ InfosInv
  BY DEF IInv
<1> /\ HitFrames # {} /\ TouchFrame /\ Record(1)
    /\ UNCHANGED <<infos, pageQueue, victimFrameNum>>
    /\ pageTable' = [pageTable EXCEPT
                       ![pageNumFromFrame(Min(HitFrames))].referenceBit = 1]
  BY DEF SCHit
<1> PICK g \in Frames : /\ g = Min(HitFrames) /\ g \in Occupied
                        /\ pageTable[pageNum].frameNum = g /\ pageNum \in Pages
                        /\ pageNumFromFrame(Min(HitFrames)) = pageNum
  BY Zenon, HitIsResident DEF Occupied
<1> /\ pageTable' \in [Pages -> PageEntry]
    /\ \A j \in Pages : /\ pageTable'[j].frameNum = pageTable[j].frameNum
                        /\ pageTable'[j].pageNum = pageTable[j].pageNum
    /\ pageTable'[pageNum].referenceBit = 1
    /\ \A j \in Pages \ {pageNum} :
         pageTable'[j].referenceBit = pageTable[j].referenceBit
  <2>1. pageTable \in [Pages -> PageEntry]
    BY DEF TypeOK
  <2>2. pageTable' = [pageTable EXCEPT ![pageNum].referenceBit = 1]
    BY Zenon
  <2> QED BY <2>1, <2>2 DEF PageEntry
<1> /\ frames' \in [Frames -> FrameEntry] /\ MappingInv'
    /\ pageTable'[pageNum].frameNum = g
    /\ frames'[g].physicalAddress = g * pageSizeByte + offset
    /\ Occupied' = Occupied /\ FreeFrames' = FreeFrames
  BY Zenon, TouchKeepsMapping
<1>5. RowWritten(g, IF 1 = 1 THEN "H" ELSE "F")
  BY Zenon, RowRecorded
<1>6. HitIn(g)
  BY Zenon, <1>5 DEF HitIn
<1> QED BY <1>6

(* Every algorithm that loads the page into g changes the two tables       *)
(* alike.                                                                  *)
LEMMA LoadIsLoadIn ==
  ASSUME IInv, currentIndex \in Index, pageTable[pageNum].frameNum = -1,
         NEW f \in Frames, NEW bit \in {0, 1}, algorithm = "SC" => bit = 0,
         LoadFrame(f), pageTable' = Remapped(f, bit, StaleEntries(f)),
         victimFrameNum' = -1, Record(0)
  PROVE  LoadIn(f)
<1> TypeOK /\ MappingInv /\ InfosInv
  BY DEF IInv
<1> pageNum \in Pages /\ pageTable[pageNum].frameNum # f
  <2>1. f # -1
    BY DEF Frames
  <2> QED BY Zenon, <2>1, HitIsResident
<1>2. LoadedIn(f, bit)
  BY Zenon, LoadRemaps
<1> /\ infos' = infos /\ pageTable' \in [Pages -> PageEntry]
    /\ frames' \in [Frames -> FrameEntry] /\ MappingInv'
    /\ pageTable'[pageNum].frameNum = f
    /\ frames'[f].physicalAddress = f * pageSizeByte + offset
    /\ Occupied' = Occupied \union {f}
    /\ FreeFrames' = FreeFrames \ {f}
  BY Zenon, LoadKeepsMapping
<1>4. RowWritten(f, IF 0 = 1 THEN "H" ELSE "F")
  BY Zenon, RowRecorded
<1>5. 0 # 1
  OBVIOUS
<1> QED BY ZenonT(60), <1>2, <1>4, <1>5 DEF LoadIn

(* The page in frame f has not been hit since it was loaded.               *)
Fresh(f) == ~HitAfter(output, f, LoadOf(output, f))

(* One row per address; an occupied frame was loaded by one of them.       *)
RowInv ==
  /\ Len(output) = currentIndex
  /\ \A f \in Occupied : /\ LoadOf(output, f) \in 1 .. Len(output)
                         /\ LastLoad(output) \in 1 .. Len(output)

(* The last row of a frame is the last reference to the page in it.        *)
UsedLast(p, n) ==
  /\ n \in 1 .. Len(output) /\ infos[n - 1].pageNum = p
  /\ \A m \in n .. Len(output) - 1 : infos[m].pageNum # p

UseInv ==
  \A p \in Pages : pageTable[p].frameNum \in Frames =>
    UsedLast(p, UseOf(output, pageTable[p].frameNum))

(* The history after a hit in frame g, and after a load into it.           *)
AfterHit(g) ==
  /\ Len(output) \in Nat /\ Len(output') = Len(output) + 1
  /\ LastLoad(output') = LastLoad(output)
  /\ \A f \in Frames :
       UseOf(output', f) = IF f = g THEN Len(output') ELSE UseOf(output, f)
  /\ \A f \in Occupied :
       /\ LoadOf(output', f) = LoadOf(output, f)
       /\ Fresh(f)' <=> Fresh(f) /\ f # g
       /\ HitAfter(output', f, LastLoad(output'))
            => HitAfter(output, f, LastLoad(output)) \/ f = g

AfterLoad(g) ==
  /\ Len(output) \in Nat /\ Len(output') = Len(output) + 1
  /\ LastLoad(output') = Len(output') /\ LoadOf(output', g) = Len(output')
  /\ \A f \in Frames :
       /\ UseOf(output', f) = IF f = g THEN Len(output') ELSE UseOf(output, f)
       /\ ~HitAfter(output', f, LastLoad(output'))
  /\ \A f \in Occupied \ {g} :
       LoadOf(output', f) = LoadOf(output, f) /\ (Fresh(f)' <=> Fresh(f))

(* A row that names frame g, in the history functions.                     *)
LEMMA RowStep ==
  ASSUME TypeOK, NEW g, NEW mark, RowWritten(g, mark)
  PROVE  /\ Len(output) \in Nat /\ Len(output') = Len(output) + 1
         /\ \E r : /\ r.frameNum = g /\ r.pageFault = mark
                   /\ \A f : RowAdds(output, r, output', f)
<1> PICK r : /\ output' = Append(output, r)
             /\ r.frameNum = g /\ r.pageFault = mark
  BY DEF RowWritten
<1> PICK o, l : o = output /\ l = output' /\ o \in Seq(Row) /\ l = Append(o, r)
  BY Zenon DEF TypeOK
<1>3. \A f : RowAdds(o, r, l, f)
  BY Zenon, RowHistory
<1>4. Len(o) \in Nat /\ Len(l) = Len(o) + 1
  OBVIOUS
<1> QED BY Zenon, <1>3, <1>4

(* The history after a hit.                                                *)
LEMMA HitHistory ==
  ASSUME TypeOK, RowInv, NEW g, RowWritten(g, "H")
  PROVE  AfterHit(g)
<1> PICK r : /\ r.frameNum = g /\ r.pageFault = "H"
             /\ \A f : RowAdds(output, r, output', f)
  BY RowStep
<1>2. Len(output) \in Nat /\ Len(output') = Len(output) + 1
  BY RowStep
<1>3. r.pageFault # "F"
  OBVIOUS
<1>4. LastLoad(output') = LastLoad(output)
  BY DEF RowAdds
<1>5. \A f \in Frames :
        UseOf(output', f) = IF f = g THEN Len(output') ELSE UseOf(output, f)
  BY DEF RowAdds
<1>6. ASSUME NEW f \in Occupied
      PROVE  /\ LoadOf(output', f) = LoadOf(output, f)
             /\ Fresh(f)' <=> Fresh(f) /\ f # g
             /\ HitAfter(output', f, LastLoad(output'))
                  => HitAfter(output, f, LastLoad(output)) \/ f = g
  <2> PICK n \in Nat : n = LoadOf(output, f) /\ n <= Len(output)
    BY DEF RowInv
  <2>2. PICK m \in Nat : m = LastLoad(output) /\ m <= Len(output)
    BY DEF RowInv
  <2> LoadOf(output', f) = LoadOf(output, f)
    BY Zenon DEF RowAdds
  <2>4. HitAfter(output', f, n) <=> HitAfter(output, f, n) \/ f = g
    BY Zenon DEF RowAdds
  <2>5. HitAfter(output', f, m) => HitAfter(output, f, m) \/ f = g
    BY Zenon DEF RowAdds
  <2>6. Fresh(f)' <=> Fresh(f) /\ f # g
    BY Zenon, <2>4 DEF Fresh
  <2> QED BY <1>4, <2>2, <2>5, <2>6
<1> QED BY <1>2, <1>4, <1>5, <1>6 DEF AfterHit

(* The history after a load.                                               *)
LEMMA LoadHistory ==
  ASSUME TypeOK, RowInv, NEW g, RowWritten(g, "F")
  PROVE  AfterLoad(g)
<1> PICK r : /\ r.frameNum = g /\ r.pageFault = "F"
             /\ \A f : RowAdds(output, r, output', f)
  BY RowStep
<1>2. Len(output) \in Nat /\ Len(output') = Len(output) + 1
  BY RowStep
<1>3. r.pageFault # "H"
  OBVIOUS
<1>4. LastLoad(output') = Len(output') /\ LoadOf(output', g) = Len(output')
  BY DEF RowAdds
<1>5. \A f \in Frames :
        UseOf(output', f) = IF f = g THEN Len(output') ELSE UseOf(output, f)
  BY DEF RowAdds
<1>6. \A f \in Frames : ~HitAfter(output', f, LastLoad(output'))
  <2>1. \A m : m \notin Len(output') + 1 .. Len(output')
    OBVIOUS
  <2> QED BY <1>4 DEF HitAfter
<1>7. ASSUME NEW f \in Occupied \ {g}
      PROVE  /\ LoadOf(output', f) = LoadOf(output, f)
             /\ Fresh(f)' <=> Fresh(f)
  <2>1. PICK n \in Nat : n = LoadOf(output, f) /\ n <= Len(output)
    BY DEF RowInv
  <2>2. LoadOf(output', f) = LoadOf(output, f)
    BY Zenon DEF RowAdds
  <2>3. HitAfter(output', f, n) <=> HitAfter(output, f, n)
    BY Zenon DEF RowAdds
  <2> QED BY <2>1, <2>2, <2>3 DEF Fresh
<1> QED BY ZenonT(60), <1>2, <1>4, <1>5, <1>6, <1>7 DEF AfterLoad

(* RowInv after a hit.                                                     *)
LEMMA RowInvHit ==
  ASSUME TypeOK, RowInv, NEW g \in Frames, HitIn(g)
  PROVE  RowInv'
<1> /\ AfterHit(g) /\ Occupied' = Occupied /\ currentIndex' = currentIndex + 1
  BY Zenon, HitHistory DEF HitIn, RowWritten
<1> /\ Len(output) \in Nat /\ Len(output') = Len(output) + 1
    /\ LastLoad(output') = LastLoad(output)
    /\ \A f \in Occupied : LoadOf(output', f) = LoadOf(output, f)
  BY DEF AfterHit
<1>3. 1 .. Len(output) \subseteq 1 .. Len(output')
  OBVIOUS
<1> QED BY Zenon, <1>3 DEF RowInv

(* RowInv after a load.                                                    *)
LEMMA RowInvLoad ==
  ASSUME TypeOK, RowInv, NEW g \in Frames, LoadIn(g)
  PROVE  RowInv'
<1> /\ AfterLoad(g) /\ Occupied' = Occupied \union {g}
    /\ currentIndex' = currentIndex + 1
  BY LoadHistory DEF LoadIn, RowWritten
<1> /\ Len(output) \in Nat /\ Len(output') = Len(output) + 1
    /\ LastLoad(output') = Len(output') /\ LoadOf(output', g) = Len(output')
    /\ \A f \in Occupied \ {g} : LoadOf(output', f) = LoadOf(output, f)
  BY DEF AfterLoad
<1>3. 1 .. Len(output) \subseteq 1 .. Len(output') /\ Len(output') \in 1 .. Len(output')
  OBVIOUS
<1> QED BY <1>3 DEF RowInv

(* A row of frame g keeps UseInv when the current page is in g afterwards  *)
(* and no other page is.                                                   *)
LEMMA UseKept ==
  ASSUME TypeOK, InfosInv, MappingInv, RowInv, UseInv, currentIndex \in Index,
         NEW g \in Frames, infos' = infos, pageTable'[pageNum].frameNum = g,
         Len(output') = Len(output) + 1,
         \A f \in Frames :
           UseOf(output', f) = IF f = g THEN Len(output') ELSE UseOf(output, f),
         \A p \in Pages \ {pageNum} : pageTable'[p].frameNum \in Frames =>
           pageTable'[p].frameNum = pageTable[p].frameNum /\ pageTable[p].frameNum # g
  PROVE  UseInv'
<1> /\ infos[currentIndex].pageNum = pageNum
    /\ Len(output) = currentIndex /\ currentIndex \in Nat
  <2>1. currentIndex \in Nat
    BY DEF Index
  <2> QED BY HitIsResident DEF RowInv
<1> SUFFICES ASSUME NEW p \in Pages, pageTable'[p].frameNum \in Frames
             PROVE  UsedLast(p, UseOf(output, pageTable[p].frameNum))'
  BY Zenon DEF UseInv
<1>1. CASE p = pageNum
  <2>1. UseOf(output', pageTable'[p].frameNum) = currentIndex + 1
    BY Zenon, <1>1
  <2>2. /\ currentIndex + 1 \in 1 .. Len(output')
        /\ (currentIndex + 1) - 1 = currentIndex
        /\ \A m : m \notin currentIndex + 1 .. Len(output') - 1
    OBVIOUS
  <2> QED BY ZenonT(60), <1>1, <2>2 DEF UsedLast
<1>2. CASE p # pageNum
  <2> PICK f \in Frames : /\ f = pageTable'[p].frameNum
                          /\ f = pageTable[p].frameNum /\ f # g
    BY <1>2
  <2> PICK n : /\ n = UseOf(output, f) /\ n = UseOf(output', f)
               /\ UsedLast(p, n)
    BY Zenon DEF UseInv
  <2> /\ n \in 1 .. Len(output) /\ infos[n - 1].pageNum = p
      /\ \A m \in n .. Len(output) - 1 : infos[m].pageNum # p
    BY ZenonT(60) DEF UsedLast
  <2>4. /\ n \in 1 .. Len(output')
        /\ \A m \in n .. Len(output') - 1 :
             m \in n .. Len(output) - 1 \/ m = currentIndex
    OBVIOUS
  <2>5. \A m \in n .. Len(output') - 1 : infos[m].pageNum # p
    BY <1>2, <2>4
  <2> QED BY <2>5 DEF UsedLast
<1> QED BY <1>1, <1>2

(* UseInv after a hit: the page in g was referenced by the new row.        *)
LEMMA UseInvHit ==
  ASSUME IInv, RowInv, UseInv, currentIndex \in Index, NEW g \in Frames, HitIn(g)
  PROVE  UseInv'
<1> TypeOK /\ InfosInv /\ MappingInv
  BY DEF IInv
<1> /\ AfterHit(g) /\ infos' = infos /\ pageNum \in Pages
    /\ pageTable[pageNum].frameNum = g
    /\ \A j \in Pages : pageTable'[j].frameNum = pageTable[j].frameNum
  BY HitHistory DEF HitIn, RowWritten
<1>2. \A p \in Pages \ {pageNum} : pageTable[p].frameNum # g
  <2>1. g # -1
    BY DEF Frames
  <2> QED BY <2>1 DEF MappingInv
<1>3. /\ Len(output') = Len(output) + 1
      /\ \A f \in Frames :
           UseOf(output', f) = IF f = g THEN Len(output') ELSE UseOf(output, f)
  BY Zenon DEF AfterHit
<1>4. /\ pageTable'[pageNum].frameNum = g
      /\ \A p \in Pages \ {pageNum} : pageTable'[p].frameNum \in Frames =>
           pageTable'[p].frameNum = pageTable[p].frameNum /\ pageTable[p].frameNum # g
  BY ZenonT(60), <1>2
<1> QED BY <1>3, <1>4, UseKept

(* UseInv after a load: the page that g held is in no frame now.           *)
LEMMA UseInvLoad ==
  ASSUME IInv, RowInv, UseInv, currentIndex \in Index, NEW g \in Frames, LoadIn(g)
  PROVE  UseInv'
<1> TypeOK /\ InfosInv /\ MappingInv /\ -1 \notin Frames
  BY SimulatorAssumption DEF IInv, Frames
<1> /\ AfterLoad(g) /\ infos' = infos /\ pageNum \in Pages
  BY ZenonT(60), LoadHistory DEF LoadIn, RowWritten
<1> PICK bit : LoadedIn(g, bit)
  BY DEF LoadIn
<1>3. pageTable'[pageNum].frameNum = g
  <2>1. pageTable'[pageNum] =
          [pageNum |-> pageNum, frameNum |-> g, referenceBit |-> bit]
    BY DEF LoadedIn
  <2> QED BY <2>1
<1>4. \A p \in Pages \ {pageNum} : pageTable'[p].frameNum \in Frames =>
        pageTable'[p].frameNum = pageTable[p].frameNum /\ pageTable[p].frameNum # g
  BY DEF LoadedIn
<1>5. /\ Len(output') = Len(output) + 1
      /\ \A f \in Frames :
           UseOf(output', f) = IF f = g THEN Len(output') ELSE UseOf(output, f)
  BY DEF AfterLoad
<1> QED BY ZenonT(60), <1>3, <1>4, <1>5, UseKept

(* The frame FIFO and Second-Chance look at next, and how many frames are  *)
(* looked at before f when h is the next: slot s of the ring holds frame s.*)
NextOut ==
  IF FreeFrames # {} THEN 0
  ELSE IF victimFrameNum # -1 THEN victimFrameNum ELSE pageQueue.front

Turn(h, f) == IF h <= f THEN f - h ELSE f - h + totalFrame

(* FIFO's ring is in loading order, Second-Chance's is for the pages that  *)
(* have not been hit.                                                      *)
Ordered(f, g) == algorithm = "FIFO" \/ (Fresh(f) /\ Fresh(g))

RingInv ==
  algorithm \in {"FIFO", "SC"} =>
    \A f, g \in Occupied :
      Turn(NextOut, f) < Turn(NextOut, g) /\ Ordered(f, g)
        => LoadOf(output, f) < LoadOf(output, g)

(* A turn of the ring is shorter than the ring.                            *)
LEMMA TurnValue ==
  ASSUME NEW h \in Frames, NEW f \in Frames
  PROVE  Turn(h, f) \in Frames /\ (Turn(h, f) = 0 <=> f = h)
  BY SimulatorAssumption DEF Turn, Frames

(* The next frame is one turn nearer, and the one passed goes to the end.  *)
LEMMA TurnNext ==
  ASSUME NEW h \in Frames
  PROVE  /\ NextSlot(h) \in Frames
         /\ \A f \in Frames : Turn(NextSlot(h), f) =
              IF f = h THEN totalFrame - 1 ELSE Turn(h, f) - 1
<1> h \in Slots /\ totalFrame \in Nat /\ totalFrame >= 3
  BY SimulatorAssumption DEF Slots, Frames
<1> PICK n : n = NextSlot(h) /\ n = IF h = totalFrame - 1 THEN 0 ELSE h + 1
  BY NextSlotValue
<1>3. n \in Frames
  BY DEF Frames
<1>4. \A f \in Frames : Turn(n, f) =
        IF f = h THEN totalFrame - 1 ELSE Turn(h, f) - 1
  BY DEF Frames, Turn
<1> QED BY <1>3, <1>4

(* The order of the frames other than h when h goes to the end.            *)
LEMMA TurnOrder ==
  ASSUME NEW h \in Frames, NEW f \in Frames, NEW g \in Frames
  PROVE  /\ ~(Turn(NextSlot(h), h) < Turn(NextSlot(h), g))
         /\ f # h /\ g # h => ( Turn(NextSlot(h), f) < Turn(NextSlot(h), g)
                                  <=> Turn(h, f) < Turn(h, g) )
         /\ f # h /\ g # h => ( Turn(NextSlot(h), f) <= Turn(NextSlot(h), g)
                                  <=> Turn(h, f) <= Turn(h, g) )
         /\ Turn(NextSlot(h), h) <= Turn(NextSlot(h), g) => g = h
<1> PICK x, y, z, u, v :
      /\ x = Turn(NextSlot(h), h) /\ y = Turn(NextSlot(h), f)
      /\ z = Turn(NextSlot(h), g) /\ u = Turn(h, f) /\ v = Turn(h, g)
  OBVIOUS
<1>2. u \in Frames /\ v \in Frames
  BY Zenon, TurnValue
<1>3. /\ x = totalFrame - 1 /\ y = IF f = h THEN totalFrame - 1 ELSE u - 1
      /\ z = IF g = h THEN totalFrame - 1 ELSE v - 1
  BY Zenon, TurnNext
<1>4. totalFrame \in Nat
  BY SimulatorAssumption
<1>5. /\ ~(x < z) /\ (f # h /\ g # h => (y < z <=> u < v))
      /\ (f # h /\ g # h => (y <= z <=> u <= v)) /\ (x <= z => g = h)
  BY <1>2, <1>3, <1>4 DEF Frames
<1> QED BY <1>5

(* RingInv after a hit, which turns nothing.                               *)
LEMMA RingHit ==
  ASSUME TypeOK, RowInv, RingInv, NEW g \in Frames, HitIn(g)
  PROVE  RingInv'
<1>1. /\ AfterHit(g) /\ Occupied' = Occupied /\ algorithm' = algorithm
      /\ FreeFrames' = FreeFrames /\ UNCHANGED <<pageQueue, victimFrameNum>>
  BY Zenon, HitHistory DEF HitIn, RowWritten
<1>2. NextOut' = NextOut
  BY Zenon, <1>1 DEF NextOut
<1>3. \A f \in Occupied : /\ LoadOf(output', f) = LoadOf(output, f)
                          /\ Fresh(f)' => Fresh(f)
  BY Zenon, <1>1 DEF AfterHit
<1>4. \A f, h \in Occupied : Ordered(f, h)' => Ordered(f, h)
  BY ZenonT(60), <1>1, <1>3 DEF Ordered
<1> QED BY ZenonT(60), <1>1, <1>2, <1>3, <1>4 DEF RingInv

(* RingInv after the fill of a free frame: frames are filled in order.     *)
LEMMA RingFill ==
  ASSUME TypeOK, RowInv, RingInv, FreeFrames # {}, NEW g \in Frames, LoadIn(g),
         Occupied = 0 .. g - 1, NextOut' = 0
  PROVE  RingInv'
<1> AfterLoad(g) /\ Occupied' = Occupied \union {g} /\ algorithm' = algorithm
  BY Zenon, LoadHistory DEF LoadIn, RowWritten
<1>2. NextOut = 0
  BY Zenon DEF NextOut
<1>3. /\ Len(output) \in Nat /\ Len(output') = Len(output) + 1
      /\ LoadOf(output', g) = Len(output')
  BY Zenon DEF AfterLoad
<1>4. \A f \in Occupied : /\ f # g /\ f < g /\ f \in Frames /\ f \in Nat
  BY SimulatorAssumption DEF Frames
<1>5. \A f \in Occupied : /\ LoadOf(output', f) = LoadOf(output, f)
                          /\ Fresh(f)' <=> Fresh(f)
  BY <1>4 DEF AfterLoad
<1>6. \A f \in Occupied : LoadOf(output', f) < LoadOf(output', g)
  <2> TAKE f \in Occupied
  <2> PICK n : n = LoadOf(output, f) /\ n \in 1 .. Len(output)
    BY Zenon DEF RowInv
  <2>2. n < Len(output')
    BY <1>3
  <2> QED BY <1>3, <1>5, <2>2
<1>7. \A f \in Occupied : ~(Turn(0, g) < Turn(0, f)) /\ ~(Turn(0, g) < Turn(0, g))
  BY DEF Turn, Frames
<1>8. ~(Turn(0, g) < Turn(0, g))
  BY DEF Turn, Frames
<1>9. \A f, h \in Occupied : Ordered(f, h)' => Ordered(f, h)
  BY <1>5 DEF Ordered
<1>10. \A f, h \in Occupied :
         Turn(0, f) < Turn(0, h) /\ Ordered(f, h) /\ algorithm \in {"FIFO", "SC"}
           => LoadOf(output, f) < LoadOf(output, h)
  BY <1>2 DEF RingInv
<1> SUFFICES ASSUME algorithm' \in {"FIFO", "SC"}, NEW f \in Occupied',
                    NEW h \in Occupied', Turn(0, f) < Turn(0, h), Ordered(f, h)'
             PROVE  LoadOf(output', f) < LoadOf(output', h)
  BY DEF RingInv
<1>11. CASE f = g
  BY ZenonT(60), <1>7, <1>8, <1>11
<1>12. CASE f # g /\ h = g
  BY ZenonT(60), <1>6, <1>12
<1>13. CASE f # g /\ h # g
  BY ZenonT(60), <1>5, <1>9, <1>10, <1>13
<1> QED BY ZenonT(60), <1>11, <1>12, <1>13

(* RingInv after the frame next in turn was loaded and moved to the end.   *)
LEMMA RingReplace ==
  ASSUME TypeOK, RowInv, RingInv, Occupied = Frames,
         NEW g \in Frames, g = NextOut, LoadIn(g), NextOut' = NextSlot(g)
  PROVE  RingInv'
<1> AfterLoad(g) /\ Occupied' = Frames /\ algorithm' = algorithm
  BY Zenon, LoadHistory DEF LoadIn, RowWritten
<1> /\ Len(output) \in Nat /\ Len(output') = Len(output) + 1
    /\ LoadOf(output', g) = Len(output')
    /\ \A f \in Frames \ {g} : /\ LoadOf(output', f) = LoadOf(output, f)
                               /\ Fresh(f)' <=> Fresh(f)
  BY Zenon DEF AfterLoad
<1>3. \A f \in Frames \ {g} : LoadOf(output', f) < LoadOf(output', g)
  <2> TAKE f \in Frames \ {g}
  <2> PICK n : n = LoadOf(output, f) /\ n \in 1 .. Len(output)
    BY DEF RowInv
  <2>2. n < Len(output')
    OBVIOUS
  <2> QED BY Zenon, <2>2
<1>4. \A f, h \in Frames \ {g} : Ordered(f, h)' => Ordered(f, h)
  BY DEF Ordered
<1> SUFFICES ASSUME algorithm' \in {"FIFO", "SC"}, NEW f \in Frames,
                    NEW h \in Frames, Ordered(f, h)',
                    Turn(NextSlot(g), f) < Turn(NextSlot(g), h)
             PROVE  LoadOf(output', f) < LoadOf(output', h)
  BY DEF RingInv
<1> f # g
  BY TurnOrder
<1>6. CASE h = g
  BY <1>3, <1>6
<1>7. CASE h # g
  <2>1. Turn(g, f) < Turn(g, h)
    BY ZenonT(60), <1>7, TurnOrder
  <2>2. LoadOf(output, f) < LoadOf(output, h)
    BY ZenonT(60), <1>4, <1>7, <2>1 DEF RingInv
  <2> QED BY ZenonT(60), <1>7, <2>2
<1> QED BY Zenon, <1>6, <1>7

(* RingInv after a frame whose page was hit has been passed over.          *)
LEMMA RingChance ==
  ASSUME RingInv, Occupied = Frames, algorithm = "SC",
         UNCHANGED <<algorithm, frames, output>>,
         NEW g \in Frames, g = NextOut, ~Fresh(g), NextOut' = NextSlot(g)
  PROVE  RingInv'
<1>1. \A f : Fresh(f)' <=> Fresh(f)
  BY DEF Fresh
<1>2. \A f, h : Ordered(f, h)' <=> Ordered(f, h)
  BY <1>1 DEF Ordered
<1>3. Occupied' = Frames
  BY DEF Occupied
<1>4. algorithm # "FIFO"
  OBVIOUS
<1> SUFFICES ASSUME NEW f \in Frames, NEW h \in Frames, Ordered(f, h),
                    Turn(NextSlot(g), f) < Turn(NextSlot(g), h)
             PROVE  LoadOf(output, f) < LoadOf(output, h)
  BY <1>2, <1>3 DEF RingInv
<1>5. f # g /\ h # g
  BY DEF Ordered
<1>6. Turn(g, f) < Turn(g, h)
  BY ZenonT(60), <1>5, TurnOrder
<1> QED BY <1>6 DEF RingInv

(* RingInv over a step that writes no row and turns nothing.               *)
LEMMA RingSame ==
  ASSUME RingInv, UNCHANGED <<algorithm, frames, output>>, NextOut' = NextOut
  PROVE  RingInv'
<1>1. Occupied' = Occupied
  BY DEF Occupied
<1>2. \A f, h : Ordered(f, h)' <=> Ordered(f, h)
  BY DEF Ordered, Fresh
<1> QED BY ZenonT(60), <1>1, <1>2 DEF RingInv

(* Second-Chance's reference bits: a set bit tells that the page has been  *)
(* hit since it was loaded.  A page hit since the last fault has its bit,  *)
(* or lost it in the loop that is running; then every frame queued behind  *)
(* it was passed over too, so its page has been hit since it was loaded.   *)
BitTells(p) ==
  LET f == pageTable[p].frameNum
  IN  IF pageTable[p].referenceBit = 1 THEN ~Fresh(f)
      ELSE HitAfter(output, f, LastLoad(output)) =>
             \A h \in Occupied : Turn(NextOut, f) <= Turn(NextOut, h) => ~Fresh(h)

BitInv ==
  algorithm = "SC" =>
    \A p \in Pages : pageTable[p].frameNum \in Frames => BitTells(p)

(* BitInv after a hit, which sets the bit.                                 *)
LEMMA BitHit ==
  ASSUME IInv, RowInv, BitInv, algorithm = "SC", NEW g \in Frames, HitIn(g)
  PROVE  BitInv'
<1> TypeOK /\ MappingInv /\ g # -1 /\ -1 \notin Frames
  BY SimulatorAssumption DEF IInv, Frames
<1> /\ AfterHit(g) /\ Occupied' = Occupied /\ NextOut' = NextOut
    /\ pageNum \in Pages /\ pageTable[pageNum].frameNum = g /\ g \in Occupied
    /\ pageTable'[pageNum].referenceBit = 1
    /\ \A j \in Pages : pageTable'[j].frameNum = pageTable[j].frameNum
    /\ \A j \in Pages \ {pageNum} :
         pageTable'[j].referenceBit = pageTable[j].referenceBit
  BY Zenon, HitHistory DEF HitIn, NextOut
<1>2. /\ \A f \in Occupied : /\ Fresh(f)' <=> Fresh(f) /\ f # g
                             /\ HitAfter(output', f, LastLoad(output'))
                                  => HitAfter(output, f, LastLoad(output)) \/ f = g
  BY Zenon DEF AfterHit
<1> SUFFICES ASSUME NEW p \in Pages, pageTable'[p].frameNum \in Frames
             PROVE  BitTells(p)'
  BY Zenon DEF BitInv
<1>3. CASE p = pageNum
  BY ZenonT(60), <1>2, <1>3 DEF BitTells
<1>4. CASE p # pageNum
  <2>1. PICK f \in Occupied : /\ f = pageTable[p].frameNum
                              /\ f = pageTable'[p].frameNum /\ f # g
    <3>1. pageTable[p].frameNum \in Occupied
      <4>1. pageTable[p].frameNum \in Frames /\ pageTable[p].frameNum # -1
        BY Zenon
      <4> QED BY ZenonT(60), <4>1 DEF MappingInv
    <3>2. pageTable[p].frameNum # g
      BY Zenon, <1>4 DEF MappingInv
    <3> QED BY ZenonT(60), <3>1, <3>2
  <2>2. BitTells(p)
    BY Zenon DEF BitInv
  <2>3. pageTable'[p].referenceBit = pageTable[p].referenceBit
    BY Zenon, <1>4
  <2> QED BY ZenonT(60), <1>2, <2>1, <2>2, <2>3 DEF BitTells
<1> QED BY ZenonT(60), <1>3, <1>4

(* BitInv after a load: no page has been hit since.                        *)
LEMMA BitLoad ==
  ASSUME IInv, RowInv, BitInv, algorithm = "SC", NEW g \in Frames, LoadIn(g)
  PROVE  BitInv'
<1>0. TypeOK /\ MappingInv /\ -1 \notin Frames
  BY SimulatorAssumption DEF IInv, Frames
<1> AfterLoad(g) /\ pageNum \in Pages /\ LoadedIn(g, 0)
  BY ZenonT(60), <1>0, LoadHistory DEF LoadIn
<1>2. /\ \A f \in Frames : ~HitAfter(output', f, LastLoad(output'))
      /\ \A f \in Occupied \ {g} : Fresh(f)' <=> Fresh(f)
  BY Zenon DEF AfterLoad
<1> SUFFICES ASSUME NEW p \in Pages, pageTable'[p].frameNum \in Frames
             PROVE  BitTells(p)'
  BY DEF BitInv
<1>3. CASE pageTable'[p].referenceBit # 1
  BY ZenonT(60), <1>2, <1>3 DEF BitTells
<1>4. CASE pageTable'[p].referenceBit = 1
  <2>1. p # pageNum
    <3>1. pageTable'[pageNum] =
            [pageNum |-> pageNum, frameNum |-> g, referenceBit |-> 0]
      BY DEF LoadedIn
    <3> QED BY <1>4, <3>1
  <2> pageTable'[p] = pageTable[p] /\ pageTable[p].frameNum # g
    BY <1>0, <2>1 DEF LoadedIn
  <2> PICK f \in Occupied \ {g} : /\ f = pageTable[p].frameNum
                                  /\ f = pageTable'[p].frameNum
    BY ZenonT(60), <1>0 DEF MappingInv
  <2>4. ~Fresh(f)
    BY Zenon, <1>4 DEF BitInv, BitTells
  <2> QED BY ZenonT(60), <1>2, <2>4 DEF BitTells
<1> QED BY ZenonT(60), <1>3, <1>4

(* BitInv after a second chance: every frame behind was passed over        *)
(* before.                                                                 *)
LEMMA BitChance ==
  ASSUME MappingInv, BitInv, algorithm = "SC", Occupied = Frames,
         UNCHANGED <<algorithm, frames, output>>,
         NEW g \in Frames, g = NextOut, NextOut' = NextSlot(g),
         NEW v \in Pages, pageTable[v].frameNum = g,
         pageTable[v].referenceBit = 1,
         \A j \in Pages : pageTable'[j].frameNum = pageTable[j].frameNum,
         pageTable'[v].referenceBit = 0,
         \A j \in Pages \ {v} :
           pageTable'[j].referenceBit = pageTable[j].referenceBit
  PROVE  BitInv' /\ ~Fresh(g)
<1>1. ~Fresh(g)
  BY ZenonT(60) DEF BitInv, BitTells
<1>2. /\ \A f : Fresh(f)' <=> Fresh(f)
      /\ \A f : HitAfter(output', f, LastLoad(output'))
                  <=> HitAfter(output, f, LastLoad(output))
  BY DEF Fresh
<1>3. Occupied' = Frames /\ 0 # 1
  <2>1. Occupied' = Occupied
    BY DEF Occupied
  <2> QED BY <2>1
<1>4. ASSUME NEW p \in Pages, pageTable'[p].frameNum \in Frames
      PROVE  BitTells(p)'
  <2> PICK f \in Frames : f = pageTable[p].frameNum /\ f = pageTable'[p].frameNum
    BY SMTT(60), <1>4
  <2>2. CASE p = v
    <3>1. \A h \in Frames : Turn(NextSlot(g), g) <= Turn(NextSlot(g), h) => h = g
      BY ZenonT(60), TurnOrder
    <3> QED BY SMTT(60), <1>1, <1>2, <1>3, <2>2, <3>1 DEF BitTells
  <2>3. CASE p # v
    <3>1. f # g
      <4>1. g # -1
        BY SimulatorAssumption DEF Frames
      <4>2. \A r \in Pages : pageTable[r].frameNum = pageTable[v].frameNum
                              => r = v \/ pageTable[r].frameNum = -1
        BY ZenonT(60) DEF MappingInv
      <4> QED BY ZenonT(60), <2>3, <4>1, <4>2
    <3>2. BitTells(p) /\ pageTable'[p].referenceBit = pageTable[p].referenceBit
      BY Zenon, <2>3 DEF BitInv
    <3>3. \A h \in Frames : Turn(NextSlot(g), f) <= Turn(NextSlot(g), h) =>
                              h = g \/ Turn(g, f) <= Turn(g, h)
      BY Zenon, TurnOrder
    <3> QED BY ZenonT(60), <1>1, <1>2, <1>3, <3>2, <3>3 DEF BitTells
  <2> QED BY <2>2, <2>3
<1> QED BY Zenon, <1>1, <1>4 DEF BitInv

(* BitInv over a step that writes no row, turns nothing and keeps the      *)
(* bits.                                                                   *)
LEMMA BitSame ==
  ASSUME BitInv, UNCHANGED <<algorithm, pageTable, frames, output>>,
         NextOut' = NextOut
  PROVE  BitInv'
<1>1. Occupied' = Occupied /\ \A f : Fresh(f)' <=> Fresh(f)
  BY Zenon DEF Occupied, Fresh
<1> QED BY Zenon, <1>1 DEF BitInv, BitTells

(* Optimal's queue is in loading order from slot 0 on.                     *)
PosInv ==
  algorithm = "Optimal" =>
    \A s, t \in 0 .. pageQueue.rear : s < t =>
      LoadOf(output, pageQueue.items[s]) < LoadOf(output, pageQueue.items[t])

(* PosInv after a hit, which leaves the queue alone.                       *)
LEMMA PosHit ==
  ASSUME IInv, RowInv, PosInv, algorithm = "Optimal", NEW g \in Frames, HitIn(g)
  PROVE  PosInv'
<1> TypeOK /\ QueueShape
  BY Zenon DEF IInv
<1>1. AfterHit(g) /\ pageQueue' = pageQueue
  BY Zenon, HitHistory DEF HitIn
<1>2. \A f \in Occupied : LoadOf(output', f) = LoadOf(output, f)
  BY Zenon, <1>1 DEF AfterHit
<1>3. \A s \in 0 .. pageQueue.rear : pageQueue.items[s] \in Occupied
  <2>1. CASE FreeFrames # {}
    BY ZenonT(60), <2>1 DEF QueueShape, FillingShape
  <2>2. CASE FreeFrames = {}
    <3> Permuted(pageQueue)
      BY <2>2 DEF QueueShape
    <3>2. 0 .. pageQueue.rear = Slots
      BY DEF Permuted, Slots
    <3>3. Occupied = Frames
      BY ZenonT(60), <2>2 DEF TypeOK, Occupied, FreeFrames, FrameEntry
    <3> QED BY ZenonT(60), <3>2, <3>3 DEF Permuted
  <2> QED BY ZenonT(60), <2>1, <2>2
<1> QED BY ZenonT(60), <1>1, <1>2, <1>3 DEF PosInv

(* The row of a load is later than those of the other frames.              *)
LEMMA LoadIsLast ==
  ASSUME RowInv, NEW g, AfterLoad(g), NEW f \in Occupied \ {g}
  PROVE  LoadOf(output', f) < LoadOf(output', g)
<1> PICK n : n = LoadOf(output, f) /\ n \in 1 .. Len(output)
  BY DEF RowInv
<1>2. /\ Len(output) \in Nat /\ Len(output') = Len(output) + 1
      /\ LoadOf(output', g) = Len(output') /\ LoadOf(output', f) = n
  BY DEF AfterLoad
<1> QED BY <1>2

(* PosInv after a frame was filled and queued at the rear.                 *)
LEMMA PosFill ==
  ASSUME TypeOK, RowInv, PosInv, algorithm = "Optimal", NEW g \in Frames,
         LoadIn(g), Occupied = 0 .. g - 1, pageQueue.rear = g - 1,
         \A s \in 0 .. g - 1 : pageQueue.items[s] = s,
         pageQueue'.rear = g, \A s \in 0 .. g : pageQueue'.items[s] = s
  PROVE  PosInv'
<1>1. AfterLoad(g)
  BY ZenonT(60), LoadHistory DEF LoadIn
<1> SUFFICES ASSUME NEW s \in 0 .. g, NEW t \in 0 .. g, s < t
             PROVE  LoadOf(output', s) < LoadOf(output', t)
  BY ZenonT(60) DEF PosInv
<1> s \in 0 .. g - 1 /\ s # g /\ (t # g => t \in 0 .. g - 1)
  BY DEF Frames
<1>3. CASE t = g
  BY ZenonT(60), <1>1, <1>3, LoadIsLast
<1>4. CASE t # g
  <2>1. LoadOf(output, s) < LoadOf(output, t)
    BY ZenonT(60), <1>4 DEF PosInv
  <2>2. LoadOf(output', s) = LoadOf(output, s) /\ LoadOf(output', t) = LoadOf(output, t)
    BY ZenonT(60), <1>1, <1>4 DEF AfterLoad
  <2> QED BY ZenonT(60), <2>1, <2>2
<1> QED BY <1>3, <1>4

(* PosInv after the victim was taken out of the middle and queued at the   *)
(* rear.                                                                   *)
LEMMA PosReplace ==
  ASSUME TypeOK, RowInv, PosInv, algorithm = "Optimal", NEW g \in Frames,
         LoadIn(g), Occupied = Frames, Permuted(pageQueue), Permuted(pageQueue'),
         Requeued(pageQueue, pageQueue', g)
  PROVE  PosInv'
<1>1. AfterLoad(g)
  BY ZenonT(60), LoadHistory DEF LoadIn
<1>2. PICK pos \in Slots :
        /\ pageQueue.items[pos] = g
        /\ \A s \in Slots :
             pageQueue'.items[s] =
               IF s = totalFrame - 1 THEN g
               ELSE IF pos <= s THEN pageQueue.items[s + 1] ELSE pageQueue.items[s]
  BY Zenon DEF Requeued
<1>3. 0 .. pageQueue.rear = Slots /\ 0 .. pageQueue'.rear = Slots
  BY Zenon DEF Permuted, Slots
<1>4. ASSUME NEW s \in Slots, s # totalFrame - 1
      PROVE  \E j \in Slots : /\ pageQueue'.items[s] = pageQueue.items[j]
                              /\ j # pos /\ j = IF pos <= s THEN s + 1 ELSE s
  <2> PICK j : j = IF pos <= s THEN s + 1 ELSE s
    OBVIOUS
  <2>2. j \in Slots /\ j # pos
    BY SMTT(60), <1>2, <1>4, SimulatorAssumption DEF Slots
  <2> QED BY ZenonT(60), <1>2, <1>4, <2>2
<1>5. \A j \in Slots : j # pos => pageQueue.items[j] \in Frames \ {g}
  BY ZenonT(60), <1>2 DEF Permuted
<1> SUFFICES ASSUME NEW s \in Slots, NEW t \in Slots, s < t
             PROVE  LoadOf(output', pageQueue'.items[s])
                      < LoadOf(output', pageQueue'.items[t])
  BY ZenonT(60), <1>3 DEF PosInv
<1>6. s # totalFrame - 1
  BY DEF Slots
<1> PICK j \in Slots : /\ pageQueue'.items[s] = pageQueue.items[j]
                       /\ j # pos /\ j = IF pos <= s THEN s + 1 ELSE s
  BY SMTT(60), <1>4, <1>6
<1>8. CASE t = totalFrame - 1
  BY SMTT(60), <1>1, <1>2, <1>5, <1>8, LoadIsLast
<1>9. CASE t # totalFrame - 1
  <2> PICK k \in Slots : /\ pageQueue'.items[t] = pageQueue.items[k]
                         /\ k # pos /\ k = IF pos <= t THEN t + 1 ELSE t
    BY ZenonT(60), <1>4, <1>9
  <2>2. j < k
    BY DEF Slots
  <2>3. LoadOf(output, pageQueue.items[j]) < LoadOf(output, pageQueue.items[k])
    BY ZenonT(60), <1>3, <2>2 DEF PosInv
  <2>4. /\ LoadOf(output', pageQueue.items[j]) = LoadOf(output, pageQueue.items[j])
        /\ LoadOf(output', pageQueue.items[k]) = LoadOf(output, pageQueue.items[k])
    BY ZenonT(60), <1>1, <1>5 DEF AfterLoad
  <2> QED BY ZenonT(60), <2>3, <2>4
<1> QED BY ZenonT(60), <1>8, <1>9

(* Without a free frame every frame is occupied.                           *)
LEMMA FullOccupied ==
  ASSUME TypeOK, FreeFrames = {}
  PROVE  Occupied = Frames
  BY DEF TypeOK, Occupied, FreeFrames, FrameEntry

-----------------------------------------------------------------------------
(* The frame each algorithm picks is the one its policy names.             *)

(* FIFO picks the frame at the head of the ring.                           *)
LEMMA FIFOPolicy ==
  ASSUME RowInv, RingInv, algorithm = "FIFO", Occupied = Frames,
         NEW g \in Frames, g = NextOut, NEW h \in Frames
  PROVE  LoadedAt(g) <= LoadedAt(h)
<1> PICK m, n : /\ m = LoadOf(output, g) /\ n = LoadOf(output, h)
                /\ m = LoadedAt(g) /\ n = LoadedAt(h)
                /\ m \in 1 .. Len(output) /\ n \in 1 .. Len(output)
  BY ZenonT(60), HistoryIs DEF RowInv
<1>2. CASE h = g
  BY <1>2
<1>3. CASE h # g
  <2>1. /\ Turn(g, g) = 0 /\ Turn(g, h) \in Frames /\ Turn(g, h) # 0
    BY <1>3, TurnValue
  <2>2. Turn(g, g) < Turn(g, h)
    BY <2>1 DEF Frames
  <2>3. m < n
    BY ZenonT(60), <2>2 DEF RingInv, Ordered
  <2> QED BY <2>3
<1> QED BY ZenonT(60), <1>2, <1>3

(* Second-Chance's loop stops at the frame in hand, whose page v has its   *)
(* bit clear.                                                              *)
LEMMA SCPolicy ==
  ASSUME RowInv, RingInv, BitInv, algorithm = "SC", Occupied = Frames,
         NEW g \in Frames, g = NextOut,
         NEW v \in Pages, pageTable[v].frameNum = g,
         pageTable[v].referenceBit # 1
  PROVE  /\ HitSince(g, Max(FaultRows))
              => \A h \in Frames : HitSince(h, LoadedAt(h))
         /\ ~HitSince(g, LoadedAt(g))
              => \A h \in Frames :
                   LoadedAt(h) < LoadedAt(g) => HitSince(h, LoadedAt(h))
<1>1. /\ \A h : LoadedAt(h) = LoadOf(output, h)
      /\ \A h : HitSince(h, LoadedAt(h)) <=> ~Fresh(h)
      /\ HitSince(g, Max(FaultRows)) <=> HitAfter(output, g, LastLoad(output))
  BY ZenonT(60), HistoryIs DEF Fresh
<1>2. \A h \in Frames : /\ Turn(g, g) <= Turn(g, h)
                        /\ h # g => Turn(g, g) < Turn(g, h)
  <2> TAKE h \in Frames
  <2> PICK x, y : x = Turn(g, g) /\ y = Turn(g, h)
    OBVIOUS
  <2>2. x = 0 /\ y \in Frames /\ (h # g => y # 0)
    BY ZenonT(60), TurnValue
  <2>3. x <= y /\ (h # g => x < y)
    BY <2>2 DEF Frames
  <2> QED BY ZenonT(60), <2>3
<1>3. HitAfter(output, g, LastLoad(output)) => \A h \in Frames : ~Fresh(h)
  BY <1>2 DEF BitInv, BitTells
<1>4. ASSUME Fresh(g), NEW h \in Frames, LoadOf(output, h) < LoadOf(output, g)
      PROVE  ~Fresh(h)
  <2> PICK m, n : /\ m = LoadOf(output, g) /\ n = LoadOf(output, h)
                  /\ m \in 1 .. Len(output) /\ n \in 1 .. Len(output)
    BY DEF RowInv
  <2> n < m
    BY ZenonT(60), <1>4
  <2>3. h # g
    OBVIOUS
  <2>4. Fresh(h) => m < n
    BY SMTT(60), <1>2, <1>4, <2>3 DEF RingInv, Ordered
  <2>5. ~(m < n)
    OBVIOUS
  <2> QED BY ZenonT(60), <2>4, <2>5
<1> QED BY ZenonT(60), <1>1, <1>3, <1>4

(* The distance LRU computes is the age of the frame's last row.           *)
LEMMA LastUseIs ==
  ASSUME IInv, RowInv, UseInv, currentIndex \in Index, FreeFrames = {},
         pageTable[pageNum].frameNum = -1, NEW f \in Frames
  PROVE  /\ UseOf(output, f) \in 1 .. currentIndex
         /\ LastUseDistances[f] = currentIndex - (UseOf(output, f) - 1)
<1> /\ TypeOK /\ MappingInv /\ InfosInv /\ Occupied = Frames
    /\ currentIndex \in Nat /\ Len(output) = currentIndex /\ f # -1
  <2>1. TypeOK /\ MappingInv /\ InfosInv /\ Len(output) = currentIndex
    BY DEF IInv, RowInv
  <2>2. currentIndex \in Nat /\ f # -1
    BY DEF Index, Frames
  <2> QED BY SMTT(60), <2>1, <2>2, FullOccupied
<1>1. PICK p \in Pages : pageTable[p].frameNum = f /\ pageNumforSearch(f) = p
  BY ZenonT(60), PageOfFrame
<1>2. infos[currentIndex].pageNum = pageNum /\ p # pageNum
  BY ZenonT(60), <1>1, HitIsResident
<1>3. PICK n : n = UseOf(output, f) /\ UsedLast(p, n)
  BY ZenonT(60), <1>1 DEF UseInv
<1> /\ n \in 1 .. currentIndex /\ infos[n - 1].pageNum = p
    /\ \A m \in n .. currentIndex - 1 : infos[m].pageNum # p
  BY ZenonT(60), <1>3 DEF UsedLast
<1> DEFINE uses == {j \in 0 .. currentIndex :
                      infos[j].pageNum = pageNumforSearch(f)}
<1>5. n - 1 \in uses
  <2>1. n - 1 \in 0 .. currentIndex
    OBVIOUS
  <2> QED BY ZenonT(60), <1>1, <2>1
<1>6. \A j \in uses : n - 1 >= j
  <2> TAKE j \in uses
  <2> j \in 0 .. currentIndex /\ infos[j].pageNum = p
    BY ZenonT(60), <1>1
  <2>2. j \notin n .. currentIndex - 1 /\ j # currentIndex
    BY ZenonT(60), <1>2
  <2> QED BY <2>2
<1> uses \in SUBSET (0 .. currentIndex) /\ uses # {}
  BY ZenonT(60), <1>5
<1>8. LastUseDistances[f] = currentIndex - Max(uses)
  BY ZenonT(60) DEF LastUseDistances
<1> HIDE DEF uses
<1>9. Max(uses) \in uses /\ \A x \in uses : x <= Max(uses)
  BY ZenonT(60), MaxProp
<1>10. Max(uses) = n - 1
  <2>1. PICK x \in 0 .. currentIndex : x = Max(uses) /\ n - 1 <= x /\ n - 1 >= x
    BY ZenonT(60), <1>5, <1>6, <1>9
  <2> QED BY <2>1
<1> QED BY SMTT(60), <1>3, <1>8, <1>10

(* The frame with the longest distance to its last use was used least      *)
(* recently.                                                               *)
LEMMA LRUPolicy ==
  ASSUME IInv, RowInv, UseInv, currentIndex \in Index, FreeFrames = {},
         pageTable[pageNum].frameNum = -1,
         NEW g \in Frames, g = maxDistanceFrameNum(LastUseDistances),
         NEW h \in Frames
  PROVE  UsedAt(g) <= UsedAt(h)
<1>1. LastUseDistances[h] <= LastUseDistances[g]
  BY ZenonT(60), LastUseBounded, MaxDistanceIsFrame, SimulatorAssumption
<1> PICK m, n : /\ m = UsedAt(g) /\ n = UsedAt(h)
                /\ m \in 1 .. currentIndex /\ n \in 1 .. currentIndex
                /\ LastUseDistances[g] = currentIndex - (m - 1)
                /\ LastUseDistances[h] = currentIndex - (n - 1)
  BY ZenonT(60), LastUseIs, HistoryIs
<1>3. currentIndex - (n - 1) <= currentIndex - (m - 1) /\ currentIndex \in Nat
  <2>1. currentIndex \in Nat
    BY DEF Index
  <2> QED BY ZenonT(60), <1>1, <2>1
<1>4. m <= n
  BY <1>3
<1> QED BY <1>4

(* The distance Optimal computes leads to the next use, if there is one.   *)
NextUseIs(f) ==
  LET d == NextUseDistances[f]
  IN  IF d = NUM_ADDRESSES THEN NextUse(f) = NUM_ADDRESSES
      ELSE /\ NextUse(f) = currentIndex + d
           /\ NextUse(f) \in 0 .. NUM_ADDRESSES - 1
           /\ pageTable[infos[NextUse(f)].pageNum].frameNum = f

(* Where the page in frame f is referenced next, by the search and by the  *)
(* history.                                                                *)
LEMMA NextUseFound ==
  ASSUME IInv, currentIndex \in Index, FreeFrames = {},
         pageTable[pageNum].frameNum = -1, NEW f \in Frames
  PROVE  NextUseIs(f)
<1> /\ TypeOK /\ MappingInv /\ InfosInv /\ Occupied = Frames
    /\ currentIndex \in Nat /\ f # -1 /\ NUM_ADDRESSES \in Nat
    /\ currentIndex < NUM_ADDRESSES
  <2>1. TypeOK /\ MappingInv /\ InfosInv
    BY DEF IInv
  <2>2. /\ currentIndex \in Nat /\ f # -1 /\ NUM_ADDRESSES \in Nat
        /\ currentIndex < NUM_ADDRESSES
    BY SimulatorAssumption DEF Index, Frames
  <2> QED BY <2>1, <2>2, FullOccupied
<1>1. PICK p \in Pages : /\ pageTable[p].frameNum = f /\ pageNumforSearch(f) = p
                         /\ \A r \in Pages : pageTable[r].frameNum = f => r = p
  BY PageOfFrame
<1>2. infos[currentIndex].pageNum = pageNum /\ p # pageNum
  BY SMTT(60), <1>1, HitIsResident
<1> DEFINE uses  == {j \in currentIndex .. NUM_ADDRESSES - 1 :
                       infos[j].pageNum = pageNumforSearch(f)}
           later == {n \in currentIndex + 1 .. NUM_ADDRESSES - 1 :
                       pageTable[infos[n].pageNum].frameNum = f}
<1>3. /\ \A j \in currentIndex .. NUM_ADDRESSES - 1 :
           j \in Index /\ (j # currentIndex => j \in currentIndex + 1 .. NUM_ADDRESSES - 1)
      /\ \A j \in currentIndex + 1 .. NUM_ADDRESSES - 1 :
           j \in currentIndex .. NUM_ADDRESSES - 1
  BY DEF Index
<1>4. \A j \in Index : infos[j].pageNum \in Pages
  BY ZenonT(60) DEF TypeOK, AddressInfo
<1>5. uses = later
  <2>1. ASSUME NEW j \in uses PROVE j \in later
    BY ZenonT(60), <1>1, <1>2, <1>3
  <2>2. ASSUME NEW j \in later PROVE j \in uses
    BY ZenonT(60), <1>1, <1>3, <1>4
  <2> QED BY ZenonT(60), <2>1, <2>2
<1>6. NextUseDistances[f] =
        IF uses = {} THEN NUM_ADDRESSES ELSE Min(uses) - currentIndex
  BY Zenon DEF NextUseDistances
<1>7. NextUse(f) = IF later = {} THEN NUM_ADDRESSES ELSE Min(later)
  BY Zenon DEF NextUse
<1>8. uses \in SUBSET Nat /\ uses \in SUBSET (currentIndex .. NUM_ADDRESSES - 1)
  OBVIOUS
<1>9. \A j \in uses : pageTable[infos[j].pageNum].frameNum = f
  BY <1>1
<1> HIDE DEF uses, later
<1>10. CASE uses = {}
  BY SMTT(60), <1>5, <1>6, <1>7, <1>10 DEF NextUseIs
<1>11. CASE uses # {}
  <2>1. PICK x \in uses : x = Min(uses)
    BY <1>8, <1>11, MinProp
  <2> /\ NextUseDistances[f] = x - currentIndex /\ NextUse(f) = x
      /\ x \in currentIndex .. NUM_ADDRESSES - 1
    BY SMTT(60), <1>5, <1>6, <1>7, <1>8, <1>11, <2>1
  <2>3. /\ x - currentIndex # NUM_ADDRESSES /\ x = currentIndex + (x - currentIndex)
        /\ x \in 0 .. NUM_ADDRESSES - 1
    OBVIOUS
  <2> QED BY <1>9, <2>3 DEF NextUseIs
<1> QED BY <1>10, <1>11

(* Optimal's victim is the page used last from now on; of equals, the      *)
(* oldest load.                                                            *)
LEMMA OptimalPolicy ==
  ASSUME IInv, RowInv, PosInv, currentIndex \in Index, FreeFrames = {},
         algorithm = "Optimal", pageTable[pageNum].frameNum = -1,
         NEW g \in Frames, g = OptimalVictim, NEW h \in Frames
  PROVE  /\ NextUse(g) >= NextUse(h)
         /\ NextUse(g) = NextUse(h) => LoadedAt(g) <= LoadedAt(h)
<1>0. /\ TypeOK /\ Occupied = Frames /\ pageQueue \in QueueType
      /\ Permuted(pageQueue)
  <2>1. TypeOK /\ QueueShape
    BY DEF IInv
  <2> QED BY <2>1, FullOccupied, QueueTyped DEF QueueShape
<1>1. currentIndex \in Nat /\ NUM_ADDRESSES \in Nat /\ currentIndex < NUM_ADDRESSES
  BY SimulatorAssumption DEF Index
<1>2. PICK d, e : /\ d = NextUseDistances[g] /\ e = NextUseDistances[h]
                  /\ d \in 0 .. NUM_ADDRESSES /\ e \in 0 .. NUM_ADDRESSES
                  /\ e <= d
  BY SMTT(60), <1>0, NextUseBounded, OptimalVictimIsFrame DEF BestVictim
<1>3. PICK x, y : x = NextUse(g) /\ y = NextUse(h)
  OBVIOUS
<1>4. /\ IF d = NUM_ADDRESSES THEN x = NUM_ADDRESSES
         ELSE x = currentIndex + d /\ x \in 0 .. NUM_ADDRESSES - 1
      /\ IF e = NUM_ADDRESSES THEN y = NUM_ADDRESSES
         ELSE y = currentIndex + e /\ y \in 0 .. NUM_ADDRESSES - 1
      /\ d # NUM_ADDRESSES => pageTable[infos[x].pageNum].frameNum = g
      /\ e # NUM_ADDRESSES => pageTable[infos[y].pageNum].frameNum = h
  BY SMTT(60), <1>2, <1>3, NextUseFound DEF NextUseIs
<1>5. x >= y
  BY SMTT(60), <1>1, <1>2, <1>4
<1> PICK m, n : /\ m = LoadOf(output, g) /\ n = LoadOf(output, h)
                /\ m = LoadedAt(g) /\ n = LoadedAt(h)
                /\ m \in 1 .. Len(output) /\ n \in 1 .. Len(output)
  BY SMTT(60), <1>0, HistoryIs DEF RowInv
<1>7. ASSUME x = y PROVE m <= n
  <2>1. CASE e # NUM_ADDRESSES
    <3>1. d # NUM_ADDRESSES
      BY SMTT(60), <1>4, <1>7, <2>1
    <3>2. g = h
      BY SMTT(60), <1>4, <1>7, <3>1
    <3>3. m = n
      BY ZenonT(60), <3>2
    <3> QED BY SMTT(60), <3>3
  <2>2. CASE e = NUM_ADDRESSES
    <3> PICK s, t \in Slots :
          /\ s = findPositionInQueue(pageQueue, g) /\ pageQueue.items[s] = g
          /\ t = findPositionInQueue(pageQueue, h) /\ pageQueue.items[t] = h
      BY <1>0, PermutedPositions
    <3>2. s <= t
      BY ZenonT(60), <1>0, <1>2, <2>2, OptimalVictimIsFrame DEF BestVictim
    <3>3. 0 .. pageQueue.rear = Slots
      BY <1>0 DEF Permuted, Slots
    <3>4. s < t => m < n
      BY ZenonT(60), <3>3 DEF PosInv
    <3>5. s = t => m = n
      OBVIOUS
    <3>6. s < t \/ s = t
      BY <3>2 DEF Slots
    <3> QED BY SMTT(60), <3>4, <3>5, <3>6
  <2> QED BY SMTT(60), <2>1, <2>2
<1> QED BY <1>3, <1>5, <1>7

-----------------------------------------------------------------------------
(* Every action keeps the history invariant, and a page it evicts is the   *)
(* one its policy names.                                                   *)
HistInv == RowInv /\ UseInv /\ RingInv /\ BitInv /\ PosInv

(* The steps the four policies speak of.                                   *)
FIFOStep ==
  algorithm = "FIFO" =>
    \A f, g \in Frames : Evicts(f) => LoadedAt(f) <= LoadedAt(g)
LRUStep ==
  algorithm = "LRU" =>
    \A f, g \in Frames : Evicts(f) => UsedAt(f) <= UsedAt(g)
SCStep ==
  algorithm = "SC" =>
    \A f \in Frames : Evicts(f) =>
      /\ HitSince(f, Max(FaultRows))
           => \A g \in Frames : HitSince(g, LoadedAt(g))
      /\ ~HitSince(f, LoadedAt(f))
           => \A g \in Frames :
                LoadedAt(g) < LoadedAt(f) => HitSince(g, LoadedAt(g))
OptimalStep ==
  algorithm = "Optimal" =>
    \A f, g \in Frames : Evicts(f) =>
      /\ NextUse(f) >= NextUse(g)
      /\ NextUse(f) = NextUse(g) => LoadedAt(f) <= LoadedAt(g)

PolicyStep == FIFOStep /\ LRUStep /\ SCStep /\ OptimalStep

(* A step that keeps every page in its frame evicts nothing.               *)
LEMMA NoEviction ==
  ASSUME \A j \in Pages : pageTable'[j].frameNum = pageTable[j].frameNum
  PROVE  PolicyStep
<1>1. \A f \in Frames : f # -1
  BY SimulatorAssumption DEF Frames
<1>2. \A f \in Frames : ~Evicts(f)
  BY Zenon, <1>1 DEF Evicts
<1> QED BY ZenonT(60), <1>2 DEF PolicyStep, FIFOStep, LRUStep, SCStep, OptimalStep

(* A load evicts from its own frame only, and only if that was occupied.   *)
LEMMA LoadEvicts ==
  ASSUME MappingInv, NEW g \in Frames, LoadIn(g), NEW f \in Frames, Evicts(f)
  PROVE  f = g /\ g \in Occupied
<1> f # -1 /\ -1 \notin Frames
  BY SimulatorAssumption DEF Frames
<1> PICK p \in Pages : pageTable[p].frameNum = f /\ pageTable'[p].frameNum = -1
  BY ZenonT(60) DEF Evicts
<1>3. PICK bit : LoadedIn(g, bit)
  BY Zenon DEF LoadIn
<1>4. p # pageNum
  BY Zenon DEF LoadIn
<1>5. f = g
  <2>1. pageTable[p].frameNum = g \/ pageTable'[p] = pageTable[p]
    BY ZenonT(60), <1>3, <1>4 DEF LoadedIn
  <2> QED BY ZenonT(60), <2>1
<1>6. pageTable[p].frameNum \in Occupied
  <2>1. pageTable[p].frameNum # -1
    BY Zenon
  <2> QED BY ZenonT(60), <2>1 DEF MappingInv
<1> QED BY ZenonT(60), <1>5, <1>6

(* A hit keeps HistInv.                                                    *)
LEMMA HitKeeps ==
  ASSUME IInv, HistInv, currentIndex \in Index, NEW g \in Frames, HitIn(g)
  PROVE  HistInv' /\ PolicyStep
<1> TypeOK /\ algorithm' = algorithm
  BY DEF IInv, HitIn, RowWritten
<1>1. RowInv' /\ UseInv' /\ RingInv'
  BY ZenonT(60), RowInvHit, UseInvHit, RingHit DEF HistInv
<1>2. BitInv'
  <2>1. CASE algorithm = "SC"
    BY ZenonT(60), <2>1, BitHit DEF HistInv
  <2>2. CASE algorithm # "SC"
    BY ZenonT(60), <2>2 DEF BitInv
  <2> QED BY ZenonT(60), <2>1, <2>2
<1>3. PosInv'
  <2>1. CASE algorithm = "Optimal"
    BY ZenonT(60), <2>1, PosHit DEF HistInv
  <2>2. CASE algorithm # "Optimal"
    BY ZenonT(60), <2>2 DEF PosInv
  <2> QED BY ZenonT(60), <2>1, <2>2
<1>4. PolicyStep
  BY ZenonT(60), NoEviction DEF HitIn
<1> QED BY ZenonT(60), <1>1, <1>2, <1>3, <1>4 DEF HistInv

(* A load keeps the parts that do not depend on the queue.                 *)
LEMMA LoadKeeps ==
  ASSUME IInv, HistInv, currentIndex \in Index, NEW g \in Frames, LoadIn(g),
         RingInv', PosInv'
  PROVE  HistInv'
<1> TypeOK /\ algorithm' = algorithm
  BY DEF IInv, LoadIn, RowWritten
<1>1. RowInv' /\ UseInv'
  BY ZenonT(60), RowInvLoad, UseInvLoad DEF HistInv
<1>2. BitInv'
  <2>1. CASE algorithm = "SC"
    BY ZenonT(60), <2>1, BitLoad DEF HistInv
  <2>2. CASE algorithm # "SC"
    BY ZenonT(60), <2>2 DEF BitInv
  <2> QED BY ZenonT(60), <2>1, <2>2
<1> QED BY ZenonT(60), <1>1, <1>2 DEF HistInv

(* Filling a free frame keeps HistInv.                                     *)
LEMMA FillKeeps ==
  ASSUME IInv, HistInv, currentIndex \in Index, pc = "reference",
         NEW STATE queue, NEW STATE bit, bit \in {0, 1},
         algorithm = "SC" => bit = 0,
         queue = IF algorithm = "LRU" THEN pageQueue
                 ELSE enqueue(pageQueue, Min(FreeFrames)),
         FillFrame(bit, queue)
  PROVE  HistInv' /\ PolicyStep
<1> /\ TypeOK /\ MappingInv /\ InfosInv /\ QueueShape /\ LoopInv
    /\ RowInv /\ RingInv /\ PosInv
  BY DEF IInv, HistInv
<1> /\ HitFrames = {} /\ FreeFrames # {} /\ LoadFrame(Min(FreeFrames)) /\ Record(0)
    /\ pageTable' = Remapped(Min(FreeFrames), bit, {}) /\ pageQueue' = queue
    /\ UNCHANGED <<pc, victimFrameNum>>
  BY DEF FillFrame
<1>2. PICK g \in Frames : /\ g = Min(FreeFrames) /\ g \notin Occupied
                          /\ StaleEntries(g) = {}
  BY ZenonT(60), FillClears
<1>3. pageTable[pageNum].frameNum = -1 /\ victimFrameNum' = -1
  BY ZenonT(60), HitIsResident DEF LoopInv
<1>4. LoadFrame(g) /\ pageTable' = Remapped(g, bit, StaleEntries(g))
  BY ZenonT(60), <1>2
<1>5. LoadIn(g)
  BY ZenonT(60), <1>3, <1>4, LoadIsLoadIn
<1>6. algorithm' = algorithm
  BY ZenonT(60), <1>5 DEF LoadIn, RowWritten
<1>7. RingInv' /\ PosInv'
  <2>1. CASE algorithm = "LRU"
    <3>1. algorithm' \notin {"FIFO", "SC"} /\ algorithm' # "Optimal"
      BY SMTT(60), <1>6, <2>1
    <3> QED BY ZenonT(60), <3>1 DEF RingInv, PosInv
  <2>2. CASE algorithm # "LRU"
    <3>1. FillingShape
      BY <2>2 DEF QueueShape
    <3> /\ g = pageQueue.rear + 1 /\ pageQueue'.front = 0 /\ pageQueue'.rear = g
        /\ \A s \in 0 .. g : pageQueue'.items[s] = s
      BY ZenonT(60), <1>2, <2>2, <3>1, FillQueue
    <3>3. pageQueue.rear = g - 1
      <4>1. pageQueue.rear \in Slots \union {-1}
        BY SMTT(60) DEF TypeOK
      <4> QED BY SMTT(60), <4>1 DEF Slots
    <3> Occupied = 0 .. g - 1 /\ \A s \in 0 .. g - 1 : pageQueue.items[s] = s
      BY SMTT(60), <3>1, <3>3 DEF FillingShape
    <3>5. NextOut' = 0
      BY <1>3 DEF NextOut
    <3> RingInv'
      BY ZenonT(60), <1>5, <3>5, RingFill
    <3>7. CASE algorithm = "Optimal"
      <4>1. PosInv'
        BY ZenonT(60), <1>5, <3>3, <3>7, PosFill
      <4> QED BY ZenonT(60), <4>1
    <3>8. CASE algorithm # "Optimal"
      BY ZenonT(60), <1>6, <3>8 DEF PosInv
    <3> QED BY SMTT(60), <3>7, <3>8
  <2> QED BY ZenonT(60), <2>1, <2>2
<1>8. HistInv'
  BY ZenonT(60), <1>5, <1>7, LoadKeeps
<1>9. \A f \in Frames : ~Evicts(f)
  BY ZenonT(60), <1>2, <1>5, LoadEvicts
<1> QED BY ZenonT(60), <1>8, <1>9
           DEF PolicyStep, FIFOStep, LRUStep, SCStep, OptimalStep

(* replacePageOptimal() on a fault with full memory.                       *)
LEMMA OptimalReplaceKeeps ==
  ASSUME IInv, HistInv, currentIndex \in Index, pc = "reference",
         algorithm = "Optimal", OptimalReplace
  PROVE  HistInv' /\ PolicyStep
<1> /\ TypeOK /\ MappingInv /\ InfosInv /\ QueueShape /\ LoopInv
    /\ RowInv /\ PosInv
  BY DEF IInv, HistInv
<1> PICK g, bit : /\ g = OptimalVictim /\ bit = pageTable[pageNum].referenceBit
  OBVIOUS
<1> /\ HitFrames = {} /\ FreeFrames = {} /\ LoadFrame(g) /\ Record(0)
    /\ pageTable' = Remapped(g, bit, StaleEntries(g))
    /\ pageQueue' = enqueue(removeFrameFromQueue(pageQueue, g), g)
    /\ UNCHANGED <<pc, victimFrameNum>>
  BY Zenon DEF OptimalReplace, Full
<1>3. /\ pageTable[pageNum].frameNum = -1 /\ pageNum \in Pages
      /\ victimFrameNum' = -1
  BY ZenonT(60), HitIsResident DEF LoopInv
<1>4. bit \in {0, 1}
  BY ZenonT(60), <1>3, ReferenceBitTyped
<1> pageQueue \in QueueType /\ Permuted(pageQueue) /\ Occupied = Frames
  BY ZenonT(60), QueueTyped, FullOccupied DEF QueueShape
<1> g \in Frames
  BY ZenonT(60), OptimalVictimIsFrame
<1>7. Permuted(pageQueue') /\ Requeued(pageQueue, pageQueue', g)
  BY ZenonT(60), OptimalRequeues
<1>8. algorithm # "SC" /\ algorithm \notin {"FIFO", "SC"}
  OBVIOUS
<1> LoadIn(g)
  BY ZenonT(60), <1>3, <1>4, <1>8, LoadIsLoadIn
<1>10. RingInv'
  BY ZenonT(60), <1>8 DEF LoadIn, RowWritten, RingInv
<1>11. PosInv'
  BY ZenonT(60), <1>7, PosReplace
<1>12. HistInv'
  BY ZenonT(60), <1>10, <1>11, LoadKeeps
<1>13. OptimalStep
  BY ZenonT(60), <1>3, LoadEvicts, OptimalPolicy
     DEF OptimalStep
<1>14. FIFOStep /\ LRUStep /\ SCStep
  BY DEF FIFOStep, LRUStep, SCStep
<1> QED BY ZenonT(60), <1>12, <1>13, <1>14 DEF PolicyStep

(* replacePageFIFO() on a fault with full memory.                          *)
LEMMA FIFOReplaceKeeps ==
  ASSUME IInv, HistInv, currentIndex \in Index, pc = "reference",
         algorithm = "FIFO", FIFOReplace
  PROVE  HistInv' /\ PolicyStep
<1> /\ TypeOK /\ MappingInv /\ InfosInv /\ QueueShape /\ LoopInv
    /\ RowInv /\ RingInv
  BY DEF IInv, HistInv
<1>1. PICK g, bit : /\ g = dequeuedItem(pageQueue)
                    /\ bit = pageTable[pageNum].referenceBit
  OBVIOUS
<1> /\ HitFrames = {} /\ FreeFrames = {} /\ LoadFrame(g) /\ Record(0)
    /\ pageTable' = Remapped(g, bit,
                             {pageTable[j].pageNum : j \in StaleEntries(g)})
    /\ pageQueue' = enqueue(dequeue(pageQueue), g)
    /\ UNCHANGED <<pc, victimFrameNum>>
  BY ZenonT(60), <1>1 DEF FIFOReplace, Full
<1>3. /\ pageTable[pageNum].frameNum = -1 /\ pageNum \in Pages
      /\ victimFrameNum = -1 /\ victimFrameNum' = -1
  BY ZenonT(60), HitIsResident DEF LoopInv
<1>4. bit \in {0, 1}
  BY ZenonT(60), <1>1, <1>3, ReferenceBitTyped
<1>5. pageQueue \in QueueType /\ FullRing(pageQueue) /\ Occupied = Frames
  <2>1. TurningShape
    BY ZenonT(60), RingTurns
  <2> QED BY ZenonT(60), <1>3, <2>1, QueueTyped, FullOccupied
             DEF TurningShape
<1> /\ g \in Frames /\ g = pageQueue.front
    /\ pageQueue'.front = NextSlot(g)
  BY ZenonT(60), <1>1, <1>5, TakeFront, GiveBack DEF GapRing
<1>7. pageTable' = Remapped(g, bit, StaleEntries(g))
  BY Zenon, FIFOClears
<1>8. algorithm # "SC" /\ algorithm # "Optimal"
  BY SMTT(60)
<1> LoadIn(g)
  BY SMTT(60), <1>3, <1>4, <1>7, <1>8, LoadIsLoadIn
<1> g = NextOut /\ NextOut' = NextSlot(g)
  <2>1. FreeFrames' = {}
    BY ZenonT(60) DEF LoadIn
  <2> QED BY ZenonT(60), <1>3, <2>1 DEF NextOut
<1>11. RingInv'
  BY ZenonT(60), <1>5, RingReplace
<1>12. PosInv'
  BY ZenonT(60) DEF LoadIn, RowWritten, PosInv
<1>13. HistInv'
  BY ZenonT(60), <1>11, <1>12, LoadKeeps
<1>14. FIFOStep
  BY ZenonT(60), <1>5, LoadEvicts, FIFOPolicy DEF FIFOStep
<1>15. OptimalStep /\ LRUStep /\ SCStep
  BY DEF OptimalStep, LRUStep, SCStep
<1> QED BY ZenonT(60), <1>13, <1>14, <1>15 DEF PolicyStep

(* replacePageLRU() on a fault with full memory.                           *)
LEMMA LRUReplaceKeeps ==
  ASSUME IInv, HistInv, currentIndex \in Index, pc = "reference",
         algorithm = "LRU", LRUReplace
  PROVE  HistInv' /\ PolicyStep
<1> /\ TypeOK /\ MappingInv /\ InfosInv /\ LoopInv
    /\ RowInv /\ UseInv
  BY DEF IInv, HistInv
<1> PICK g, bit : /\ g = maxDistanceFrameNum(LastUseDistances)
                  /\ bit = pageTable[pageNum].referenceBit
  OBVIOUS
<1> /\ HitFrames = {} /\ FreeFrames = {} /\ LoadFrame(g) /\ Record(0)
    /\ pageTable' = Remapped(g, bit, StaleEntries(g))
    /\ UNCHANGED <<pageQueue, pc, victimFrameNum>>
  BY Zenon DEF LRUReplace, Full
<1> /\ pageTable[pageNum].frameNum = -1 /\ pageNum \in Pages
    /\ victimFrameNum' = -1
  BY ZenonT(60), HitIsResident DEF LoopInv
<1>4. bit \in {0, 1}
  BY ZenonT(60), ReferenceBitTyped
<1> g \in Frames
  BY ZenonT(60), LastUseBounded, MaxDistanceIsFrame, SimulatorAssumption
<1>6. algorithm \notin {"FIFO", "SC"} /\ algorithm # "SC" /\ algorithm # "Optimal"
  OBVIOUS
<1> LoadIn(g)
  BY ZenonT(60), <1>4, <1>6, LoadIsLoadIn
<1>8. RingInv' /\ PosInv'
  BY ZenonT(60) DEF LoadIn, RowWritten, RingInv, PosInv
<1>9. HistInv'
  BY ZenonT(60), <1>8, LoadKeeps
<1>10. LRUStep
  BY ZenonT(60), LoadEvicts, LRUPolicy DEF LRUStep
<1>11. OptimalStep /\ FIFOStep /\ SCStep
  BY DEF OptimalStep, FIFOStep, SCStep
<1> QED BY ZenonT(60), <1>9, <1>10, <1>11 DEF PolicyStep

(* A step of Second-Chance's loop that writes no row and moves no page.    *)
LEMMA NoRowKeeps ==
  ASSUME HistInv, UNCHANGED <<algorithm, infos, frames, currentIndex, output>>,
         \A j \in Pages : pageTable'[j].frameNum = pageTable[j].frameNum,
         RingInv', BitInv', PosInv'
  PROVE  HistInv' /\ PolicyStep
<1>1. Occupied' = Occupied
  BY Zenon DEF Occupied
<1>2. RowInv'
  BY ZenonT(60), <1>1 DEF HistInv, RowInv
<1>3. \A p, n : UsedLast(p, n)' <=> UsedLast(p, n)
  BY ZenonT(60) DEF UsedLast
<1>4. UseInv'
  BY ZenonT(60), <1>3 DEF HistInv, UseInv
<1> QED BY ZenonT(60), <1>2, <1>4, NoEviction DEF HistInv

(* replacePageSC() takes the first frame in turn.                          *)
LEMMA SCTakeVictimKeeps ==
  ASSUME IInv, HistInv, currentIndex \in Index, pc = "reference",
         algorithm = "SC", SCTakeVictim
  PROVE  HistInv' /\ PolicyStep
<1> /\ TypeOK /\ QueueShape /\ LoopInv /\ RingInv /\ BitInv
  BY ZenonT(60) DEF IInv, HistInv
<1> /\ FreeFrames = {}
    /\ victimFrameNum' = dequeuedItem(pageQueue)
    /\ pageQueue' = dequeue(pageQueue)
    /\ UNCHANGED <<algorithm, infos, pageTable, frames, currentIndex, output>>
  BY DEF SCTakeVictim, Full
<1>2. pageQueue \in QueueType /\ FullRing(pageQueue) /\ victimFrameNum = -1
  <2>1. TurningShape
    BY ZenonT(60), RingTurns
  <2>2. victimFrameNum = -1
    BY DEF LoopInv
  <2> QED BY ZenonT(60), <2>1, <2>2, QueueTyped DEF TurningShape
<1>3. victimFrameNum' = pageQueue.front /\ victimFrameNum' # -1
  <2>1. victimFrameNum' \in Frames /\ victimFrameNum' = pageQueue.front
    BY <1>2, TakeFront
  <2> QED BY <2>1, SimulatorAssumption DEF Frames
<1>4. NextOut' = NextOut
  <2>1. FreeFrames' = {}
    BY Zenon DEF FreeFrames
  <2> QED BY ZenonT(60), <1>2, <1>3, <2>1 DEF NextOut
<1>5. RingInv' /\ BitInv'
  BY ZenonT(60), <1>4, RingSame, BitSame
<1>6. algorithm' # "Optimal"
  OBVIOUS
<1>7. PosInv'
  BY <1>6 DEF PosInv
<1> QED BY ZenonT(60), <1>5, <1>7, NoRowKeeps

(* The page of the frame in hand, as the loop finds it.                    *)
LEMMA VictimPageHasFrame ==
  ASSUME TypeOK, MappingInv, FreeFrames = {}, victimFrameNum \in Frames
  PROVE  victimPageNum \in Pages /\ pageTable[victimPageNum].frameNum = victimFrameNum
<1>1. victimFrameNum \in Occupied
  BY FullOccupied
<1> PICK p \in Pages : /\ pageTable[p].frameNum = victimFrameNum
                       /\ pageTable[p].pageNum = p
                       /\ \A r \in Pages :
                            pageTable[r].frameNum = victimFrameNum => r = p
  BY ZenonT(60), <1>1, PageOfFrame
<1>3. {j \in Pages : pageTable[j].frameNum = victimFrameNum} = {p}
  OBVIOUS
<1>4. Min({p}) = p /\ {p} # {}
  BY MinSingleton DEF Pages
<1>5. victimPageNum = p
  BY ZenonT(60), <1>4 DEF victimPageNum
<1> QED BY <1>5

(* The loop of replacePageSC() clears a bit and takes the next frame.      *)
LEMMA SCGiveChanceKeeps ==
  ASSUME IInv, HistInv, SCGiveChance
  PROVE  HistInv' /\ PolicyStep
<1> /\ TypeOK /\ MappingInv /\ QueueShape /\ LoopInv /\ RingInv /\ BitInv
  BY DEF IInv, HistInv
<1>1. PICK again : again = enqueue(pageQueue, victimFrameNum)
  OBVIOUS
<1> /\ pc = "second_chance" /\ pageTable[victimPageNum].referenceBit = 1
    /\ pageTable' = [pageTable EXCEPT ![victimPageNum].referenceBit = 0]
    /\ victimFrameNum' = dequeuedItem(again)
    /\ pageQueue' = dequeue(again)
    /\ UNCHANGED <<algorithm, infos, frames, currentIndex, output>>
  BY ZenonT(60), <1>1 DEF SCGiveChance
<1> algorithm = "SC" /\ FreeFrames = {} /\ victimFrameNum \in Frames
  BY Zenon DEF LoopInv
<1>4. PICK v \in Pages : v = victimPageNum /\ pageTable[v].frameNum = victimFrameNum
  BY ZenonT(60), VictimPageHasFrame
<1>5. /\ \A j \in Pages : pageTable'[j].frameNum = pageTable[j].frameNum
      /\ pageTable'[v].referenceBit = 0
      /\ \A j \in Pages \ {v} :
           pageTable'[j].referenceBit = pageTable[j].referenceBit
  <2>1. pageTable \in [Pages -> PageEntry]
    BY Zenon DEF TypeOK
  <2>2. pageTable' = [pageTable EXCEPT ![v].referenceBit = 0]
    BY ZenonT(60), <1>4
  <2> QED BY <2>1, <2>2 DEF PageEntry
<1>6. victimFrameNum # -1 /\ -1 \notin Frames
  BY SimulatorAssumption DEF Frames
<1>7. pageQueue \in QueueType /\ GapRing(pageQueue, victimFrameNum)
  BY SMTT(60), <1>6, RingTurns, QueueTyped DEF TurningShape
<1>8. /\ again \in QueueType /\ FullRing(again)
      /\ again.front = NextSlot(victimFrameNum)
  BY ZenonT(60), <1>1, <1>7, GiveBack DEF GapRing
<1>9. victimFrameNum' = NextSlot(victimFrameNum) /\ victimFrameNum' # -1
  BY ZenonT(60), <1>6, <1>8, TakeFront
<1>10. victimFrameNum = NextOut /\ NextOut' = NextSlot(victimFrameNum)
  <2>1. FreeFrames' = {}
    BY Zenon DEF FreeFrames
  <2> QED BY ZenonT(60), <1>6, <1>9, <2>1 DEF NextOut
<1> Occupied = Frames
  BY ZenonT(60), FullOccupied
<1> PICK g \in Frames : g = victimFrameNum /\ g = NextOut /\ NextOut' = NextSlot(g)
  BY ZenonT(60), <1>10
<1> BitInv' /\ ~Fresh(g)
  BY ZenonT(60), <1>4, <1>5, BitChance
<1>14. RingInv'
  BY ZenonT(60), RingChance
<1>15. algorithm' # "Optimal"
  OBVIOUS
<1>16. PosInv'
  BY <1>15 DEF PosInv
<1> QED BY ZenonT(60), <1>5, <1>14, <1>16, NoRowKeeps

(* The loop of replacePageSC() ends with a page whose bit is clear.        *)
LEMMA SCReplaceKeeps ==
  ASSUME IInv, HistInv, SCReplace
  PROVE  HistInv' /\ PolicyStep
<1> /\ TypeOK /\ MappingInv /\ QueueShape /\ LoopInv
    /\ RowInv /\ RingInv /\ BitInv
  BY DEF IInv, HistInv
<1>1. /\ pc = "second_chance" /\ LoadFrame(victimFrameNum)
      /\ victimPageNum = -1 \/ pageTable[victimPageNum].referenceBit # 1
      /\ pageTable' = Remapped(victimFrameNum, 0, StaleEntries(victimFrameNum))
      /\ pageQueue' = enqueue(pageQueue, victimFrameNum)
      /\ victimFrameNum' = -1 /\ Record(0)
  BY ZenonT(60) DEF SCReplace
<1> /\ algorithm = "SC" /\ currentIndex \in Index /\ FreeFrames = {}
    /\ pageTable[pageNum].frameNum = -1 /\ victimFrameNum \in Frames
  BY ZenonT(60), <1>1 DEF LoopInv
<1>3. PICK v \in Pages : v = victimPageNum /\ pageTable[v].frameNum = victimFrameNum
  BY ZenonT(60), VictimPageHasFrame
<1>4. pageTable[v].referenceBit # 1
  <2>1. v # -1
    BY SimulatorAssumption DEF Pages
  <2> QED BY ZenonT(60), <1>1, <1>3, <2>1
<1>5. victimFrameNum # -1
  BY SimulatorAssumption DEF Frames
<1>6. pageQueue \in QueueType /\ GapRing(pageQueue, victimFrameNum)
  BY SMTT(60), <1>5, RingTurns, QueueTyped DEF TurningShape
<1>7. pageQueue'.front = NextSlot(victimFrameNum)
  BY ZenonT(60), <1>1, <1>6, GiveBack DEF GapRing
<1>8. PICK g \in Frames : g = victimFrameNum
  BY Zenon
<1> LoadIn(g)
  BY ZenonT(60), <1>1, <1>8, LoadIsLoadIn
<1>10. g = NextOut /\ NextOut' = NextSlot(g) /\ Occupied = Frames
  <2>1. FreeFrames' = {}
    BY Zenon DEF LoadIn
  <2> QED BY ZenonT(60), <1>1, <1>5, <1>7, <1>8, <2>1, FullOccupied
             DEF NextOut
<1>11. RingInv'
  BY ZenonT(60), <1>10, RingReplace
<1>12. algorithm # "Optimal"
  OBVIOUS
<1>13. PosInv'
  BY <1>12 DEF LoadIn, RowWritten, PosInv
<1>14. HistInv'
  BY SMTT(60), <1>11, <1>13, LoadKeeps
<1>15. /\ HitSince(g, Max(FaultRows))
            => \A h \in Frames : HitSince(h, LoadedAt(h))
       /\ ~HitSince(g, LoadedAt(g))
            => \A h \in Frames :
                 LoadedAt(h) < LoadedAt(g) => HitSince(h, LoadedAt(h))
  BY ZenonT(60), <1>3, <1>4, <1>8, <1>10, SCPolicy
<1>16. SCStep
  BY ZenonT(60), <1>15, LoadEvicts DEF SCStep
<1>17. OptimalStep /\ FIFOStep /\ LRUStep
  BY SMTT(60) DEF OptimalStep, FIFOStep, LRUStep
<1> QED BY SMTT(60), <1>14, <1>16, <1>17 DEF PolicyStep

(* Before the first address no frame is occupied and no row is written.    *)
LEMMA InitHist == Init => HistInv
<1> SUFFICES ASSUME Init PROVE HistInv
  OBVIOUS
<1> /\ output = << >> /\ currentIndex = 0 /\ pageQueue = initializePageQueue
    /\ frames = [f \in Frames |->
                   [isOccupied |-> 0, frameNum |-> -1, physicalAddress |-> -1]]
    /\ pageTable = [j \in Pages |->
                      [pageNum |-> -1, frameNum |-> -1, referenceBit |-> 0]]
  BY ZenonT(60) DEF Init
<1>2. Occupied = {}
  BY DEF Occupied
<1>3. \A p \in Pages : pageTable[p].frameNum \notin Frames
  BY DEF Frames
<1>4. Len(output) = currentIndex /\ 0 .. pageQueue.rear = {}
  BY DEF initializePageQueue
<1> QED BY <1>2, <1>3, <1>4 DEF HistInv, RowInv, UseInv, RingInv, BitInv,
           PosInv

(* Every step of the simulator keeps HistInv and obeys the policy.         *)
LEMMA NextHist == IInv /\ HistInv /\ [Next]_vars => HistInv' /\ PolicyStep
<1> SUFFICES ASSUME IInv, HistInv, [Next]_vars
             PROVE  HistInv' /\ PolicyStep
  OBVIOUS
<1>0. TypeOK
  BY ZenonT(60) DEF IInv
<1>1. ASSUME NEW alg, Referencing(alg)
      PROVE  currentIndex \in Index /\ pc = "reference" /\ algorithm = alg
  BY SMTT(60), <1>0, <1>1, SimulatorAssumption DEF Referencing, TypeOK, Index
<1>2. ASSUME currentIndex \in Index
      PROVE  pageTable[pageNum].referenceBit \in {0, 1}
  BY SMTT(60), <1>2, HitIsResident, ReferenceBitTyped DEF IInv
<1>3. CASE replacePageOptimal
  <2> /\ currentIndex \in Index /\ pc = "reference" /\ algorithm = "Optimal"
      /\ algorithm # "SC" /\ algorithm # "LRU"
    BY <1>1, <1>3 DEF replacePageOptimal
  <2>2. CASE Hit
    BY ZenonT(60), <2>2, HitIsHitIn, HitKeeps
  <2>3. CASE FillFrame(pageTable[pageNum].referenceBit,
                       enqueue(pageQueue, Min(FreeFrames)))
    BY ZenonT(60), <1>2, <2>3, FillKeeps
  <2>4. CASE OptimalReplace
    BY ZenonT(60), <2>4, OptimalReplaceKeeps
  <2> QED BY SMTT(60), <1>3, <2>2, <2>3, <2>4 DEF replacePageOptimal
<1>4. CASE replacePageFIFO
  <2> /\ currentIndex \in Index /\ pc = "reference" /\ algorithm = "FIFO"
      /\ algorithm # "SC" /\ algorithm # "LRU"
    BY <1>1, <1>4 DEF replacePageFIFO
  <2>2. CASE Hit
    BY <2>2, HitIsHitIn, HitKeeps
  <2>3. CASE FillFrame(pageTable[pageNum].referenceBit,
                       enqueue(pageQueue, Min(FreeFrames)))
    BY ZenonT(60), <1>2, <2>3, FillKeeps
  <2>4. CASE FIFOReplace
    BY ZenonT(60), <2>4, FIFOReplaceKeeps
  <2> QED BY ZenonT(60), <1>4, <2>2, <2>3, <2>4 DEF replacePageFIFO
<1>5. CASE replacePageLRU
  <2> /\ currentIndex \in Index /\ pc = "reference" /\ algorithm = "LRU"
      /\ algorithm # "SC"
    BY SMTT(60), <1>1, <1>5 DEF replacePageLRU
  <2>2. CASE Hit
    BY SMTT(60), <2>2, HitIsHitIn, HitKeeps
  <2>3. CASE FillFrame(pageTable[pageNum].referenceBit, pageQueue)
    BY SMTT(60), <1>2, <2>3, FillKeeps
  <2>4. CASE LRUReplace
    BY ZenonT(60), <2>4, LRUReplaceKeeps
  <2> QED BY ZenonT(60), <1>5, <2>2, <2>3, <2>4 DEF replacePageLRU
<1>6. CASE replacePageSC
  <2> /\ currentIndex \in Index /\ pc = "reference" /\ algorithm = "SC"
      /\ algorithm # "LRU"
    BY SMTT(60), <1>1, <1>6 DEF replacePageSC
  <2>2. CASE SCHit
    BY SMTT(60), <2>2, SCHitIsHitIn, HitKeeps
  <2>3. CASE FillFrame(0, enqueue(pageQueue, Min(FreeFrames)))
    BY ZenonT(60), <2>3, FillKeeps
  <2>4. CASE SCTakeVictim
    BY ZenonT(60), <2>4, SCTakeVictimKeeps
  <2> QED BY ZenonT(60), <1>6, <2>2, <2>3, <2>4 DEF replacePageSC
<1>7. CASE SCGiveChance
  BY ZenonT(60), <1>7, SCGiveChanceKeeps
<1>8. CASE SCReplace
  BY ZenonT(60), <1>8, SCReplaceKeeps
<1>9. ASSUME UNCHANGED <<algorithm, infos, pageTable, frames, pageQueue,
                         currentIndex, victimFrameNum, output>>
      PROVE  HistInv' /\ PolicyStep
  <2>1. NextOut' = NextOut
    BY ZenonT(60), <1>9 DEF NextOut, FreeFrames
  <2>2. RingInv' /\ BitInv'
    BY ZenonT(60), <1>9, <2>1, RingSame, BitSame DEF HistInv
  <2>3. PosInv'
    BY ZenonT(60), <1>9 DEF HistInv, PosInv
  <2> QED BY ZenonT(60), <1>9, <2>2, <2>3, NoRowKeeps
<1>10. CASE Finish
  BY ZenonT(60), <1>9, <1>10 DEF Finish
<1>11. CASE UNCHANGED vars
  BY ZenonT(60), <1>9, <1>11 DEF vars
<1> QED BY SMTT(60), <1>3, <1>4, <1>5, <1>6, <1>7, <1>8, <1>10, <1>11 DEF Next

(* Every algorithm evicts the page its policy names, for every size of     *)
(* memory and every address string: FIFO the one loaded first, LRU the one *)
(* used longest ago, Second-Chance none hit since the last fault unless    *)
(* all were hit, Optimal the one whose next use is farthest.               *)
THEOREM PolicyCorrect == Spec => EvictsByPolicy
<1>1. Spec => [](IInv /\ HistInv)
  <2>1. IInv /\ HistInv /\ [Next]_vars => HistInv'
    BY ZenonT(60), NextHist
  <2> QED BY <2>1, InitHist, Invariance, PTL DEF Spec
<1>2. IInv /\ HistInv /\ [Next]_vars
        => [FIFOStep]_vars /\ [LRUStep]_vars /\ [SCStep]_vars /\ [OptimalStep]_vars
  BY ZenonT(60), NextHist DEF PolicyStep
<1>3. Spec => /\ [][FIFOStep]_vars /\ [][LRUStep]_vars
              /\ [][SCStep]_vars /\ [][OptimalStep]_vars
  BY <1>1, <1>2, PTL DEF Spec
<1>4. /\ FIFOEvictsOldest <=> [][FIFOStep]_vars
      /\ LRUEvictsLeastRecent <=> [][LRUStep]_vars
      /\ SCGivesSecondChance <=> [][SCStep]_vars
      /\ OptimalEvictsFarthest <=> [][OptimalStep]_vars
  BY DEF FIFOEvictsOldest, FIFOStep, LRUEvictsLeastRecent, LRUStep,
         SCGivesSecondChance, SCStep, OptimalEvictsFarthest, OptimalStep
<1> QED BY <1>3, <1>4 DEF EvictsByPolicy

=============================================================================
