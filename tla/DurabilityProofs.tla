--------------------------- MODULE DurabilityProofs ---------------------------
(***************************************************************************)
(* What a program closed is still there after the power has failed, for    *)
(* any number of buckets, records, records to a page, runs, deaths and     *)
(* failed calls, and whatever pages the kernel has written by then.        *)
(***************************************************************************)
EXTENDS Durability, BlockProofs, WellFoundedInduction

-----------------------------------------------------------------------------
(* The walk of hash_find along a chain *)

(* A set of natural numbers has a least one.                               *)
LEMMA LeastNat ==
  ASSUME NEW B \in SUBSET Nat, B # {}
  PROVE  \E n \in B : \A m \in B : n <= m
<1>1. PICK n \in B : \A m \in B : ~ (<<m, n>> \in OpToRel(<, Nat))
  BY NatLessThanWellFounded, WFMin, Zenon
<1>2. ASSUME NEW m \in B PROVE n <= m
  <2>1. m \in Nat /\ n \in Nat
    OBVIOUS
  <2>2. ~(m < n)
    BY <1>1, <2>1 DEF OpToRel
  <2> QED
    BY <2>1, <2>2
<1> QED
  BY <1>2

(* at is the walk of N steps from b along the offsets in f, through R.     *)
IsWalk(at, N, b, f, R) ==
  at = [i \in 0 .. N |->
          LET n == IF i = 0 THEN b ELSE IF at[i - 1] = Null THEN Null ELSE f[at[i - 1]].next
          IN  IF n \in R THEN n ELSE Null]

(* There is one of any length.                                             *)
LEMMA WalkExists == \A N \in Nat : \A b, f, R : \E at : IsWalk(at, N, b, f, R)
<1> SUFFICES ASSUME NEW b, NEW f, NEW R, {n \in Nat : ~ \E at : IsWalk(at, n, b, f, R)} # {} PROVE FALSE
  OBVIOUS
<1> DEFINE B == {n \in Nat : ~ \E at : IsWalk(at, n, b, f, R)}
<1>1. PICK n \in B : \A m \in B : n <= m
  <2>1. B \in SUBSET Nat /\ B # {}
    OBVIOUS
  <2> HIDE DEF B
  <2> QED
    BY <2>1, LeastNat
<1>2. n \in Nat /\ ~ \E at : IsWalk(at, n, b, f, R)
  BY <1>1
<1> DEFINE in(x) == IF x \in R THEN x ELSE Null
           next(x) == in(IF x = Null THEN Null ELSE f[x].next)
<1>3. n # 0
  <2> SUFFICES ASSUME n = 0 PROVE FALSE
    OBVIOUS
  <2> DEFINE at == [i \in 0 .. 0 |-> in(b)]
  <2>1. at = [i \in 0 .. 0 |->
                LET m == IF i = 0 THEN b ELSE IF at[i - 1] = Null THEN Null ELSE f[at[i - 1]].next
                IN  IF m \in R THEN m ELSE Null]
    OBVIOUS
  <2> HIDE DEF at
  <2>2. IsWalk(at, n, b, f, R)
    BY <2>1 DEF IsWalk
  <2> QED
    BY <1>2, <2>2
<1>4. n - 1 \in Nat /\ n - 1 \notin B
  BY <1>1, <1>2, <1>3
<1>5. PICK w : IsWalk(w, n - 1, b, f, R)
  BY <1>4
<1> DEFINE at == [i \in 0 .. n |-> IF i = n THEN next(w[n - 1]) ELSE w[i]]
<1>6. w[0] = in(b) /\ \A i \in 1 .. n - 1 : w[i] = next(w[i - 1])
  BY <1>2, <1>3, <1>5 DEF IsWalk
<1>7. ASSUME NEW i \in 0 .. n PROVE at[i] = IF i = 0 THEN in(b) ELSE next(at[i - 1])
  <2> HIDE DEF next, in
  <2>1. CASE i = 0
    BY <1>2, <1>3, <1>6, <2>1
  <2>2. CASE i \in 1 .. n - 1
    BY <1>2, <1>6, <2>2
  <2>3. CASE i = n
    BY <1>2, <1>3, <2>3
  <2> QED
    BY <1>2, <2>1, <2>2, <2>3
<1>8. at = [i \in 0 .. n |->
              LET m == IF i = 0 THEN b ELSE IF at[i - 1] = Null THEN Null ELSE f[at[i - 1]].next
              IN  IF m \in R THEN m ELSE Null]
  BY <1>7
<1> HIDE DEF at
<1> QED
  BY <1>2, <1>8 DEF IsWalk

(* So Walked is what the walk of MaxNodes steps comes across.              *)
LEMMA WalkedBy ==
  \A s, R : \E at :
    /\ Walked(s, R) = {at[i] : i \in 0 .. MaxNodes} \ {Null}
    /\ at[0] = IF bucket_slot[s] \in R THEN bucket_slot[s] ELSE Null
    /\ \A i \in 1 .. MaxNodes :
         LET n == IF at[i - 1] = Null THEN Null ELSE nodes[at[i - 1]].next
         IN  at[i] = IF n \in R THEN n ELSE Null
<1> SUFFICES ASSUME NEW s, NEW R
             PROVE  \E at :
                      /\ Walked(s, R) = {at[i] : i \in 0 .. MaxNodes} \ {Null}
                      /\ at[0] = IF bucket_slot[s] \in R THEN bucket_slot[s] ELSE Null
                      /\ \A i \in 1 .. MaxNodes :
                           LET n == IF at[i - 1] = Null THEN Null ELSE nodes[at[i - 1]].next
                           IN  at[i] = IF n \in R THEN n ELSE Null
  OBVIOUS
<1> DEFINE at == CHOOSE w : IsWalk(w, MaxNodes, bucket_slot[s], nodes, R)
<1>1. IsWalk(at, MaxNodes, bucket_slot[s], nodes, R)
  BY WalkExists, BoundsAssumption
<1>2. Walked(s, R) = {at[i] : i \in 0 .. MaxNodes} \ {Null}
  BY Zenon DEF Walked, IsWalk
<1> HIDE DEF at
<1>3. /\ at[0] = IF bucket_slot[s] \in R THEN bucket_slot[s] ELSE Null
      /\ \A i \in 1 .. MaxNodes :
           LET n == IF at[i - 1] = Null THEN Null ELSE nodes[at[i - 1]].next
           IN  at[i] = IF n \in R THEN n ELSE Null
  BY <1>1, BoundsAssumption DEF IsWalk
<1> QED
  BY <1>2, <1>3

(* The same after a step, of all records.                                  *)
LEMMA WalkedByNext ==
  \A s : \E at :
    /\ Walked(s, Nodes)' = {at[i] : i \in 0 .. MaxNodes} \ {Null}
    /\ at[0] = IF bucket_slot'[s] \in Nodes THEN bucket_slot'[s] ELSE Null
    /\ \A i \in 1 .. MaxNodes :
         LET n == IF at[i - 1] = Null THEN Null ELSE nodes'[at[i - 1]].next
         IN  at[i] = IF n \in Nodes THEN n ELSE Null
<1> SUFFICES ASSUME NEW s
             PROVE  \E at :
                      /\ Walked(s, Nodes)' = {at[i] : i \in 0 .. MaxNodes} \ {Null}
                      /\ at[0] = IF bucket_slot'[s] \in Nodes THEN bucket_slot'[s] ELSE Null
                      /\ \A i \in 1 .. MaxNodes :
                           LET n == IF at[i - 1] = Null THEN Null ELSE nodes'[at[i - 1]].next
                           IN  at[i] = IF n \in Nodes THEN n ELSE Null
  OBVIOUS
<1> DEFINE at == CHOOSE w : IsWalk(w, MaxNodes, bucket_slot'[s], nodes', Nodes)
<1>1. IsWalk(at, MaxNodes, bucket_slot'[s], nodes', Nodes)
  BY WalkExists, BoundsAssumption
<1>2. Walked(s, Nodes)' = {at[i] : i \in 0 .. MaxNodes} \ {Null}
  BY Zenon DEF Walked, IsWalk
<1> HIDE DEF at
<1>3. /\ at[0] = IF bucket_slot'[s] \in Nodes THEN bucket_slot'[s] ELSE Null
      /\ \A i \in 1 .. MaxNodes :
           LET n == IF at[i - 1] = Null THEN Null ELSE nodes'[at[i - 1]].next
           IN  at[i] = IF n \in Nodes THEN n ELSE Null
  BY <1>1, BoundsAssumption DEF IsWalk
<1> QED
  BY <1>2, <1>3
-----------------------------------------------------------------------------
(* Chains in memory and on the disk *)

(* In memory hash_find walks the chain, and nothing else; what it finds in *)
(* R it has come to through R.                                             *)
LEMMA WalksChain ==
  ASSUME TypeOK, Represented, NEW s \in Slots, NEW R, NEW n \in Walked(s, R)
  PROVE  \E i \in 1 .. Len(lists[s]) :
           n = lists[s][i] /\ \A j \in 1 .. i : lists[s][j] \in R
<1> DEFINE c == lists[s]
           Reached(i) == i + 1 \in 1 .. Len(c) /\ \A j \in 1 .. i + 1 : c[j] \in R
<1>1. /\ c \in Seq(Nodes) /\ s \in Lists /\ s # FreeList /\ Len(c) \in Nat
      /\ \A i \in 1 .. Len(c) : c[i] \in Nodes /\ c[i] # Null
  BY ListElements, SlotFacts, NodesFacts DEF TypeOK
<1>2. /\ bucket_slot[s] = At(c, 1)
      /\ \A i \in 1 .. Len(c) : nodes[c[i]].next = At(c, i + 1)
  BY <1>1 DEF Represented, HeadOf
<1>3. PICK at :
        /\ Walked(s, R) = {at[i] : i \in 0 .. MaxNodes} \ {Null}
        /\ at[0] = IF bucket_slot[s] \in R THEN bucket_slot[s] ELSE Null
        /\ \A i \in 1 .. MaxNodes :
             LET m == IF at[i - 1] = Null THEN Null ELSE nodes[at[i - 1]].next
             IN  at[i] = IF m \in R THEN m ELSE Null
  BY WalkedBy
<1> HIDE DEF c
<1> DEFINE B == {i \in Nat : i <= MaxNodes /\ at[i] # Null /\ ~(Reached(i) /\ at[i] = c[i + 1])}
<1>4. B = {}
  <2> SUFFICES ASSUME B # {} PROVE FALSE
    OBVIOUS
  <2>1. PICK k \in B : \A m \in B : k <= m
    <3>1. B \in SUBSET Nat
      OBVIOUS
    <3> HIDE DEF B
    <3> QED
      BY <3>1, LeastNat
  <2>2. k \in Nat /\ k <= MaxNodes /\ at[k] # Null /\ ~(Reached(k) /\ at[k] = c[k + 1])
    BY <2>1
  <2>3. CASE k = 0
    <3>1. at[0] = At(c, 1) /\ at[0] \in R /\ at[0] # Null
      BY <1>2, <1>3, <2>2, <2>3
    <3>2. 1 \in 1 .. Len(c) /\ at[0] = c[1]
      BY <3>1 DEF At
    <3> QED
      BY <2>2, <2>3, <3>1, <3>2
  <2>4. CASE k # 0
    <3>1. k - 1 \in Nat /\ k - 1 <= MaxNodes /\ k \in 1 .. MaxNodes /\ k - 1 + 1 = k /\ ~(k <= k - 1)
      BY <2>2, <2>4, BoundsAssumption
    <3>2. at[k - 1] # Null /\ at[k] = nodes[at[k - 1]].next /\ at[k] \in R
      BY <1>3, <2>2, <3>1
    <3>3. Reached(k - 1) /\ at[k - 1] = c[k]
      BY <2>1, <3>1, <3>2
    <3>4. k \in 1 .. Len(c) /\ \A j \in 1 .. k : c[j] \in R
      BY <3>1, <3>3
    <3>5. at[k] = At(c, k + 1)
      BY <1>2, <3>2, <3>3, <3>4
    <3>6. k + 1 \in 1 .. Len(c) /\ at[k] = c[k + 1]
      BY <2>2, <3>5 DEF At
    <3>7. \A j \in 1 .. k + 1 : j \in 1 .. k \/ j = k + 1
      BY <2>2
    <3> QED
      BY <2>2, <3>2, <3>4, <3>6, <3>7
  <2> QED
    BY <2>3, <2>4
<1>5. PICK i \in 0 .. MaxNodes : n = at[i] /\ n # Null
  BY <1>3
<1>6. Reached(i) /\ n = c[i + 1]
  BY <1>4, <1>5, BoundsAssumption
<1> QED
  BY <1>6 DEF c

(* After a step to an image whose offsets lead along a chain as far as its *)
(* i-th record, hash_find gets there.                                      *)
LEMMA WalksAsFar ==
  ASSUME NEW c \in Seq(Nodes), Len(c) <= MaxNodes, NEW i \in 1 .. Len(c), NEW s,
         bucket_slot'[s] = c[1], \A j \in 1 .. i - 1 : nodes'[c[j]].next = c[j + 1]
  PROVE  c[i] \in Walked(s, Nodes)'
<1>1. Len(c) \in Nat /\ \A j \in 1 .. Len(c) : c[j] \in Nodes /\ c[j] # Null
  BY NodesFacts
<1>2. PICK at :
        /\ Walked(s, Nodes)' = {at[j] : j \in 0 .. MaxNodes} \ {Null}
        /\ at[0] = IF bucket_slot'[s] \in Nodes THEN bucket_slot'[s] ELSE Null
        /\ \A j \in 1 .. MaxNodes :
             LET n == IF at[j - 1] = Null THEN Null ELSE nodes'[at[j - 1]].next
             IN  at[j] = IF n \in Nodes THEN n ELSE Null
  BY WalkedByNext
<1> DEFINE B == {j \in Nat : j <= i - 1 /\ at[j] # c[j + 1]}
<1>3. B = {}
  <2> SUFFICES ASSUME B # {} PROVE FALSE
    OBVIOUS
  <2>1. PICK n \in B : \A m \in B : n <= m
    <3>1. B \in SUBSET Nat
      OBVIOUS
    <3> HIDE DEF B
    <3> QED
      BY <3>1, LeastNat
  <2>2. n \in Nat /\ n <= i - 1 /\ at[n] # c[n + 1]
    BY <2>1
  <2>3. n # 0
    <3>1. 1 \in 1 .. Len(c)
      BY <1>1
    <3> QED
      BY <1>1, <1>2, <2>2, <3>1
  <2>4. /\ n - 1 \in Nat /\ n - 1 <= i - 1 /\ n - 1 + 1 = n
        /\ n \in 1 .. i - 1 /\ n \in 1 .. MaxNodes /\ n \in 1 .. Len(c)
    BY <1>1, <2>2, <2>3, BoundsAssumption
  <2>5. at[n - 1] = c[n]
    BY <2>1, <2>2, <2>4
  <2> QED
    <3>1. n + 1 \in 1 .. Len(c) /\ nodes'[c[n]].next = c[n + 1]
      BY <1>1, <2>4
    <3> QED
      BY <1>1, <1>2, <2>2, <2>4, <2>5, <3>1
<1>4. i - 1 \in 0 .. MaxNodes /\ at[i - 1] = c[i] /\ c[i] # Null
  BY <1>1, <1>3, BoundsAssumption
<1> QED
  BY <1>2, <1>4
-----------------------------------------------------------------------------
(* The files that were closed, in memory and on the disk *)

(* The disk has the chain of file e as far as its record, and the record;  *)
(* memory has the record too.                                              *)
OnDisk(e) ==
  \E s \in Slots : \E i \in 1 .. Len(lists[s]) :
    /\ disk.head.bucket_slot[s] = lists[s][1]
    /\ \A j \in 1 .. i - 1 : disk.nodes[lists[s][j]].next = lists[s][j + 1]
    /\ Entry(disk.nodes[lists[s][i]]) = e
    /\ Entry(nodes[lists[s][i]]) = e

DiskTyped == disk = [head |-> disk.head, nodes |-> disk.nodes, mainblock |-> disk.mainblock]

(* While there is power: the index is closed by a program that is done,    *)
(* and a delete leaves nothing to keep.                                    *)
Running ==
  /\ Quiet /\ DiskTyped
  /\ index_open => program = "none"
  /\ program = "delete" => synced = {}
  /\ ~misrolled => \A e \in synced : OnDisk(e)

(* The inductive form of ClosedFilesSurvive.                               *)
PowerInv == (power => Running) /\ ClosedFilesSurvive

(* Offsets of the file in memory lead along a chain.                       *)
LEMMA ChainInMemory ==
  ASSUME IndexInv, ~misrolled, NEW s \in Slots, NEW i \in 1 .. Len(lists[s])
  PROVE  /\ lists[s] \in Seq(Nodes) /\ lists[s][i] \in Nodes /\ Len(lists[s]) <= MaxNodes
         /\ bucket_slot[s] = lists[s][1]
         /\ \A j \in 1 .. i - 1 :
              lists[s][j] \in Nodes /\ nodes[lists[s][j]].next = lists[s][j + 1]
<1>1. TypeOK /\ Represented /\ Disjoint
  BY DEF IndexInv, TypeInv, ListInv, FileInv
<1>2. /\ s \in Lists /\ s # FreeList /\ lists[s] \in Seq(Nodes) /\ Len(lists[s]) \in Nat
      /\ \A j \in 1 .. Len(lists[s]) : lists[s][j] \in Nodes
  BY <1>1, ListElements, SlotFacts DEF TypeOK
<1>3. /\ bucket_slot[s] = At(lists[s], 1)
      /\ \A j \in 1 .. Len(lists[s]) : nodes[lists[s][j]].next = At(lists[s], j + 1)
  BY <1>1, <1>2 DEF Represented, HeadOf
<1>4. 1 \in 1 .. Len(lists[s]) /\ \A j \in 1 .. i - 1 : j \in 1 .. Len(lists[s]) /\ j + 1 \in 1 .. Len(lists[s])
  BY <1>2
<1>5. Len(lists[s]) <= MaxNodes
  BY <1>1, ChainFits
<1> QED
  BY <1>2, <1>3, <1>4, <1>5 DEF At

(* Unless a delete runs, a step of a program leaves the records of a chain *)
(* where they are, and the files in them as they are.                      *)
LEMMA ChainKept ==
  ASSUME Quiet, [BlockNext]_allvars, ~misrolled', program # "delete",
         NEW s \in Slots, NEW i \in 1 .. Len(lists[s])
  PROVE  /\ i \in 1 .. Len(lists'[s]) /\ lists'[s][i] = lists[s][i]
         /\ Entry(nodes'[lists[s][i]]) = Entry(nodes[lists[s][i]])
<1>1. Quiet' /\ ~misrolled /\ IndexInv /\ IndexInv' /\ TypeInv /\ ListInv /\ CallOfProgram
  BY QuietStep, StillRight DEF Quiet, IndexInv
<1>2. CASE IndexStep
  <2>1. [Next]_vars /\ Step
    BY <1>2 DEF IndexStep, Next
  <2>2. ~UnlinkNode
    <3>1. pc # "idle"
      BY <1>1, <2>1, StepHeader
    <3> QED
      BY <1>1, <3>1 DEF UnlinkNode, CallOfProgram
  <2>3. /\ Len(lists[s]) <= Len(lists'[s])
        /\ \A j \in 1 .. Len(lists[s]) : lists'[s][j] = lists[s][j]
    BY <1>1, <2>1, <2>2, ChainGrows
  <2>4. Len(lists[s]) \in Nat /\ Len(lists'[s]) \in Nat
    <3>1. lists \in [Lists -> Seq(Nodes)] /\ lists' \in [Lists -> Seq(Nodes)] /\ s \in Lists
      BY <1>1, SlotFacts DEF IndexInv, TypeInv, TypeOK
    <3> QED
      BY <3>1
  <2>5. lists[s][i] \in Live /\ lists[s][i] \in Nodes
    <3>1. lists[s][i] \in Live
      BY DEF Live, Elements
    <3> QED
      BY <1>1, <3>1, LiveInNodes DEF TypeInv
  <2>6. /\ nodes'[lists[s][i]].key = nodes[lists[s][i]].key
        /\ nodes'[lists[s][i]].offset = nodes[lists[s][i]].offset
        /\ nodes'[lists[s][i]].size = nodes[lists[s][i]].size
    BY <1>1, <2>1, <2>5, LiveEntriesKept
  <2>7. nodes[lists[s][i]] \in MetaInfo /\ nodes'[lists[s][i]] \in MetaInfo
    BY <1>1, <2>5 DEF IndexInv, TypeInv, TypeOK
  <2>8. Entry(nodes'[lists[s][i]]) = Entry(nodes[lists[s][i]])
    BY <2>6, <2>7 DEF Entry, MetaInfo
  <2> QED
    BY <2>3, <2>4, <2>8
<1>3. CASE ~IndexStep
  <2>1. UNCHANGED <<nodes, lists>>
    BY <1>3 DEF BlockNext, WriteProgram, WriteData, WriteDataFails, WriteMeta, FinishWrite, FlushFails,
      ReadProgram, DeleteProgram, BeginRead, BeginDelete, StartFind, FinishRead, ReadDataFails,
      FinishDelete, Dies, Fault, allvars, index, image
  <2> QED
    BY <2>1
<1> QED
  BY <1>2, <1>3

(* What OnDisk says is said of any state whose chain begins as this one.   *)
LEMMA WorksKeepsFiles ==
  ASSUME Running, Works, ~misrolled', NEW e \in synced'
  PROVE  OnDisk(e)'
<1>1. Quiet /\ [BlockNext]_allvars /\ disk' = disk /\ ~misrolled
  BY StillRight DEF Running, Works
<1>2. synced' = synced /\ program # "delete"
  BY DEF Running, Works
<1>3. PICK s \in Slots : \E i \in 1 .. Len(lists[s]) :
        /\ disk.head.bucket_slot[s] = lists[s][1]
        /\ \A j \in 1 .. i - 1 : disk.nodes[lists[s][j]].next = lists[s][j + 1]
        /\ Entry(disk.nodes[lists[s][i]]) = e
        /\ Entry(nodes[lists[s][i]]) = e
  BY <1>1, <1>2 DEF Running, OnDisk
<1>4. PICK i \in 1 .. Len(lists[s]) :
        /\ disk.head.bucket_slot[s] = lists[s][1]
        /\ \A j \in 1 .. i - 1 : disk.nodes[lists[s][j]].next = lists[s][j + 1]
        /\ Entry(disk.nodes[lists[s][i]]) = e
        /\ Entry(nodes[lists[s][i]]) = e
  BY <1>3
<1>5. \A j \in 1 .. Len(lists[s]) :
        /\ j \in 1 .. Len(lists'[s]) /\ lists'[s][j] = lists[s][j]
        /\ Entry(nodes'[lists[s][j]]) = Entry(nodes[lists[s][j]])
  BY <1>1, <1>2, ChainKept
<1>6. Len(lists[s]) \in Nat
  <2>1. IndexInv /\ ~misrolled
    BY <1>1 DEF Quiet
  <2> QED
    BY <2>1, ChainInMemory
<1>7. 1 \in 1 .. Len(lists[s]) /\ \A j \in 1 .. i - 1 : j \in 1 .. Len(lists[s]) /\ j + 1 \in 1 .. Len(lists[s])
  BY <1>6
<1>8. /\ i \in 1 .. Len(lists'[s])
      /\ disk'.head.bucket_slot[s] = lists'[s][1]
      /\ \A j \in 1 .. i - 1 : disk'.nodes[lists'[s][j]].next = lists'[s][j + 1]
      /\ Entry(disk'.nodes[lists'[s][i]]) = e
      /\ Entry(nodes'[lists'[s][i]]) = e
  BY <1>1, <1>2, <1>4, <1>5, <1>7
<1> QED
  BY <1>8 DEF OnDisk, Entry

(* A page that is written takes the disk nearer to memory, where the chain *)
(* and the record are.                                                     *)
LEMMA WriteBackKeepsFiles ==
  ASSUME Running, ~misrolled, NEW p, WriteBack(p), NEW e \in synced
  PROVE  OnDisk(e)'
<1>1. IndexInv /\ ~misrolled /\ DiskTyped
  BY DEF Running, Quiet
<1>2. /\ lists' = lists /\ nodes' = nodes /\ synced' = synced
      /\ disk'.head = IF p = 0 THEN HeadPage ELSE disk.head
      /\ disk'.nodes = [n \in Nodes |-> IF Page(n) = p THEN nodes[n] ELSE disk.nodes[n]]
  BY <1>1 DEF WriteBack, DiskTyped, allvars, index, image
<1>3. PICK s \in Slots : \E i \in 1 .. Len(lists[s]) :
        /\ disk.head.bucket_slot[s] = lists[s][1]
        /\ \A j \in 1 .. i - 1 : disk.nodes[lists[s][j]].next = lists[s][j + 1]
        /\ Entry(disk.nodes[lists[s][i]]) = e
        /\ Entry(nodes[lists[s][i]]) = e
  BY DEF Running, OnDisk
<1>4. PICK i \in 1 .. Len(lists[s]) :
        /\ disk.head.bucket_slot[s] = lists[s][1]
        /\ \A j \in 1 .. i - 1 : disk.nodes[lists[s][j]].next = lists[s][j + 1]
        /\ Entry(disk.nodes[lists[s][i]]) = e
        /\ Entry(nodes[lists[s][i]]) = e
  BY <1>3
<1>5. /\ bucket_slot[s] = lists[s][1] /\ lists[s][i] \in Nodes
      /\ \A j \in 1 .. i - 1 :
           lists[s][j] \in Nodes /\ nodes[lists[s][j]].next = lists[s][j + 1]
  BY <1>1, ChainInMemory
<1>6. disk'.head.bucket_slot[s] = lists'[s][1]
  BY <1>2, <1>4, <1>5 DEF HeadPage
<1>7. ASSUME NEW n \in Nodes PROVE disk'.nodes[n] = nodes[n] \/ disk'.nodes[n] = disk.nodes[n]
  BY <1>2
<1>8. \A j \in 1 .. i - 1 : disk'.nodes[lists'[s][j]].next = lists'[s][j + 1]
  BY <1>2, <1>4, <1>5, <1>7
<1>9. Entry(disk'.nodes[lists'[s][i]]) = e /\ Entry(nodes'[lists'[s][i]]) = e
  BY <1>2, <1>4, <1>5, <1>7
<1>10. i \in 1 .. Len(lists'[s])
  BY <1>2
<1> QED
  BY <1>6, <1>8, <1>9, <1>10 DEF OnDisk, Entry

(* The destructor leaves the pages that are mapped as they are in memory:  *)
(* what was on the disk before still is, and so is now what hash_find      *)
(* walks to in these pages, as that is in a chain, and through them.       *)
LEMMA CloseSyncsFiles ==
  ASSUME Running, ~misrolled, Close, NEW e \in synced'
  PROVE  OnDisk(e)'
<1>1. IndexInv /\ ~misrolled /\ DiskTyped /\ TypeOK /\ Represented
  BY DEF Running, Quiet, IndexInv, TypeInv, ListInv, FileInv
<1>2. PICK last \in Mappings :
        /\ disk' = [disk EXCEPT !.head = HeadPage,
                                !.nodes = [n \in Nodes |-> IF Page(n) <= last THEN nodes[n] ELSE @[n]]]
        /\ synced' = synced \cup EntriesIn(Upto(last))
  BY DEF Close
<1>3. /\ lists' = lists /\ nodes' = nodes /\ disk'.head = HeadPage
      /\ \A n \in Nodes : disk'.nodes[n] = IF n \in Upto(last) THEN nodes[n] ELSE disk.nodes[n]
  BY <1>1, <1>2 DEF Close, DiskTyped, allvars, index, image, Upto
<1>4. CASE e \in synced
  <2>1. PICK s \in Slots : \E i \in 1 .. Len(lists[s]) :
          /\ disk.head.bucket_slot[s] = lists[s][1]
          /\ \A j \in 1 .. i - 1 : disk.nodes[lists[s][j]].next = lists[s][j + 1]
          /\ Entry(disk.nodes[lists[s][i]]) = e
          /\ Entry(nodes[lists[s][i]]) = e
    BY <1>4 DEF Running, OnDisk
  <2>2. PICK i \in 1 .. Len(lists[s]) :
          /\ disk.head.bucket_slot[s] = lists[s][1]
          /\ \A j \in 1 .. i - 1 : disk.nodes[lists[s][j]].next = lists[s][j + 1]
          /\ Entry(disk.nodes[lists[s][i]]) = e
          /\ Entry(nodes[lists[s][i]]) = e
    BY <2>1
  <2>3. /\ bucket_slot[s] = lists[s][1] /\ lists[s][i] \in Nodes
        /\ \A j \in 1 .. i - 1 :
             lists[s][j] \in Nodes /\ nodes[lists[s][j]].next = lists[s][j + 1]
    BY <1>1, ChainInMemory
  <2>4. disk'.head.bucket_slot[s] = lists'[s][1]
    BY <1>3, <2>3 DEF HeadPage
  <2>5. \A j \in 1 .. i - 1 : disk'.nodes[lists'[s][j]].next = lists'[s][j + 1]
    BY <1>3, <2>2, <2>3
  <2>6. Entry(disk'.nodes[lists'[s][i]]) = e /\ Entry(nodes'[lists'[s][i]]) = e
    BY <1>3, <2>2, <2>3
  <2>7. i \in 1 .. Len(lists'[s])
    BY <1>3
  <2> QED
    BY <2>4, <2>5, <2>6, <2>7 DEF OnDisk, Entry
<1>5. CASE e \in EntriesIn(Upto(last))
  <2>1. PICK s \in Slots : \E n \in Walked(s, Upto(last)) : e = Entry(nodes[n])
    BY <1>5 DEF EntriesIn
  <2>2. PICK n \in Walked(s, Upto(last)) : e = Entry(nodes[n])
    BY <2>1
  <2>3. PICK i \in 1 .. Len(lists[s]) :
          n = lists[s][i] /\ \A j \in 1 .. i : lists[s][j] \in Upto(last)
    BY <1>1, WalksChain
  <2>4. /\ bucket_slot[s] = lists[s][1] /\ lists[s][i] \in Nodes
        /\ \A j \in 1 .. i - 1 :
             lists[s][j] \in Nodes /\ nodes[lists[s][j]].next = lists[s][j + 1]
    BY <1>1, ChainInMemory
  <2>5. disk'.head.bucket_slot[s] = lists'[s][1]
    BY <1>3, <2>4 DEF HeadPage
  <2>6. i \in 1 .. i /\ \A j \in 1 .. i - 1 : j \in 1 .. i
    OBVIOUS
  <2>7. \A j \in 1 .. i - 1 : disk'.nodes[lists'[s][j]].next = lists'[s][j + 1]
    BY <1>3, <2>3, <2>4, <2>6
  <2>8. Entry(disk'.nodes[lists'[s][i]]) = e /\ Entry(nodes'[lists'[s][i]]) = e
    BY <1>3, <2>2, <2>3, <2>4, <2>6
  <2>9. i \in 1 .. Len(lists'[s])
    BY <1>3
  <2> QED
    BY <2>5, <2>7, <2>8, <2>9 DEF OnDisk, Entry
<1> QED
  BY <1>2, <1>4, <1>5

(* What the disk has of a file is what the next program finds.             *)
LEMMA PowerLossKeepsFiles ==
  ASSUME Running, ~misrolled, PowerLoss, NEW e \in synced'
  PROVE  e \in Entries'
<1>1. IndexInv /\ ~misrolled
  BY DEF Running, Quiet
<1>2. synced' = synced /\ bucket_slot' = disk.head.bucket_slot /\ nodes' = disk.nodes
  BY DEF PowerLoss
<1>3. PICK s \in Slots : \E i \in 1 .. Len(lists[s]) :
        /\ disk.head.bucket_slot[s] = lists[s][1]
        /\ \A j \in 1 .. i - 1 : disk.nodes[lists[s][j]].next = lists[s][j + 1]
        /\ Entry(disk.nodes[lists[s][i]]) = e
        /\ Entry(nodes[lists[s][i]]) = e
  BY <1>2 DEF Running, OnDisk
<1>4. PICK i \in 1 .. Len(lists[s]) :
        /\ disk.head.bucket_slot[s] = lists[s][1]
        /\ \A j \in 1 .. i - 1 : disk.nodes[lists[s][j]].next = lists[s][j + 1]
        /\ Entry(disk.nodes[lists[s][i]]) = e
        /\ Entry(nodes[lists[s][i]]) = e
  BY <1>3
<1>5. lists[s] \in Seq(Nodes) /\ Len(lists[s]) <= MaxNodes
  BY <1>1, ChainInMemory
<1> DEFINE c == lists[s]
<1>6. /\ bucket_slot'[s] = c[1] /\ \A j \in 1 .. i - 1 : nodes'[c[j]].next = c[j + 1]
      /\ Entry(nodes'[c[i]]) = e
  BY <1>2, <1>4
<1>7. c \in Seq(Nodes) /\ Len(c) <= MaxNodes /\ i \in 1 .. Len(c)
  BY <1>5
<1> HIDE DEF c
<1>8. c[i] \in Walked(s, Nodes)'
  BY <1>6, <1>7, WalksAsFar
<1> QED
  BY <1>6, <1>8 DEF Entries, EntriesIn, Entry

(* Programs, kernel, destructor and loss of power keep the invariant.      *)
LEMMA PowerStep == PowerInv /\ [PowerNext]_machine => PowerInv'
<1> SUFFICES ASSUME PowerInv, [PowerNext]_machine PROVE PowerInv'
  OBVIOUS
<1>1. CASE Works
  <2>1. Running /\ power' /\ [BlockNext]_allvars /\ disk' = disk
    BY <1>1 DEF Works, PowerInv
  <2>2. Quiet' /\ DiskTyped'
    BY <2>1, QuietStep DEF Running, DiskTyped
  <2>3. (index_open => program = "none")'
    BY <1>1 DEF Works
  <2>4. (program = "delete" => synced = {})'
    BY <1>1, <2>1 DEF Works, Running
  <2>5. ~misrolled' => \A e \in synced' : OnDisk(e)'
    BY <1>1, <2>1, WorksKeepsFiles
  <2> QED
    BY <2>1, <2>2, <2>3, <2>4, <2>5 DEF PowerInv, Running, ClosedFilesSurvive
<1>2. CASE Close
  <2>1. Running /\ power' /\ UNCHANGED allvars
    BY <1>2 DEF Close, PowerInv
  <2>2. Quiet' /\ misrolled' = misrolled /\ program' = program
    BY <2>1, QuietStep DEF Running, allvars, index, bad
  <2>3. DiskTyped'
    BY <1>2, <2>1 DEF Close, Running, DiskTyped
  <2>4. ~misrolled' => \A e \in synced' : OnDisk(e)'
    BY <1>2, <2>1, <2>2, CloseSyncsFiles
  <2>5. program' # "delete" /\ ~index_open'
    BY <1>2, <2>1, <2>2 DEF Close, Running
  <2> QED
    BY <2>1, <2>2, <2>3, <2>4, <2>5 DEF PowerInv, Running, ClosedFilesSurvive
<1>3. CASE DiesOpen \/ (\E i \in 1 .. Len(mainblock) : WriteBackMain(i)) \/ UNCHANGED machine
  <2>1. /\ UNCHANGED <<allvars, synced, power>> /\ (index_open' => index_open)
        /\ power => (DiskTyped => DiskTyped')
        /\ DiskTyped /\ power => disk'.head = disk.head /\ disk'.nodes = disk.nodes
    BY <1>3 DEF DiesOpen, WriteBackMain, machine, durable, DiskTyped
  <2>2. CASE power
    <3>1. Running /\ power' /\ [BlockNext]_allvars
      BY <2>1, <2>2 DEF PowerInv
    <3>2. Quiet' /\ DiskTyped'
      BY <2>1, <2>2, <3>1, QuietStep DEF Running
    <3>3. /\ lists' = lists /\ nodes' = nodes /\ misrolled' = misrolled /\ program' = program
          /\ disk'.head = disk.head /\ disk'.nodes = disk.nodes /\ synced' = synced
      BY <2>1, <2>2, <3>1 DEF Running, allvars, index, image, bad
    <3>4. ASSUME ~misrolled', NEW e \in synced' PROVE OnDisk(e)'
      BY <3>1, <3>3, <3>4 DEF Running, OnDisk, Entry
    <3> QED
      BY <2>1, <3>1, <3>2, <3>3, <3>4 DEF PowerInv, Running, ClosedFilesSurvive
  <2>3. CASE ~power
    <3>1. bucket_slot' = bucket_slot /\ nodes' = nodes /\ misrolled' = misrolled
      BY <2>1 DEF allvars, index, image, bad
    <3>2. Entries' = Entries
      BY <3>1 DEF Entries, EntriesIn, Walked, Entry
    <3> QED
      BY <2>1, <2>3, <3>1, <3>2 DEF PowerInv, ClosedFilesSurvive
  <2> QED
    BY <2>2, <2>3
<1>4. ASSUME NEW p \in Pages, WriteBack(p) PROVE PowerInv'
  <2>1. Running /\ power' /\ UNCHANGED <<allvars, index_open, synced>>
    BY <1>4 DEF WriteBack, PowerInv
  <2>2. Quiet' /\ misrolled' = misrolled /\ program' = program
    BY <2>1, QuietStep DEF Running, allvars, index, bad
  <2>3. DiskTyped'
    BY <1>4, <2>1 DEF WriteBack, Running, DiskTyped
  <2>4. ~misrolled' => \A e \in synced' : OnDisk(e)'
    BY <1>4, <2>1, <2>2, WriteBackKeepsFiles
  <2> QED
    BY <2>1, <2>2, <2>3, <2>4 DEF PowerInv, Running, ClosedFilesSurvive
<1>5. CASE PowerLoss
  <2>1. Running /\ ~power' /\ misrolled' = misrolled
    BY <1>5 DEF PowerLoss, PowerInv, bad
  <2>2. ~misrolled' => \A e \in synced' : e \in Entries'
    BY <1>5, <2>1, PowerLossKeepsFiles
  <2> QED
    BY <2>1, <2>2 DEF PowerInv, ClosedFilesSurvive
<1> QED
  BY <1>1, <1>2, <1>3, <1>4, <1>5 DEF PowerNext

(* A file that the msync of a program's destructor has forced, with all    *)
(* the records that lead to it, and no delete since, is found where it was *)
(* after the power has failed, unless a rollback has given back the wrong  *)
(* record (mmap_file.cpp, ~MMapFile and sync_file; index_handle.cpp,       *)
(* hash_insert).                                                           *)
THEOREM ClosedFilesStay == PowerSpec => []ClosedFilesSurvive
<1>1. PowerInit => PowerInv
  <2> SUFFICES ASSUME PowerInit PROVE PowerInv
    OBVIOUS
  <2>1. Quiet
    BY InitQuiet DEF PowerInit
  <2>2. DiskTyped /\ power /\ synced = {} /\ ~index_open
    BY DEF PowerInit, DiskTyped
  <2> QED
    BY <2>1, <2>2 DEF PowerInv, Running, ClosedFilesSurvive
<1>2. PowerInv => ClosedFilesSurvive
  BY DEF PowerInv
<1> QED
  BY <1>1, <1>2, PowerStep, PTL DEF PowerSpec
=============================================================================
