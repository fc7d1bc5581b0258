--------------------------- MODULE IndexDataProofs ---------------------------
(***************************************************************************)
(* What the records of IndexHandle hold, for every value of its constants: *)
(* a file of the index keeps its id, place and length, no record is lost   *)
(* without a fault, and no two files share data without a crash; and so    *)
(* the index implements the map SegmentStore.                              *)
(***************************************************************************)
EXTENDS IndexProofs, FiniteSetTheorems

Free == Elements(lists[FreeList])

-----------------------------------------------------------------------------
(* The sets of records behind the operations on lists *)

(* A record appended to a list joins those that are in it.                 *)
LEMMA ElementsAppend ==
  ASSUME NEW S, NEW s \in Seq(S), NEW n \in S
  PROVE  Elements(Append(s, n)) = Elements(s) \cup {n}
<1>1. /\ Len(s) \in Nat /\ Len(Append(s, n)) = Len(s) + 1
      /\ \A i \in 1 .. Len(s) : Append(s, n)[i] = s[i]
      /\ Append(s, n)[Len(s) + 1] = n
  BY AppendProperties
<1>2. ASSUME NEW m \in Elements(Append(s, n)) PROVE m \in Elements(s) \cup {n}
  BY <1>1 DEF Elements
<1>3. ASSUME NEW m \in Elements(s) PROVE m \in Elements(Append(s, n))
  BY <1>1 DEF Elements
<1>4. n \in Elements(Append(s, n))
  BY <1>1 DEF Elements
<1> QED
  BY <1>2, <1>3, <1>4

(* A record put before a list joins those that are in it.                  *)
LEMMA ElementsCons ==
  ASSUME NEW S, NEW s \in Seq(S), NEW n \in S
  PROVE  Elements(<<n>> \o s) = Elements(s) \cup {n}
<1>1. /\ Len(s) \in Nat /\ Len(<<n>> \o s) = Len(s) + 1
      /\ (<<n>> \o s)[1] = n
      /\ \A i \in 1 .. Len(s) : (<<n>> \o s)[i + 1] = s[i]
  <2>1. <<n>> \in Seq(S) /\ Len(<<n>>) = 1 /\ <<n>>[1] = n
    OBVIOUS
  <2> QED
    BY <2>1, ConcatProperties
<1>2. ASSUME NEW m \in Elements(<<n>> \o s) PROVE m \in Elements(s) \cup {n}
  <2>1. PICK j \in 1 .. Len(s) + 1 : m = (<<n>> \o s)[j]
    BY <1>1 DEF Elements
  <2>2. CASE j = 1
    BY <2>1, <2>2, <1>1
  <2>3. CASE j # 1
    <3>1. j - 1 \in 1 .. Len(s) /\ (j - 1) + 1 = j
      BY <2>3, <1>1
    <3>2. m = s[j - 1]
      BY <2>1, <3>1, <1>1
    <3> QED
      BY <3>1, <3>2 DEF Elements
  <2> QED
    BY <2>2, <2>3
<1>3. ASSUME NEW m \in Elements(s) PROVE m \in Elements(<<n>> \o s)
  <2>1. PICK j \in 1 .. Len(s) : m = s[j]
    BY DEF Elements
  <2>2. j + 1 \in 1 .. Len(<<n>> \o s) /\ m = (<<n>> \o s)[j + 1]
    BY <2>1, <1>1
  <2> QED
    BY <2>2 DEF Elements
<1>4. n \in Elements(<<n>> \o s)
  BY <1>1 DEF Elements
<1> QED
  BY <1>2, <1>3, <1>4

(* The tail of a list without repetitions has all its records but the head. *)
LEMMA ElementsTail ==
  ASSUME NEW S, NEW s \in Seq(S), s # << >>,
         \A i, j \in 1 .. Len(s) : s[i] = s[j] => i = j
  PROVE  Elements(Tail(s)) = Elements(s) \ {s[1]}
<1>1. /\ Len(s) \in Nat \ {0} /\ Len(Tail(s)) = Len(s) - 1
      /\ \A i \in 1 .. Len(s) - 1 : Tail(s)[i] = s[i + 1]
  BY HeadTailProperties, EmptySeq
<1>2. ASSUME NEW m \in Elements(Tail(s)) PROVE m \in Elements(s) \ {s[1]}
  <2>1. PICK j \in 1 .. Len(s) - 1 : m = Tail(s)[j]
    BY <1>1 DEF Elements
  <2>2. j + 1 \in 1 .. Len(s) /\ 1 \in 1 .. Len(s) /\ m = s[j + 1] /\ j + 1 # 1
    BY <2>1, <1>1
  <2> QED
    BY <2>2 DEF Elements
<1>3. ASSUME NEW m \in Elements(s), m # s[1] PROVE m \in Elements(Tail(s))
  <2>1. PICK j \in 1 .. Len(s) : m = s[j]
    BY DEF Elements
  <2>2. j - 1 \in 1 .. Len(s) - 1 /\ (j - 1) + 1 = j
    BY <2>1, <1>1, <1>3
  <2>3. m = Tail(s)[j - 1]
    BY <2>1, <2>2, <1>1
  <2> QED
    BY <2>2, <2>3, <1>1 DEF Elements
<1> QED
  BY <1>2, <1>3

(* Without takes one record out of a list without repetitions.             *)
LEMMA ElementsWithout ==
  ASSUME NEW S, NEW s \in Seq(S), NEW i \in 1 .. Len(s),
         \A j, k \in 1 .. Len(s) : s[j] = s[k] => j = k
  PROVE  Elements(Without(s, s[i])) = Elements(s) \ {s[i]}
<1> DEFINE w == Without(s, s[i])
<1>1. /\ Len(w) = Len(s) - 1
      /\ \A j \in 1 .. Len(s) - 1 : w[j] = IF j < i THEN s[j] ELSE s[j + 1]
  BY WithoutElements
<1>2. Len(s) \in Nat
  OBVIOUS
<1> HIDE DEF w
<1>3. ASSUME NEW m \in Elements(w) PROVE m \in Elements(s) \ {s[i]}
  <2>1. PICK j \in 1 .. Len(s) - 1 : m = w[j]
    BY <1>1 DEF Elements
  <2>2. CASE j < i
    BY <2>1, <2>2, <1>1, <1>2 DEF Elements
  <2>3. CASE ~(j < i)
    <3>1. m = s[j + 1] /\ j + 1 \in 1 .. Len(s) /\ j + 1 # i
      BY <2>1, <2>3, <1>1, <1>2
    <3> QED
      BY <3>1 DEF Elements
  <2> QED
    BY <2>2, <2>3
<1>4. ASSUME NEW m \in Elements(s), m # s[i] PROVE m \in Elements(w)
  <2>1. PICK j \in 1 .. Len(s) : m = s[j]
    BY DEF Elements
  <2>2. CASE j < i
    <3>1. j \in 1 .. Len(s) - 1 /\ w[j] = s[j]
      BY <2>2, <1>1, <1>2
    <3> QED
      BY <3>1, <2>1, <1>1 DEF Elements
  <2>3. CASE ~(j < i)
    <3>1. j - 1 \in 1 .. Len(s) - 1 /\ ~(j - 1 < i) /\ (j - 1) + 1 = j
      BY <2>1, <2>3, <1>2, <1>4
    <3>2. w[j - 1] = s[j]
      BY <3>1, <1>1
    <3> QED
      BY <3>1, <3>2, <2>1, <1>1 DEF Elements
  <2> QED
    BY <2>2, <2>3
<1> QED
  BY <1>3, <1>4 DEF w

-----------------------------------------------------------------------------
(* What each step does to the files of the index and to its free list *)

(* The records in lists are records of the file.                           *)
LEMMA LiveInNodes == ASSUME TypeOK PROVE Live \subseteq Nodes /\ Free \subseteq Nodes
BY ListElements, SlotFacts DEF Live, Free, Elements

(* A list that changes its records changes those of the index with it.     *)
LEMMA LiveOfOneList ==
  ASSUME NEW t \in Slots, \A s \in Slots : s # t => lists'[s] = lists[s]
  PROVE  Live' = Elements(lists'[t]) \cup UNION {Elements(lists[s]) : s \in Slots \ {t}}
<1>1. ASSUME NEW n \in Live'
      PROVE  n \in Elements(lists'[t]) \cup UNION {Elements(lists[s]) : s \in Slots \ {t}}
  <2>1. PICK s \in Slots : n \in Elements(lists'[s])
    BY DEF Live, Elements
  <2> QED
    BY <2>1
<1>2. ASSUME NEW n \in Elements(lists'[t]) PROVE n \in Live'
  BY DEF Live, Elements
<1>3. ASSUME NEW s \in Slots \ {t}, NEW n \in Elements(lists[s]) PROVE n \in Live'
  BY DEF Live, Elements
<1> QED
  BY <1>1, <1>2, <1>3

(* No two buckets share a record.                                          *)
LEMMA BucketsApart ==
  ASSUME Disjoint, NEW l \in Lists, NEW m \in Lists, l # m,
         NEW n \in Elements(lists[l])
  PROVE  n \notin Elements(lists[m])
BY DEF Disjoint, Elements

(* hash_insert adds the record in hand to the files of the index.          *)
LEMMA LinkNodeSets ==
  ASSUME TypeInv, ListInv, LinkNode
  PROVE  Live' = Live \cup {current_offset} /\ Free' = Free /\ current_offset \notin Live
<1> DEFINE t == Slot(Key)
<1>1. t \in Slots /\ t \in Lists /\ t # FreeList /\ lists[t] \in Seq(Nodes)
      /\ current_offset \in Nodes
  BY KeyInNat, SlotFacts, ListElements DEF TypeInv, LinkNode, OffsetsUsable
<1>2. lists'[t] = Append(lists[t], current_offset) /\ \A l \in Lists : l # t => lists'[l] = lists[l]
  BY <1>1 DEF LinkNode, TypeInv, TypeOK
<1> HIDE DEF t
<1>3. Elements(lists'[t]) = Elements(lists[t]) \cup {current_offset}
  BY <1>1, <1>2, ElementsAppend
<1>4. Live' = Elements(lists'[t]) \cup UNION {Elements(lists[s]) : s \in Slots \ {t}}
  BY <1>1, <1>2, SlotFacts, LiveOfOneList
<1>5. Live = Elements(lists[t]) \cup UNION {Elements(lists[s]) : s \in Slots \ {t}}
  BY <1>1 DEF Live
<1>6. current_offset \notin Live
  BY SlotFacts DEF LinkNode, ListInv, HandFree, Live, Elements
<1>7. Free' = Free
  BY <1>1, <1>2, SlotFacts DEF Free, Elements
<1> QED
  BY <1>3, <1>4, <1>5, <1>6, <1>7

(* delete_segment_meta takes the record it has found from them.            *)
LEMMA UnlinkNodeSets ==
  ASSUME TypeInv, ListInv, UnlinkNode
  PROVE  /\ Live' = Live \ {current_offset} /\ Free' = Free
         /\ current_offset \in Live /\ nodes[current_offset].key = Key
<1> DEFINE t == Slot(Key)
<1>1. t \in Slots /\ t \in Lists /\ t # FreeList /\ lists[t] \in Seq(Nodes)
  BY KeyInNat, SlotFacts, ListElements DEF TypeInv
<1>2. lists'[t] = Without(lists[t], current_offset) /\ \A l \in Lists : l # t => lists'[l] = lists[l]
  BY <1>1 DEF UnlinkNode, TypeInv, TypeOK
<1>3. PICK i \in 1 .. Len(lists[t]) : current_offset = lists[t][i] /\ nodes[lists[t][i]].key = Key
  BY DEF UnlinkNode, ListInv, Searched, Chain
<1>4. \A j, k \in 1 .. Len(lists[t]) : lists[t][j] = lists[t][k] => j = k
  BY <1>1 DEF ListInv, FileInv, Disjoint
<1> HIDE DEF t
<1>5. Elements(lists'[t]) = Elements(lists[t]) \ {current_offset}
  BY <1>1, <1>2, <1>3, <1>4, ElementsWithout
<1>6. Live' = Elements(lists'[t]) \cup UNION {Elements(lists[s]) : s \in Slots \ {t}}
  BY <1>1, <1>2, SlotFacts, LiveOfOneList
<1>7. Live = Elements(lists[t]) \cup UNION {Elements(lists[s]) : s \in Slots \ {t}}
  BY <1>1 DEF Live
<1>8. current_offset \in Elements(lists[t])
  BY <1>3 DEF Elements
<1>9. \A s \in Slots \ {t} : current_offset \notin Elements(lists[s])
  BY <1>1, <1>8, SlotFacts, BucketsApart DEF ListInv, FileInv
<1>10. Free' = Free
  BY <1>1, <1>2, SlotFacts DEF Free, Elements
<1> QED
  BY <1>3, <1>5, <1>6, <1>7, <1>8, <1>9, <1>10

(* hash_insert takes the head off the free list.                           *)
LEMMA AllocateReusedSets ==
  ASSUME TypeInv, ListInv, AllocateReused
  PROVE  Live' = Live /\ Free' = Free \ {free_head_offset} /\ free_head_offset \in Free
<1> DEFINE F == lists[FreeList]
<1>1. F \in Seq(Nodes) /\ free_head_offset = At(F, 1) /\ FreeList \in Lists /\ Len(F) \in Nat
  BY SlotFacts, ListElements DEF TypeInv, ListInv, FileInv, Represented, HeadOf
<1>2. 1 \in 1 .. Len(F) /\ free_head_offset = F[1] /\ F # << >>
  BY <1>1 DEF AllocateReused, At
<1>3. lists'[FreeList] = Tail(F) /\ \A l \in Lists : l # FreeList => lists'[l] = lists[l]
  BY <1>1, <1>2 DEF AllocateReused, TypeInv, TypeOK
<1>4. \A i, j \in 1 .. Len(F) : F[i] = F[j] => i = j
  BY <1>1 DEF ListInv, FileInv, Disjoint
<1>5. Elements(Tail(F)) = Elements(F) \ {F[1]}
  BY <1>1, <1>2, <1>4, ElementsTail
<1>6. Live' = Live
  BY <1>3, SlotFacts DEF Live, Elements
<1>7. F[1] \in Elements(F)
  BY <1>2 DEF Elements
<1>8. Free' = Elements(lists'[FreeList])
  BY DEF Free, Elements
<1> QED
  BY <1>2, <1>3, <1>5, <1>6, <1>7, <1>8 DEF Free

(* delete_segment_meta puts the record in hand there.                      *)
LEMMA PushFreeSets ==
  ASSUME TypeInv, ListInv, PushFree
  PROVE  Live' = Live /\ Free' = Free \cup {current_offset}
<1>1. lists[FreeList] \in Seq(Nodes) /\ FreeList \in Lists /\ current_offset \in Nodes
  BY SlotFacts, ListElements DEF TypeInv, OffsetsUsable, PushFree
<1>2. /\ lists'[FreeList] = <<current_offset>> \o lists[FreeList]
      /\ \A l \in Lists : l # FreeList => lists'[l] = lists[l]
  BY <1>1 DEF PushFree, TypeInv, TypeOK
<1>3. Live' = Live
  BY <1>2, SlotFacts DEF Live, Elements
<1>4. Elements(<<current_offset>> \o lists[FreeList]) = Free \cup {current_offset}
  BY <1>1, ElementsCons DEF Free
<1> QED
  BY <1>2, <1>3, <1>4 DEF Free, Elements

(* No other step changes a list.                                           *)
LEMMA OtherListsSame ==
  ASSUME [Next]_vars, ~LinkNode, ~UnlinkNode, ~AllocateReused, ~PushFree
  PROVE  lists' = lists
BY DEF Next, Begin, BeginRead, BeginDelete, BeginWrite, StartFind, Step, Find, FindHit, FindNext,
  FindMiss, FindFails, Insert, AllocateNew, AllocateFails, WriteNode, WriteNodeFails,
  LinkNodeFails, Rollback, CommitDataOffset, AccountInsert, ReadNode, ReadNodeFails, Delete,
  UnlinkNodeFails, ReleaseNode, ReleaseNodeFails, AccountDelete, Crash, vars

LEMMA OtherSetsSame ==
  ASSUME lists' = lists
  PROVE  Live' = Live /\ Free' = Free
BY DEF Live, Free, Elements

(* Only UnlinkNode takes a file out of the index, only LinkNode adds one,  *)
(* and only PushFree adds a reusable record.                               *)
LEMMA SetsChange ==
  ASSUME TypeInv, ListInv, [Next]_vars
  PROVE  /\ \A n \in Live \ Live' : UnlinkNode /\ n = current_offset
         /\ \A n \in Live' \ Live : LinkNode /\ n = current_offset
         /\ \A n \in Free' \ Free : PushFree /\ n = current_offset
<1>1. CASE UnlinkNode
  BY <1>1, UnlinkNodeSets
<1>2. CASE LinkNode
  BY <1>2, LinkNodeSets
<1>3. CASE AllocateReused
  BY <1>3, AllocateReusedSets
<1>4. CASE PushFree
  BY <1>4, PushFreeSets
<1>5. CASE ~LinkNode /\ ~UnlinkNode /\ ~AllocateReused /\ ~PushFree
  BY <1>5, OtherListsSame, OtherSetsSame
<1> QED
  BY <1>1, <1>2, <1>3, <1>4, <1>5

(* But for deletes, a chain only grows at its end.                         *)
LEMMA ChainGrows ==
  ASSUME TypeInv, ListInv, [Next]_vars, ~UnlinkNode, NEW s \in Slots
  PROVE  /\ Len(lists[s]) <= Len(lists'[s])
         /\ \A i \in 1 .. Len(lists[s]) : lists'[s][i] = lists[s][i]
<1>1. /\ s \in Lists /\ s # FreeList /\ lists[s] \in Seq(Nodes) /\ Len(lists[s]) \in Nat
      /\ lists \in [Lists -> Seq(Nodes)]
  BY SlotFacts, ListElements DEF TypeInv, TypeOK
<1>2. CASE LinkNode
  <2>1. current_offset \in Nodes /\ lists' = [lists EXCEPT ![Slot(Key)] = Append(@, current_offset)]
    BY <1>2 DEF LinkNode, TypeInv, OffsetsUsable
  <2>2. lists'[s] = lists[s] \/ lists'[s] = Append(lists[s], current_offset)
    BY <1>1, <2>1
  <2> QED
    BY <1>1, <2>1, <2>2, AppendProperties
<1>3. CASE AllocateReused
  <2>1. lists'[s] = lists[s]
    BY <1>1, <1>3 DEF AllocateReused
  <2> QED
    BY <1>1, <2>1
<1>4. CASE PushFree
  <2>1. lists'[s] = lists[s]
    BY <1>1, <1>4 DEF PushFree
  <2> QED
    BY <1>1, <2>1
<1>5. CASE ~LinkNode /\ ~AllocateReused /\ ~PushFree
  <2>1. lists' = lists
    BY <1>5, OtherListsSame
  <2> QED
    BY <1>1, <2>1
<1> QED
  BY <1>2, <1>3, <1>4, <1>5

(* A chain has at most as many records as the file.                        *)
LEMMA ChainFits ==
  ASSUME TypeOK, Disjoint, NEW s \in Slots
  PROVE  Len(lists[s]) \in Nat /\ Len(lists[s]) <= MaxNodes
<1> DEFINE c == lists[s]
<1>1. c \in Seq(Nodes) /\ s \in Lists /\ Len(c) \in Nat
  BY ListElements, SlotFacts DEF TypeOK
<1>2. \A i, j \in 1 .. Len(c) : c[i] = c[j] => i = j
  BY <1>1 DEF Disjoint
<1>3. c \in [1 .. Len(c) -> Nodes]
  BY <1>1
<1> HIDE DEF c
<1>4. c \in Injection(1 .. Len(c), Nodes)
  BY <1>2, <1>3 DEF Injection, IsInjective
<1>5. IsFiniteSet(Nodes) /\ Cardinality(Nodes) = MaxNodes
  BY BoundsAssumption, FS_Interval DEF Nodes
<1>6. Cardinality(1 .. Len(c)) <= Cardinality(Nodes)
  BY <1>4, <1>5, FS_Injection
<1>7. Cardinality(1 .. Len(c)) = Len(c)
  <2>1. \A n \in Nat : Cardinality(1 .. n) = n
    BY FS_Interval
  <2> QED
    BY <1>1, <2>1
<1> QED
  BY <1>1, <1>5, <1>6, <1>7 DEF c

(* Id, place and length of a record are stored by WriteNode and kept by    *)
(* every other step: linking, unlinking and releasing change its next.     *)
LEMMA EntriesKept ==
  ASSUME TypeInv, [Next]_vars, NEW n \in Nodes, ~(pc = "write" /\ n = current_offset)
  PROVE  /\ nodes'[n].key = nodes[n].key
         /\ nodes'[n].offset = nodes[n].offset
         /\ nodes'[n].size = nodes[n].size
<1>1. nodes \in [Nodes -> MetaInfo]
  BY DEF TypeInv, TypeOK
<1>2. CASE WriteNode
  BY <1>1, <1>2 DEF WriteNode
<1>3. CASE LinkNode
  BY <1>1, <1>3 DEF LinkNode, MetaInfo
<1>4. CASE UnlinkNode
  BY <1>1, <1>4 DEF UnlinkNode, MetaInfo
<1>5. CASE ReleaseNode
  BY <1>1, <1>5 DEF ReleaseNode, MetaInfo
<1>6. CASE ~WriteNode /\ ~LinkNode /\ ~UnlinkNode /\ ~ReleaseNode
  <2>1. UNCHANGED nodes
    BY <1>6 DEF Next, Begin, BeginRead, BeginDelete, BeginWrite, StartFind, Step, Find, FindHit,
      FindNext, FindMiss, FindFails, Insert, AllocateReused, AllocateNew, AllocateFails,
      WriteNodeFails, LinkNodeFails, Rollback, CommitDataOffset, AccountInsert, ReadNode,
      ReadNodeFails, Delete, UnlinkNodeFails, ReleaseNodeFails, PushFree, AccountDelete, Crash,
      image, vars
  <2> QED
    BY <2>1
<1> QED
  BY <1>2, <1>3, <1>4, <1>5, <1>6

(* A file that is in the index before and after a step keeps its record.   *)
LEMMA LiveEntriesKept ==
  ASSUME IndexInv, [Next]_vars, ~misrolled', NEW n \in Live
  PROVE  /\ nodes'[n].key = nodes[n].key
         /\ nodes'[n].offset = nodes[n].offset
         /\ nodes'[n].size = nodes[n].size
<1>1. TypeInv /\ ListInv
  BY MisrolledStays DEF IndexInv
<1>2. n \in Nodes
  BY <1>1, LiveInNodes DEF TypeInv
<1>3. ~(pc = "write" /\ n = current_offset)
  BY <1>1, SlotFacts DEF ListInv, HandFree, Live, Elements
<1> QED
  BY <1>1, <1>2, <1>3, EntriesKept

(* While a file stays in the index, its id, place and length stay as they  *)
(* were written (index_handle.cpp, hash_insert, delete_segment_meta).      *)
THEOREM LiveRecordsStay == Spec => LiveRecordsKept
<1>1. IndexInv /\ IndexInv' /\ [Next]_vars =>
        [~misrolled' => \A n \in Live \cap Live' :
           [nodes'[n] EXCEPT !.next = nodes[n].next] = nodes[n]]_vars
  <2> SUFFICES ASSUME IndexInv, IndexInv', [Next]_vars, ~misrolled', NEW n \in Live
               PROVE  [nodes'[n] EXCEPT !.next = nodes[n].next] = nodes[n]
    OBVIOUS
  <2>1. n \in Nodes /\ nodes[n] \in MetaInfo /\ nodes'[n] \in MetaInfo
    BY LiveInNodes DEF IndexInv, TypeInv, TypeOK
  <2>2. nodes'[n].key = nodes[n].key /\ nodes'[n].offset = nodes[n].offset
        /\ nodes'[n].size = nodes[n].size
    BY LiveEntriesKept
  <2> QED
    BY <2>1, <2>2 DEF MetaInfo
<1> QED
  BY <1>1, IndexCorrect, PTL DEF Spec, LiveRecordsKept

-----------------------------------------------------------------------------
(* No record is lost without a fault *)

Faultless == crashes = 0 /\ faults = 0

(* The inductive form of NothingLeaks.                                     *)
LeakInv ==
  Faultless => ~misrolled /\ 1 .. index_file_size - 1 = Live \cup Free \cup Moving

(* A crash or an error is never forgotten, and only they let a call end    *)
(* with a record in hand.                                                  *)
LEMMA FaultsCount ==
  ASSUME TypeInv, [Next]_vars, Faultless'
  PROVE  /\ Faultless
         /\ ~FindFails /\ ~AllocateFails /\ ~WriteNodeFails /\ ~LinkNodeFails
         /\ ~ReadNodeFails /\ ~UnlinkNodeFails /\ ~ReleaseNodeFails /\ ~Crash
<1>1. crashes \in Nat /\ faults \in Nat
  BY DEF TypeInv, TypeOK
<1>2. /\ ~FindFails /\ ~AllocateFails /\ ~WriteNodeFails /\ ~LinkNodeFails
      /\ ~ReadNodeFails /\ ~UnlinkNodeFails /\ ~ReleaseNodeFails /\ ~Crash
  BY <1>1 DEF Faultless, FindFails, AllocateFails, WriteNodeFails, LinkNodeFails, ReadNodeFails,
    UnlinkNodeFails, ReleaseNodeFails, IoFails, Crash
<1>3. UNCHANGED <<crashes, faults>>
  BY <1>2 DEF Next, Begin, BeginRead, BeginDelete, BeginWrite, StartFind, Step, Find, FindHit,
    FindNext, FindMiss, Insert, AllocateReused, AllocateNew, WriteNode, LinkNode, CommitDataOffset,
    AccountInsert, ReadNode, Delete, UnlinkNode, ReleaseNode, PushFree, AccountDelete, vars, bad
<1> QED
  BY <1>2, <1>3 DEF Faultless

(* Without them every step hands the record it takes on to the next.       *)
LEMMA NextLeakInv ==
  ASSUME IndexInv, IndexInv', LeakInv, [Next]_vars
  PROVE  LeakInv'
<1> SUFFICES ASSUME Faultless'
             PROVE  ~misrolled' /\ 1 .. index_file_size' - 1 = Live' \cup Free' \cup Moving'
  BY DEF LeakInv
<1>1. /\ Faultless /\ ~FindFails /\ ~AllocateFails /\ ~WriteNodeFails /\ ~LinkNodeFails
      /\ ~ReadNodeFails /\ ~UnlinkNodeFails /\ ~ReleaseNodeFails /\ ~Crash
  BY FaultsCount DEF IndexInv
<1>2. /\ ~misrolled /\ TypeInv /\ ListInv
      /\ 1 .. index_file_size - 1 = Live \cup Free \cup Moving
  BY <1>1 DEF LeakInv, IndexInv
<1>3. index_file_size \in Int /\ index_file_size >= 1
  BY <1>2 DEF TypeInv, TypeOK, ListInv, FileInv, BelowEnd
<1>4. CASE AllocateReused
  <2>1. Moving = {} /\ Moving' = {free_head_offset}
    BY <1>4 DEF AllocateReused, Moving
  <2> QED
    BY <1>2, <1>4, <2>1, AllocateReusedSets DEF AllocateReused, bad
<1>5. CASE AllocateNew
  <2>1. Moving = {} /\ Moving' = {index_file_size} /\ index_file_size' = index_file_size + 1
    BY <1>5 DEF AllocateNew, Moving
  <2>2. Live' = Live /\ Free' = Free
    BY <1>5, OtherSetsSame DEF AllocateNew
  <2>3. 1 .. (index_file_size + 1) - 1 = (1 .. index_file_size - 1) \cup {index_file_size}
    BY <1>3
  <2> QED
    BY <1>2, <1>5, <2>1, <2>2, <2>3 DEF AllocateNew, bad
<1>6. CASE LinkNode
  <2>1. Moving = {current_offset} /\ Moving' = {}
    BY <1>6 DEF LinkNode, Goto, Moving
  <2> QED
    BY <1>2, <1>6, <2>1, LinkNodeSets DEF LinkNode, bad
<1>7. CASE UnlinkNode
  <2>1. Moving = {} /\ Moving' = {current_offset}
    BY <1>7 DEF UnlinkNode, Goto, cursor, Moving
  <2> QED
    BY <1>2, <1>7, <2>1, UnlinkNodeSets DEF UnlinkNode, bad
<1>8. CASE PushFree
  <2>1. Moving = {current_offset} /\ Moving' = {}
    BY <1>8 DEF PushFree, Goto, Moving
  <2> QED
    BY <1>2, <1>8, <2>1, PushFreeSets DEF PushFree, bad
<1>9. CASE /\ ~AllocateReused /\ ~AllocateNew /\ ~LinkNode /\ ~UnlinkNode /\ ~PushFree
  <2>1. Live' = Live /\ Free' = Free
    BY <1>9, OtherListsSame, OtherSetsSame
  <2>2. UNCHANGED <<index_file_size, misrolled>> /\ Moving' = Moving
    BY <1>1, <1>9 DEF Next, Begin, BeginRead, BeginDelete, BeginWrite, StartFind, Step, Find,
      FindHit, FindNext, FindMiss, Insert, WriteNode, CommitDataOffset, AccountInsert, ReadNode,
      Delete, ReleaseNode, AccountDelete, Return, Leave, Goto, vars, image, bad, cursor, Moving
  <2> QED
    BY <1>2, <2>1, <2>2
<1> QED
  BY <1>4, <1>5, <1>6, <1>7, <1>8, <1>9

(* Without crash and I/O error each record below the end of the file is in *)
(* a chain, reusable, or in the hands of the running operation             *)
(* (index_handle.cpp, hash_insert, delete_segment_meta).                   *)
THEOREM NothingEverLeaks == Spec => []NothingLeaks
<1>1. Init => LeakInv
  <2> SUFFICES ASSUME Init PROVE 1 .. index_file_size - 1 = Live \cup Free \cup Moving /\ ~misrolled
    BY DEF LeakInv
  <2>1. \A l \in Lists : lists[l] = << >>
    BY DEF Init
  <2>2. Live = {} /\ Free = {}
    BY <2>1, SlotFacts DEF Live, Free, Elements
  <2> QED
    BY <2>2 DEF Init, Moving
<1>2. IndexInv /\ IndexInv' /\ LeakInv /\ [Next]_vars => LeakInv'
  BY NextLeakInv
<1>3. LeakInv => NothingLeaks
  BY DEF LeakInv, NothingLeaks, Faultless, Free
<1> QED
  BY <1>1, <1>2, <1>3, IndexCorrect, PTL DEF Spec

-----------------------------------------------------------------------------
(* The places of the files in the main block *)

Before(m, n) == nodes[m].offset + nodes[m].size <= nodes[n].offset

(* DataDisjoint says something only of states without these two events.    *)
Undisturbed == crashes = 0 /\ ~misrolled

LEMMA NextDataDisjoint ==
  ASSUME IndexInv, IndexInv', DataDisjoint, [Next]_vars, Undisturbed'
  PROVE  DataDisjoint'
<1>1. Undisturbed /\ ~Crash
  <2>1. crashes \in Nat
    BY DEF IndexInv, TypeInv, TypeOK
  <2>2. ~Crash
    BY <2>1 DEF Crash, Undisturbed
  <2>3. crashes' = crashes
    BY <2>2 DEF Next, Begin, BeginRead, BeginDelete, BeginWrite, StartFind, Step, Find, FindHit,
      FindNext, FindMiss, FindFails, Insert, AllocateReused, AllocateNew, AllocateFails, WriteNode,
      WriteNodeFails, LinkNode, LinkNodeFails, Rollback, CommitDataOffset, AccountInsert, ReadNode,
      ReadNodeFails, Delete, UnlinkNode, UnlinkNodeFails, ReleaseNode, ReleaseNodeFails, PushFree,
      AccountDelete, vars, bad
  <2> QED
    BY <2>2, <2>3, MisrolledStays DEF IndexInv, Undisturbed
<1>2. TypeInv /\ ListInv /\ CallKnown /\ ~misrolled'
  BY <1>1 DEF IndexInv, Undisturbed
<1> DEFINE Coming == IF pc = "commit" THEN call.meta.size ELSE 0
           End == data_file_offset + Coming
<1>3. /\ \A m, n \in Live : m # n => Before(m, n) \/ Before(n, m)
      /\ \A n \in Live : nodes[n].offset + nodes[n].size <= End
  BY <1>1 DEF DataDisjoint, Undisturbed, Before
<1>4. \A n \in Live : nodes'[n].offset = nodes[n].offset /\ nodes'[n].size = nodes[n].size
  BY <1>2, LiveEntriesKept
<1>5. /\ Live \subseteq Nodes /\ data_file_offset \in Nat /\ data_file_offset' \in Nat
      /\ call.meta.size \in Nat /\ call'.meta.size \in Nat
      /\ \A n \in Nodes : nodes[n].offset \in Nat /\ nodes[n].size \in Nat
  <2>1. Live \subseteq Nodes
    BY LiveInNodes DEF IndexInv, TypeInv
  <2>2. TypeOK /\ TypeOK'
    BY DEF IndexInv, TypeInv
  <2>3. call \in [op : {"none", "write", "read", "delete"}, meta : MetaInfo]
        /\ call' \in [op : {"none", "write", "read", "delete"}, meta : MetaInfo]
    BY <2>2 DEF TypeOK, MetaInfo
  <2>4. call.meta \in MetaInfo /\ call'.meta \in MetaInfo
    BY <2>3
  <2>5. call.meta.size \in Nat /\ call'.meta.size \in Nat
    BY <2>4 DEF MetaInfo
  <2>6. data_file_offset \in Nat /\ data_file_offset' \in Nat
    BY <2>2 DEF TypeOK
  <2>7. \A n \in Nodes : nodes[n].offset \in Nat /\ nodes[n].size \in Nat
    BY <2>2 DEF TypeOK, MetaInfo
  <2> QED
    BY <2>1, <2>5, <2>6, <2>7
<1>6. CASE LinkNode
  <2> DEFINE new == current_offset
  <2>1. Live' = Live \cup {new} /\ new \notin Live
    BY <1>2, <1>6, LinkNodeSets
  <2>2. nodes'[new].offset = data_file_offset /\ nodes'[new].size = call.meta.size
    <3>1. new \in Nodes /\ pc = "link"
      BY <1>2, <1>6 DEF LinkNode, TypeInv, OffsetsUsable
    <3>2. nodes[new].offset = data_file_offset /\ nodes[new].size = call.meta.size
      BY <1>2, <3>1 DEF ListInv, Prepared, CallKnown, TypeInv, TypeOK, MetaInfo
    <3> QED
      BY <1>2, <3>1, <3>2, EntriesKept
  <2>3. End = data_file_offset /\ End' = data_file_offset + call.meta.size
    BY <1>6, <1>5 DEF LinkNode, Goto, header
  <2>4. \A n \in Live' : nodes'[n].offset + nodes'[n].size <= End'
    BY <1>3, <1>4, <1>5, <2>1, <2>2, <2>3
  <2>5. ASSUME NEW m \in Live', NEW n \in Live', m # n
        PROVE  Before(m, n)' \/ Before(n, m)'
    <3>1. CASE m \in Live /\ n \in Live
      BY <3>1, <2>5, <1>3, <1>4 DEF Before
    <3>2. CASE m \in Live /\ n = new
      BY <3>2, <1>3, <1>4, <2>2, <2>3 DEF Before
    <3>3. CASE m = new /\ n \in Live
      BY <3>3, <1>3, <1>4, <2>2, <2>3 DEF Before
    <3> QED
      BY <3>1, <3>2, <3>3, <2>1, <2>5
  <2> QED
    BY <2>4, <2>5 DEF DataDisjoint, Before
<1>7. CASE ~LinkNode
  <2>1. Live' \subseteq Live
    BY <1>2, <1>7, UnlinkNodeSets, AllocateReusedSets, PushFreeSets, OtherListsSame, OtherSetsSame
  <2>2. End <= End'
    <3>1. CASE CommitDataOffset
      BY <3>1, <1>5 DEF CommitDataOffset, Goto
    <3>2. CASE ~CommitDataOffset
      <4>1. data_file_offset' = data_file_offset /\ (pc # "commit" \/ UNCHANGED <<pc, call>>)
        BY <3>2, <1>1, <1>7 DEF Next, Begin, BeginRead, BeginDelete, BeginWrite, StartFind,
          Step, Find, FindHit, FindNext, FindMiss, FindFails, Insert, AllocateReused, AllocateNew,
          AllocateFails, WriteNode, WriteNodeFails, LinkNodeFails, Rollback, AccountInsert, ReadNode,
          ReadNodeFails, Delete, UnlinkNode, UnlinkNodeFails, ReleaseNode, ReleaseNodeFails,
          PushFree, AccountDelete, vars, header
      <4> QED
        BY <4>1, <1>5
    <3> QED
      BY <3>1, <3>2
  <2>3. End \in Nat /\ End' \in Nat
    <3>1. Coming \in Nat /\ Coming' \in Nat
      BY <1>5
    <3> HIDE DEF Coming
    <3> QED
      BY <1>5, <3>1
  <2> HIDE DEF End
  <2>4. \A n \in Live' : nodes'[n].offset + nodes'[n].size <= End'
    BY <1>3, <1>4, <1>5, <2>1, <2>2, <2>3
  <2>5. \A m, n \in Live' : m # n => Before(m, n)' \/ Before(n, m)'
    BY <1>3, <1>4, <2>1 DEF Before
  <2> QED
    BY <2>4, <2>5 DEF DataDisjoint, Before, End
<1> QED
  BY <1>6, <1>7

(* Without a crash, no two files of the index share a place in the main    *)
(* block, and the next one is written behind them (index_handle.h:97,      *)
(* commit_block_data_offset, and block_write_test.cpp).                    *)
THEOREM DataStaysDisjoint == Spec => []DataDisjoint
<1>1. Init => DataDisjoint
  <2> SUFFICES ASSUME Init PROVE Live = {}
    BY DEF DataDisjoint
  <2> QED
    BY SlotFacts DEF Init, Live, Elements
<1>2. IndexInv /\ IndexInv' /\ DataDisjoint /\ [Next]_vars => DataDisjoint'
  <2> SUFFICES ASSUME IndexInv, IndexInv', DataDisjoint, [Next]_vars, Undisturbed'
               PROVE  DataDisjoint'
    BY DEF DataDisjoint, Undisturbed
  <2> QED
    BY NextDataDisjoint
<1> QED
  BY <1>1, <1>2, IndexCorrect, PTL DEF Spec

-----------------------------------------------------------------------------
(* What a sum over a set of records is *)

(* Among some subsets of a finite set, one has none of the others in it.   *)
LEMMA SmallestSubset ==
  ASSUME NEW S, IsFiniteSet(S), NEW B \in SUBSET SUBSET S, B # {}
  PROVE  \E T \in B : \A U \in SUBSET T : U # T => U \notin B
<1>1. IsWellFoundedOn(StrictSubsetOrdering(S), SUBSET S)
  BY FS_StrictSubsetOrderingWellFounded, FS_FiniteSubsetsOfFinite, Zenon
<1>2. PICK T \in B : \A U \in B : ~ (<<U, T>> \in StrictSubsetOrdering(S))
  BY <1>1, WFMin, Zenon
<1>3. ASSUME NEW U \in SUBSET T, U # T PROVE U \notin B
  <2>1. U \in SUBSET S /\ T \in SUBSET S
    BY <1>3
  <2>2. <<U, T>> \in StrictSubsetOrdering(S)
    BY <1>3, <2>1 DEF StrictSubsetOrdering
  <2> QED
    BY <1>2, <2>2
<1> QED
  BY <1>2, <1>3

(* The bytes of the files of S, one by one: SizesOf counts them.           *)
Bytes(r, S) == UNION {{n} \X (1 .. r[n].size) : n \in S}

(* A file accounts for as many bytes as it is long.                        *)
LEMMA BytesOfOne ==
  ASSUME NEW n, NEW k \in Nat
  PROVE  IsFiniteSet({n} \X (1 .. k)) /\ Cardinality({n} \X (1 .. k)) = k
<1>1. IsFiniteSet({n}) /\ Cardinality({n}) = 1
  BY FS_Singleton, Zenon
<1>2. IsFiniteSet(1 .. k) /\ Cardinality(1 .. k) = k
  BY FS_Interval
<1>3. /\ IsFiniteSet({n} \X (1 .. k))
      /\ Cardinality({n} \X (1 .. k)) = Cardinality({n}) * Cardinality(1 .. k)
  BY <1>1, <1>2, FS_Product, Zenon
<1> QED
  BY <1>1, <1>2, <1>3

(* No file, no bytes.                                                      *)
LEMMA BytesOfNone == \A r : Bytes(r, {}) = {}
BY DEF Bytes

(* Another file adds its own.                                              *)
LEMMA BytesAdd ==
  ASSUME NEW r, NEW T, NEW x, x \notin T, r[x].size \in Nat, IsFiniteSet(Bytes(r, T))
  PROVE  /\ IsFiniteSet(Bytes(r, T \cup {x}))
         /\ Cardinality(Bytes(r, T \cup {x})) = Cardinality(Bytes(r, T)) + r[x].size
<1> DEFINE X == {x} \X (1 .. r[x].size)
<1>1. IsFiniteSet(X) /\ Cardinality(X) = r[x].size
  BY BytesOfOne
<1>2. Bytes(r, T \cup {x}) = Bytes(r, T) \cup X
  BY DEF Bytes
<1>3. Bytes(r, T) \cap X = {}
  BY DEF Bytes
<1>4. Cardinality(Bytes(r, T)) \in Nat
  BY FS_CardinalityType
<1> HIDE DEF X
<1>5. /\ IsFiniteSet(Bytes(r, T) \cup X)
      /\ Cardinality(Bytes(r, T) \cup X)
           = Cardinality(Bytes(r, T)) + Cardinality(X) - Cardinality(Bytes(r, T) \cap X)
  BY <1>1, FS_Union, Zenon
<1>6. Cardinality(Bytes(r, T) \cap X) = 0
  BY <1>3, FS_EmptySet, Zenon
<1>7. Cardinality(Bytes(r, T) \cup X) = Cardinality(Bytes(r, T)) + r[x].size
  BY <1>1, <1>4, <1>5, <1>6
<1> QED
  BY <1>2, <1>5, <1>7, Zenon

(* Finitely many files have finitely many bytes.                           *)
LEMMA BytesFinite ==
  ASSUME NEW r, NEW S, IsFiniteSet(S), \A n \in S : r[n].size \in Nat
  PROVE  \A T \in SUBSET S : IsFiniteSet(Bytes(r, T))
<1> DEFINE B == {T \in SUBSET S : ~IsFiniteSet(Bytes(r, T))}
<1> SUFFICES ASSUME B # {} PROVE FALSE
  OBVIOUS
<1>1. B \in SUBSET SUBSET S
  OBVIOUS
<1>2. PICK T \in B : \A U \in SUBSET T : U # T => U \notin B
  <2> HIDE DEF B
  <2> QED
    BY <1>1, SmallestSubset, Zenon
<1>3. T \in SUBSET S /\ ~IsFiniteSet(Bytes(r, T))
  BY <1>2
<1>4. T # {}
  BY <1>3, BytesOfNone, FS_EmptySet
<1>5. PICK x \in T : TRUE
  BY <1>4
<1>6. /\ T \ {x} \in SUBSET T /\ T \ {x} # T /\ T \ {x} \in SUBSET S
      /\ (T \ {x}) \cup {x} = T /\ x \notin T \ {x}
  BY <1>3, <1>5
<1>7. IsFiniteSet(Bytes(r, T \ {x}))
  BY <1>2, <1>6
<1>8. IsFiniteSet(Bytes(r, (T \ {x}) \cup {x}))
  BY <1>3, <1>5, <1>6, <1>7, BytesAdd
<1> QED
  BY <1>3, <1>6, <1>8

(* The equation MapThenSumSet takes its values from.                       *)
IsSum(r, S, g) ==
  g = [s \in SUBSET S |-> IF s = {} THEN 0
                          ELSE LET x == CHOOSE x \in s : TRUE IN r[x].size + g[s \ {x}]]

(* The equation has a solution, the count of the bytes, and no other.      *)
LEMMA SizesCounted ==
  ASSUME NEW r, NEW S, IsFiniteSet(S), \A n \in S : r[n].size \in Nat
  PROVE  SizesOf(r, S) = Cardinality(Bytes(r, S)) /\ SizesOf(r, S) \in Nat
<1> DEFINE c == [s \in SUBSET S |-> Cardinality(Bytes(r, s))]
           iter == CHOOSE g : IsSum(r, S, g)
           Pick(s) == CHOOSE x \in s : TRUE
<1>1. \A T \in SUBSET S : IsFiniteSet(Bytes(r, T))
  BY BytesFinite
<1>2. ASSUME NEW s \in SUBSET S, NEW x \in s
      PROVE  c[s] = r[x].size + c[s \ {x}]
  <2>1. s \ {x} \in SUBSET S /\ x \notin s \ {x} /\ (s \ {x}) \cup {x} = s /\ r[x].size \in Nat
    OBVIOUS
  <2>2. IsFiniteSet(Bytes(r, s \ {x}))
    BY <1>1, <2>1
  <2>3. Cardinality(Bytes(r, s)) = Cardinality(Bytes(r, s \ {x})) + r[x].size
    BY <2>1, <2>2, BytesAdd
  <2>4. Cardinality(Bytes(r, s \ {x})) \in Nat
    BY <2>2, FS_CardinalityType
  <2> QED
    BY <2>1, <2>3, <2>4
<1>3. ASSUME NEW s \in SUBSET S PROVE s # {} => Pick(s) \in s
  OBVIOUS
<1>4. c[{}] = 0
  BY BytesOfNone, FS_EmptySet
<1>5. IsSum(r, S, c)
  <2>1. ASSUME NEW s \in SUBSET S
        PROVE  c[s] = IF s = {} THEN 0
                      ELSE LET x == CHOOSE x \in s : TRUE IN r[x].size + c[s \ {x}]
    <3>1. CASE s = {}
      BY <1>4, <3>1
    <3>2. CASE s # {}
      BY <1>2, <1>3, <3>2
    <3> QED
      BY <3>1, <3>2
  <2> QED
    BY <2>1 DEF IsSum
<1>6. IsSum(r, S, iter)
  BY <1>5
<1>7. SizesOf(r, S) = iter[S]
  BY Zenon DEF SizesOf, MapThenSumSet, MapThenFoldSet, IsSum
<1> HIDE DEF iter
<1>8. /\ iter[{}] = 0
      /\ \A s \in SUBSET S : s # {} => iter[s] = r[Pick(s)].size + iter[s \ {Pick(s)}]
  BY <1>6 DEF IsSum
<1> DEFINE B == {s \in SUBSET S : iter[s] # c[s]}
<1>9. B = {}
  <2> SUFFICES ASSUME B # {} PROVE FALSE
    OBVIOUS
  <2>1. B \in SUBSET SUBSET S
    OBVIOUS
  <2>2. PICK T \in B : \A U \in SUBSET T : U # T => U \notin B
    <3> HIDE DEF B
    <3> QED
      BY <2>1, SmallestSubset, Zenon
  <2>3. T \in SUBSET S /\ iter[T] # c[T]
    BY <2>2
  <2>4. T # {}
    BY <1>4, <1>8, <2>3
  <2>5. Pick(T) \in T
    BY <1>3, <2>3, <2>4
  <2>6. T \ {Pick(T)} \in SUBSET T /\ T \ {Pick(T)} # T /\ T \ {Pick(T)} \in SUBSET S
    BY <2>3, <2>5
  <2>7. iter[T \ {Pick(T)}] = c[T \ {Pick(T)}]
    BY <2>2, <2>6
  <2> HIDE DEF Pick, c
  <2> QED
    BY <1>2, <1>8, <2>3, <2>4, <2>5, <2>7
<1>10. iter[S] = c[S] /\ c[S] = Cardinality(Bytes(r, S))
  BY <1>9
<1>11. Cardinality(Bytes(r, S)) \in Nat
  BY <1>1, FS_CardinalityType
<1> HIDE DEF c
<1> QED
  BY <1>7, <1>10, <1>11

(* The sum over no files.                                                  *)
LEMMA SizesOfNone == \A r : SizesOf(r, {}) = 0
BY SizesCounted, BytesOfNone, FS_EmptySet

(* The sum with a file more.                                               *)
LEMMA SizesAdd ==
  ASSUME NEW r, NEW S, IsFiniteSet(S), NEW x, x \notin S, \A n \in S \cup {x} : r[n].size \in Nat
  PROVE  SizesOf(r, S \cup {x}) = SizesOf(r, S) + r[x].size
<1>1. IsFiniteSet(S \cup {x})
  BY FS_AddElement
<1>2. IsFiniteSet(Bytes(r, S))
  BY BytesFinite
<1>3. Cardinality(Bytes(r, S \cup {x})) = Cardinality(Bytes(r, S)) + r[x].size
  BY <1>2, BytesAdd
<1> QED
  BY <1>1, <1>3, SizesCounted

(* The sum over records of the same lengths.                               *)
LEMMA SizesSame ==
  ASSUME NEW r, NEW q, NEW S, IsFiniteSet(S), \A n \in S : r[n].size \in Nat /\ q[n].size = r[n].size
  PROVE  SizesOf(q, S) = SizesOf(r, S)
<1>1. Bytes(q, S) = Bytes(r, S)
  BY DEF Bytes
<1> QED
  BY <1>1, SizesCounted

-----------------------------------------------------------------------------
(* The counters of BlockInfo *)

(* Files that update_block_info has yet to be told of: a file is linked    *)
(* before it is counted, and unlinked before it is taken off.              *)
Uncounted ==
  CASE pc \in {"commit", "account"} -> 1
    [] pc \in {"release", "push", "uncount"} -> -1
    [] OTHER -> 0

Unsized == IF pc = "account" THEN call.meta.size ELSE 0

Unweighed ==
  CASE pc \in {"commit", "account"} -> call.meta.size
    [] pc \in {"release", "push", "uncount"} -> -nodes[current_offset].size
    [] OTHER -> 0

(* The inductive form of Accounts.                                         *)
CountInv ==
  Faultless =>
    /\ block_info.file_count + Uncounted = Cardinality(Live)
    /\ block_info.size + Unweighed = SizesOf(nodes, Live)
    /\ block_info.size + block_info.del_size + Unsized = data_file_offset
    /\ block_info.file_count + block_info.del_file_count = block_info.seq_no - 1
    /\ block_info.version = block_info.seq_no - 1 + block_info.del_file_count

LEMMA LiveFinite == ASSUME TypeOK PROVE IsFiniteSet(Live) /\ Cardinality(Live) \in Nat
<1>1. IsFiniteSet(Nodes)
  BY BoundsAssumption, FS_Interval DEF Nodes
<1>2. IsFiniteSet(Live)
  BY <1>1, LiveInNodes, FS_Subset
<1> QED
  BY <1>2, FS_CardinalityType

(* update_block_info, in a block that has an id.                           *)
LEMMA InsertCounted ==
  ASSUME TypeOK, NEW n \in Nat, UpdateBlockInfo("C_OPER_INSERT", n)
  PROVE  /\ block_info'.file_count = block_info.file_count + 1
         /\ block_info'.size = block_info.size + n
         /\ block_info'.del_file_count = block_info.del_file_count
         /\ block_info'.del_size = block_info.del_size
         /\ block_info'.seq_no = block_info.seq_no + 1
         /\ block_info'.version = block_info.version + 1
BY DEF TypeOK, UpdateBlockInfo

LEMMA DeleteCounted ==
  ASSUME TypeOK, NEW n \in Nat, UpdateBlockInfo("C_OPER_DELETE", n)
  PROVE  /\ block_info'.file_count = block_info.file_count - 1
         /\ block_info'.size = block_info.size - n
         /\ block_info'.del_file_count = block_info.del_file_count + 1
         /\ block_info'.del_size = block_info.del_size + n
         /\ block_info'.seq_no = block_info.seq_no
         /\ block_info'.version = block_info.version + 1
BY DEF TypeOK, UpdateBlockInfo

LEMMA CountTypes ==
  ASSUME TypeOK
  PROVE  /\ block_info.file_count \in Int /\ block_info.size \in Int
         /\ block_info.del_file_count \in Nat /\ block_info.del_size \in Nat
         /\ block_info.seq_no \in Nat /\ block_info.version \in Nat
         /\ data_file_offset \in Nat /\ call.meta.size \in Nat
<1>1. call.meta \in MetaInfo
  BY DEF TypeOK
<1>2. block_info \in [block_id : Nat \ {0}, version : Nat, file_count : Int, size : Int,
                     del_file_count : Nat, del_size : Nat, seq_no : Nat]
  BY DEF TypeOK
<1>3. data_file_offset \in Nat
  BY DEF TypeOK
<1> QED
  BY <1>1, <1>2, <1>3 DEF MetaInfo

(* The sum of the lengths follows the files of the index.                  *)
LEMMA NextSizes ==
  ASSUME IndexInv, IndexInv', LeakInv, CountInv, [Next]_vars, Faultless'
  PROVE  block_info'.size + Unweighed' = SizesOf(nodes', Live')
<1>1. /\ Faultless /\ ~FindFails /\ ~AllocateFails /\ ~WriteNodeFails /\ ~LinkNodeFails
      /\ ~ReadNodeFails /\ ~UnlinkNodeFails /\ ~ReleaseNodeFails /\ ~Crash
  BY FaultsCount DEF IndexInv
<1>2. TypeOK /\ TypeInv /\ TypeOK' /\ ListInv /\ CallKnown /\ ~misrolled'
  <2>1. LeakInv'
    BY NextLeakInv
  <2> QED
    BY <1>1, <2>1 DEF LeakInv, IndexInv, TypeInv
<1>3. block_info.size + Unweighed = SizesOf(nodes, Live)
  BY <1>1 DEF CountInv
<1>4. IsFiniteSet(Live)
  BY <1>2, LiveFinite
<1>5. /\ block_info.size \in Int /\ call.meta.size \in Nat
      /\ Live \subseteq Nodes /\ \A n \in Nodes : nodes[n].size \in Nat /\ nodes'[n].size \in Nat
  <2>1. block_info.size \in Int /\ call.meta.size \in Nat /\ Live \subseteq Nodes
    BY <1>2, CountTypes, LiveInNodes
  <2>2. nodes \in [Nodes -> MetaInfo] /\ nodes' \in [Nodes -> MetaInfo]
    BY <1>2 DEF TypeOK
  <2> QED
    BY <2>1, <2>2 DEF MetaInfo
(* Records that stay in the index keep their lengths.                      *)
<1>6. SizesOf(nodes', Live) = SizesOf(nodes, Live)
  BY <1>2, <1>4, <1>5, LiveEntriesKept, SizesSame
<1>7. CASE LinkNode
  <2>1. Live' = Live \cup {current_offset} /\ current_offset \notin Live
    BY <1>2, <1>7, LinkNodeSets
  <2>2. current_offset \in Nodes /\ nodes[current_offset].size = call.meta.size
    <3>1. current_offset \in Nodes
      BY <1>2, <1>7 DEF LinkNode, TypeInv, OffsetsUsable
    <3>2. nodes[current_offset] = [call.meta EXCEPT !.next = Null] /\ call.meta \in MetaInfo
      BY <1>2, <1>7 DEF LinkNode, ListInv, Prepared, TypeOK
    <3> QED
      BY <3>1, <3>2 DEF MetaInfo
  <2>3. nodes'[current_offset].size = nodes[current_offset].size
    BY <1>2, <1>7, <2>2, EntriesKept DEF LinkNode
  <2>4. SizesOf(nodes', Live \cup {current_offset}) = SizesOf(nodes', Live) + call.meta.size
    BY <1>4, <1>5, <2>1, <2>2, <2>3, SizesAdd
  <2>5. UNCHANGED header /\ Unweighed = 0 /\ Unweighed' = call.meta.size
    BY <1>7 DEF LinkNode, Goto, Unweighed
  <2> QED
    BY <1>3, <1>5, <1>6, <2>1, <2>4, <2>5 DEF header
<1>8. CASE UnlinkNode
  <2>1. Live' = Live \ {current_offset} /\ current_offset \in Live
    BY <1>2, <1>8, UnlinkNodeSets
  <2>2. current_offset \in Nodes /\ nodes'[current_offset].size = nodes[current_offset].size
    BY <1>2, <1>5, <2>1, LiveEntriesKept
  <2>3. /\ IsFiniteSet(Live \ {current_offset}) /\ current_offset \notin Live \ {current_offset}
        /\ (Live \ {current_offset}) \cup {current_offset} = Live
    BY <1>4, <2>1, FS_RemoveElement
  <2>4. SizesOf(nodes', Live)
          = SizesOf(nodes', Live \ {current_offset}) + nodes'[current_offset].size
    BY <1>5, <2>3, SizesAdd
  <2>5. SizesOf(nodes', Live \ {current_offset}) \in Nat
    BY <1>5, <2>3, SizesCounted
  <2>6. UNCHANGED header /\ Unweighed = 0 /\ Unweighed' = -nodes'[current_offset].size
    BY <1>8 DEF UnlinkNode, Goto, Unweighed, cursor
  <2>7. block_info'.size = block_info.size
    BY <2>6 DEF header
  <2>8. nodes[current_offset].size \in Nat
    BY <1>5, <2>2
  <2> QED
    BY <1>3, <1>5, <1>6, <2>1, <2>2, <2>4, <2>5, <2>6, <2>7, <2>8
<1>9. CASE AccountInsert
  <2>1. Live' = Live
    BY <1>9, OtherSetsSame DEF AccountInsert
  <2>2. block_info'.size = block_info.size + call.meta.size
    <3>1. UpdateBlockInfo("C_OPER_INSERT", call.meta.size)
      BY <1>9 DEF AccountInsert
    <3> QED
      BY <1>2, <1>5, <3>1, InsertCounted
  <2>3. Unweighed = call.meta.size /\ Unweighed' = 0
    BY <1>9 DEF AccountInsert, Return, Leave, Unweighed
  <2> QED
    BY <1>3, <1>5, <1>6, <2>1, <2>2, <2>3
<1>10. CASE AccountDelete
  <2>1. Live' = Live
    BY <1>10, OtherSetsSame DEF AccountDelete
  <2>2. current_offset \in Nodes
    BY <1>2, <1>10 DEF AccountDelete, TypeInv, OffsetsUsable
  <2>3. nodes[current_offset].size \in Nat
    BY <1>5, <2>2
  <2>4. block_info'.size = block_info.size - nodes[current_offset].size
    <3>1. UpdateBlockInfo("C_OPER_DELETE", nodes[current_offset].size)
      BY <1>10 DEF AccountDelete
    <3> QED
      BY <1>2, <2>3, <3>1, DeleteCounted
  <2>5. Unweighed = -nodes[current_offset].size /\ Unweighed' = 0
    BY <1>10 DEF AccountDelete, Return, Leave, Unweighed
  <2> QED
    BY <1>3, <1>5, <1>6, <2>1, <2>3, <2>4, <2>5
<1>11. CASE ~LinkNode /\ ~UnlinkNode /\ ~AccountInsert /\ ~AccountDelete
  <2>1. Live' = Live
    BY <1>2, <1>11, AllocateReusedSets, PushFreeSets, OtherListsSame, OtherSetsSame
  <2>2. block_info' = block_info
    BY <1>1, <1>11 DEF Next, Begin, BeginRead, BeginDelete, BeginWrite, StartFind, Step, Find,
      FindHit, FindNext, FindMiss, Insert, AllocateReused, AllocateNew, WriteNode, ReadNode,
      CommitDataOffset, Delete, ReleaseNode, PushFree, Return, Leave, Goto, vars, header
  <2>3. Unweighed' = Unweighed
    <3>1. CASE pc \in {"release", "push", "uncount"}
      <4>1. current_offset \in Nodes /\ current_offset' = current_offset
        BY <1>1, <1>2, <1>11, <3>1 DEF Next, Begin, BeginRead, BeginDelete, BeginWrite, StartFind,
          Step, Find, FindHit, FindNext, FindMiss, Insert, AllocateReused, AllocateNew, WriteNode,
          ReadNode, CommitDataOffset, Delete, ReleaseNode, PushFree, Return, Leave, Goto, vars,
          cursor, TypeInv, OffsetsUsable
      <4>2. nodes'[current_offset].size = nodes[current_offset].size
        BY <1>2, <3>1, <4>1, EntriesKept
      <4>3. pc' \in {"release", "push", "uncount"}
        BY <1>1, <1>11, <3>1 DEF Next, Begin, BeginRead, BeginDelete, BeginWrite, StartFind,
          Step, Find, FindHit, FindNext, FindMiss, Insert, AllocateReused, AllocateNew, WriteNode,
          ReadNode, CommitDataOffset, Delete, ReleaseNode, PushFree, Return, Leave, Goto, vars
      <4> QED
        BY <3>1, <4>1, <4>2, <4>3 DEF Unweighed
    <3>2. CASE pc \in {"commit", "account"}
      <4>1. pc' \in {"commit", "account"} /\ call' = call
        BY <1>1, <1>11, <3>2 DEF Next, Begin, BeginRead, BeginDelete, BeginWrite, StartFind,
          Step, Find, FindHit, FindNext, FindMiss, Insert, AllocateReused, AllocateNew, WriteNode,
          ReadNode, CommitDataOffset, Delete, ReleaseNode, PushFree, Return, Leave, Goto, vars
      <4> QED
        BY <3>2, <4>1 DEF Unweighed
    <3>3. CASE pc \notin {"commit", "account", "release", "push", "uncount"}
      <4>1. pc' \notin {"commit", "account", "release", "push", "uncount"}
        BY <1>1, <1>11, <3>3 DEF Next, Begin, BeginRead, BeginDelete, BeginWrite, StartFind,
          Step, Find, FindHit, FindNext, FindMiss, Insert, AllocateReused, AllocateNew, WriteNode,
          ReadNode, CommitDataOffset, Delete, ReleaseNode, PushFree, Return, Leave, Goto, vars
      <4> QED
        BY <3>3, <4>1 DEF Unweighed
    <3> QED
      BY <3>1, <3>2, <3>3
  <2> QED
    BY <1>3, <1>6, <2>1, <2>2, <2>3
<1> QED
  BY <1>7, <1>8, <1>9, <1>10, <1>11

(* A step that changes no counter and hands no file on leaves the sums.    *)
LEMMA NextCountInv ==
  ASSUME IndexInv, IndexInv', LeakInv, CountInv, [Next]_vars
  PROVE  CountInv'
<1> SUFFICES ASSUME Faultless'
             PROVE  /\ block_info'.file_count + Uncounted' = Cardinality(Live')
                    /\ block_info'.size + block_info'.del_size + Unsized' = data_file_offset'
                    /\ block_info'.file_count + block_info'.del_file_count
                         = block_info'.seq_no - 1
                    /\ block_info'.version = block_info'.seq_no - 1 + block_info'.del_file_count
  <2>1. Faultless' => block_info'.size + Unweighed' = SizesOf(nodes', Live')
    BY NextSizes
  <2> QED
    BY <2>1 DEF CountInv, Live, Elements
<1>1. /\ Faultless /\ ~FindFails /\ ~AllocateFails /\ ~WriteNodeFails /\ ~LinkNodeFails
      /\ ~ReadNodeFails /\ ~UnlinkNodeFails /\ ~ReleaseNodeFails /\ ~Crash
  BY FaultsCount DEF IndexInv
<1>2. TypeOK /\ TypeInv /\ ListInv /\ CallKnown
  BY <1>1 DEF LeakInv, IndexInv, TypeInv
<1>3. /\ block_info.file_count + Uncounted = Cardinality(Live)
      /\ block_info.size + block_info.del_size + Unsized = data_file_offset
      /\ block_info.file_count + block_info.del_file_count = block_info.seq_no - 1
      /\ block_info.version = block_info.seq_no - 1 + block_info.del_file_count
  BY <1>1 DEF CountInv
<1>4. IsFiniteSet(Live) /\ Cardinality(Live) \in Nat
  BY <1>2, LiveFinite
<1>5. /\ block_info.file_count \in Int /\ block_info.size \in Int
      /\ block_info.del_file_count \in Nat /\ block_info.del_size \in Nat
      /\ block_info.seq_no \in Nat /\ block_info.version \in Nat
      /\ data_file_offset \in Nat /\ call.meta.size \in Nat
  BY <1>2, CountTypes
<1>6. CASE LinkNode
  <2>1. Cardinality(Live') = Cardinality(Live) + 1
    <3>1. Live' = Live \cup {current_offset} /\ current_offset \notin Live
      BY <1>2, <1>6, LinkNodeSets
    <3> QED
      BY <3>1, <1>4, FS_AddElement
  <2>2. UNCHANGED header /\ Uncounted = 0 /\ Uncounted' = 1 /\ Unsized = 0 /\ Unsized' = 0
    BY <1>6 DEF LinkNode, Goto, Uncounted, Unsized
  <2> QED
    BY <1>3, <1>4, <1>5, <2>1, <2>2 DEF header
<1>7. CASE UnlinkNode
  <2>1. Cardinality(Live') = Cardinality(Live) - 1
    <3>1. Live' = Live \ {current_offset} /\ current_offset \in Live
      BY <1>2, <1>7, UnlinkNodeSets
    <3> QED
      BY <3>1, <1>4, FS_RemoveElement
  <2>2. UNCHANGED header /\ Uncounted = 0 /\ Uncounted' = -1 /\ Unsized = 0 /\ Unsized' = 0
    BY <1>7 DEF UnlinkNode, Goto, Uncounted, Unsized
  <2> QED
    BY <1>3, <1>4, <1>5, <2>1, <2>2 DEF header
<1>8. CASE CommitDataOffset
  <2>1. Live' = Live
    BY <1>8, OtherSetsSame DEF CommitDataOffset
  <2>2. /\ UNCHANGED block_info /\ data_file_offset' = data_file_offset + call.meta.size
        /\ Uncounted = 1 /\ Uncounted' = 1 /\ Unsized = 0 /\ Unsized' = call.meta.size
    BY <1>8 DEF CommitDataOffset, Goto, Uncounted, Unsized
  <2> QED
    BY <1>3, <1>4, <1>5, <2>1, <2>2
<1>9. CASE AccountInsert
  <2>1. Live' = Live
    BY <1>9, OtherSetsSame DEF AccountInsert
  <2>2. UpdateBlockInfo("C_OPER_INSERT", call.meta.size) /\ data_file_offset' = data_file_offset
    BY <1>9 DEF AccountInsert
  <2>3. /\ Uncounted = 1 /\ Uncounted' = 0 /\ Unsized = call.meta.size /\ Unsized' = 0
    BY <1>9 DEF AccountInsert, Return, Leave, Uncounted, Unsized
  <2>4. /\ block_info'.file_count = block_info.file_count + 1
        /\ block_info'.size = block_info.size + call.meta.size
        /\ block_info'.del_file_count = block_info.del_file_count
        /\ block_info'.del_size = block_info.del_size
        /\ block_info'.seq_no = block_info.seq_no + 1
        /\ block_info'.version = block_info.version + 1
    BY <1>2, <1>5, <2>2, InsertCounted
  <2> QED
    BY <1>3, <1>4, <1>5, <2>1, <2>2, <2>3, <2>4
<1>10. CASE AccountDelete
  <2>1. Live' = Live
    BY <1>10, OtherSetsSame DEF AccountDelete
  <2>2. PICK n \in Nat : UpdateBlockInfo("C_OPER_DELETE", n)
    <3>1. current_offset \in Nodes
      BY <1>2, <1>10 DEF AccountDelete, TypeInv, OffsetsUsable
    <3>2. nodes[current_offset].size \in Nat
      BY <1>2, <3>1 DEF TypeOK, MetaInfo
    <3> QED
      BY <1>10, <3>2 DEF AccountDelete
  <2>3. /\ data_file_offset' = data_file_offset
        /\ Uncounted = -1 /\ Uncounted' = 0 /\ Unsized = 0 /\ Unsized' = 0
    BY <1>10 DEF AccountDelete, Return, Leave, Uncounted, Unsized
  <2>4. /\ block_info'.file_count = block_info.file_count - 1
        /\ block_info'.size = block_info.size - n
        /\ block_info'.del_file_count = block_info.del_file_count + 1
        /\ block_info'.del_size = block_info.del_size + n
        /\ block_info'.seq_no = block_info.seq_no
        /\ block_info'.version = block_info.version + 1
    BY <1>2, <2>2, DeleteCounted
  <2> QED
    BY <1>3, <1>4, <1>5, <2>1, <2>3, <2>4
<1>11. CASE ~LinkNode /\ ~UnlinkNode /\ ~CommitDataOffset /\ ~AccountInsert /\ ~AccountDelete
  <2>1. Live' = Live
    BY <1>2, <1>11, AllocateReusedSets, PushFreeSets, OtherListsSame, OtherSetsSame
  <2>2. UNCHANGED header /\ Uncounted' = Uncounted
    BY <1>1, <1>11 DEF Next, Begin, BeginRead, BeginDelete, BeginWrite, StartFind, Step, Find,
      FindHit, FindNext, FindMiss, Insert, AllocateReused, AllocateNew, WriteNode, ReadNode,
      Delete, ReleaseNode, PushFree, Return, Leave, Goto, vars, image, bad, Uncounted
  <2>3. Unsized' = Unsized
    BY <1>1, <1>11 DEF Next, Begin, BeginRead, BeginDelete, BeginWrite, StartFind, Step, Find,
      FindHit, FindNext, FindMiss, Insert, AllocateReused, AllocateNew, WriteNode, ReadNode,
      Delete, ReleaseNode, PushFree, Return, Leave, Goto, vars, image, bad, Unsized
  <2> QED
    BY <1>3, <2>1, <2>2, <2>3 DEF header
<1> QED
  BY <1>6, <1>7, <1>8, <1>9, <1>10, <1>11

(* Without crash and I/O error the counters agree with the files of the    *)
(* index and the bytes these account for, with each other and with         *)
(* data_file_offset whenever no operation is running (index_handle.cpp,    *)
(* update_block_info; block_write_test.cpp).                               *)
THEOREM CountersAgree == Spec => []Accounts
<1>1. Init => LeakInv /\ CountInv
  <2> SUFFICES ASSUME Init PROVE LeakInv /\ CountInv
    OBVIOUS
  <2>1. \A l \in Lists : lists[l] = << >>
    BY DEF Init
  <2>2. Live = {} /\ Free = {}
    BY <2>1, SlotFacts DEF Live, Free, Elements
  <2>3. LeakInv
    BY <2>2 DEF Init, Moving, LeakInv
  <2>4. Cardinality(Live) = 0 /\ SizesOf(nodes, Live) = 0
    BY <2>2, FS_EmptySet, SizesOfNone
  <2> QED
    BY <2>3, <2>4 DEF Init, CountInv, Uncounted, Unsized, Unweighed
<1>2. IndexInv /\ IndexInv' /\ LeakInv /\ [Next]_vars => LeakInv'
  BY NextLeakInv
<1>3. IndexInv /\ IndexInv' /\ LeakInv /\ CountInv /\ [Next]_vars => CountInv'
  BY NextCountInv
<1>4. IndexInv /\ CountInv => Accounts
  <2> SUFFICES ASSUME IndexInv, CountInv, Faultless, pc = "idle"
               PROVE  Counted /\ block_info.size = SizesOf(nodes, Live)
    BY DEF Faultless, Accounts
  <2>1. Uncounted = 0 /\ Unsized = 0 /\ Unweighed = 0
    BY DEF Uncounted, Unsized, Unweighed
  <2>2. /\ block_info.file_count \in Int /\ block_info.size \in Int /\ block_info.del_size \in Nat
    BY CountTypes DEF IndexInv, TypeInv
  <2> QED
    BY <2>1, <2>2 DEF CountInv, Counted
<1> QED
  BY <1>1, <1>2, <1>3, <1>4, IndexCorrect, PTL DEF Spec
-----------------------------------------------------------------------------
(* IndexHandle implements SegmentStore until a rollback goes wrong: each     *)
(* step of an operation is a step of the map its callers see, or none.     *)

Taken == pc \in {"commit", "account", "release", "push", "uncount"}

StoredKeys == {nodes[n].key : n \in Live}

(* Where keys are unique, choosing a record by its key finds it.           *)
LEMMA ChooseByKey ==
  ASSUME NEW S, NEW f, NEW n \in S, \A m \in S : f[m].key = f[n].key => m = n
  PROVE  (CHOOSE m \in S : f[m].key = f[n].key) = n
OBVIOUS

(* No two files have the same id.                                          *)
LEMMA KeysUnique ==
  ASSUME Placed, NEW m \in Live, NEW n \in Live, nodes[m].key = nodes[n].key
  PROVE  m = n
<1>1. PICK s \in Slots : m \in Elements(lists[s])
  BY DEF Live
<1>2. PICK t \in Slots : n \in Elements(lists[t])
  BY DEF Live
<1>3. PICK i \in 1 .. Len(lists[s]), j \in 1 .. Len(lists[t]) :
        m = lists[s][i] /\ n = lists[t][j]
  BY <1>1, <1>2 DEF Elements
<1> QED
  BY <1>3 DEF Placed

(* The map the callers see has the place of every record under its id.     *)
SegmentsTell ==
  /\ SegmentsOf = [k \in StoredKeys |-> SegmentsOf[k]]
  /\ \A n \in Live : SegmentsOf[nodes[n].key] = Segment(nodes[n])

LEMMA SegmentAt == Placed => SegmentsTell
<1> SUFFICES ASSUME Placed PROVE SegmentsTell
  OBVIOUS
<1>1. \A n \in Live : RecordOf(nodes[n].key) = n
  BY KeysUnique, ChooseByKey DEF RecordOf
<1> QED
  BY <1>1 DEF SegmentsTell, SegmentsOf, StoredKeys

LEMMA SegmentAtNext == Placed' => SegmentsTell'
BY SegmentAt, PTL

(* What a step that moves no record into or out of a chain leaves alone.   *)
LEMMA SegmentsKept ==
  ASSUME IndexInv, IndexInv', [Next]_vars, ~misrolled', Live' = Live
  PROVE  SegmentsOf' = SegmentsOf
<1>1. Placed /\ Placed'
  BY MisrolledStays DEF IndexInv, ListInv, FileInv
<1>2. \A n \in Live : nodes'[n].key = nodes[n].key /\ Segment(nodes'[n]) = Segment(nodes[n])
  BY LiveEntriesKept DEF Segment
<1>3. SegmentsTell /\ SegmentsTell'
  BY <1>1, SegmentAt, SegmentAtNext
<1>5. StoredKeys' = StoredKeys
  BY <1>2 DEF StoredKeys
<1>6. \A k \in StoredKeys : SegmentsOf'[k] = SegmentsOf[k]
  BY <1>2, <1>3 DEF SegmentsTell, StoredKeys
<1> HIDE DEF StoredKeys
<1> QED
  BY <1>3, <1>5, <1>6 DEF SegmentsTell

(* A search that reached the end of the chain has looked everywhere.       *)
LEMMA NotInChain ==
  ASSUME TypeOK, Placed, NotIn(Chain, Len(Chain)), NEW n \in Live
  PROVE  nodes[n].key # Key
<1>1. PICK s \in Slots : n \in Elements(lists[s])
  BY DEF Live
<1>2. PICK i \in 1 .. Len(lists[s]) : n = lists[s][i]
  BY <1>1 DEF Elements
<1>3. CASE s = Slot(Key)
  BY <1>2, <1>3 DEF NotIn, Chain
<1>4. CASE s # Slot(Key)
  BY <1>2, <1>4 DEF Placed
<1> QED
  BY <1>3, <1>4

-----------------------------------------------------------------------------
(* The two steps at which a call takes effect *)

(* hash_insert stores the record of a new id when it links it.             *)
LEMMA LinkInserts ==
  ASSUME IndexInv, IndexInv', [Next]_vars, ~misrolled', LinkNode
  PROVE  Store!Insert
<1>1. TypeInv /\ TypeInv' /\ ListInv /\ ListInv' /\ Placed /\ Placed'
  BY MisrolledStays DEF IndexInv, ListInv, FileInv
<1>2. pc = "link" /\ pc' = "commit" /\ call.op = "write" /\ UNCHANGED <<call, ret>>
  BY DEF LinkNode, Goto, IndexInv, CallKnown
<1>3. Live' = Live \cup {current_offset} /\ current_offset \notin Live
  BY <1>1, LinkNodeSets
<1>4. \A n \in Live : nodes[n].key # Key
  BY <1>1, <1>2, NotInChain DEF TypeInv, ListInv, Searched
<1>5. \A n \in Live : nodes'[n].key = nodes[n].key /\ Segment(nodes'[n]) = Segment(nodes[n])
  BY LiveEntriesKept DEF Segment
<1>6. nodes'[current_offset].key = Key /\ Segment(nodes'[current_offset]) = Segment(call.meta)
  <2>1. current_offset \in Nodes /\ nodes[current_offset] = [call.meta EXCEPT !.next = Null]
        /\ call.meta \in MetaInfo
    BY <1>1, <1>2 DEF TypeInv, OffsetsUsable, ListInv, Prepared, TypeOK
  <2>2. /\ nodes'[current_offset].key = nodes[current_offset].key
        /\ nodes'[current_offset].offset = nodes[current_offset].offset
        /\ nodes'[current_offset].size = nodes[current_offset].size
    BY <1>1, <1>2, <2>1, EntriesKept
  <2> QED
    BY <2>1, <2>2 DEF Segment, MetaInfo, Key
<1>7. SegmentsTell /\ SegmentsTell'
  BY <1>1, SegmentAt, SegmentAtNext
<1>8. StoredKeys' = StoredKeys \cup {Key} /\ Key \notin StoredKeys
  BY <1>3, <1>4, <1>5, <1>6 DEF StoredKeys
<1>9. SegmentsOf'[Key] = Segment(call.meta)
  BY <1>3, <1>6, <1>7 DEF SegmentsTell
<1>10. \A k \in StoredKeys : SegmentsOf'[k] = SegmentsOf[k]
  BY <1>3, <1>5, <1>7 DEF SegmentsTell, StoredKeys
<1>11. DOMAIN SegmentsOf = StoredKeys
  BY <1>7 DEF SegmentsTell
<1> HIDE DEF StoredKeys
<1>12. SegmentsOf' = [k \in StoredKeys \cup {Key} |->
                        IF k = Key THEN Segment(call.meta) ELSE SegmentsOf[k]]
  BY <1>7, <1>8, <1>9, <1>10 DEF SegmentsTell
<1> QED
  BY <1>2, <1>8, <1>11, <1>12 DEF Store!Insert, Store!Stored, Key

(* delete_segment_meta deletes a file when it unlinks its record.          *)
LEMMA UnlinkRemoves ==
  ASSUME IndexInv, IndexInv', [Next]_vars, ~misrolled', UnlinkNode
  PROVE  Store!Remove
<1>1. TypeInv /\ TypeInv' /\ ListInv /\ ListInv' /\ Placed /\ Placed'
  BY MisrolledStays DEF IndexInv, ListInv, FileInv
<1>2. pc = "found" /\ pc' = "release" /\ call.op = "delete" /\ UNCHANGED <<call, ret>>
  BY DEF UnlinkNode, Goto
<1>3. /\ Live' = Live \ {current_offset} /\ current_offset \in Live
      /\ nodes[current_offset].key = Key
  BY <1>1, UnlinkNodeSets
<1>4. \A n \in Live : nodes'[n].key = nodes[n].key /\ Segment(nodes'[n]) = Segment(nodes[n])
  BY LiveEntriesKept DEF Segment
<1>5. \A n \in Live' : nodes[n].key # Key
  BY <1>1, <1>3, KeysUnique
<1>6. SegmentsTell /\ SegmentsTell'
  BY <1>1, SegmentAt, SegmentAtNext
<1>7. StoredKeys' = StoredKeys \ {Key} /\ Key \in StoredKeys
  BY <1>3, <1>4, <1>5 DEF StoredKeys
<1>8. \A k \in StoredKeys' : SegmentsOf'[k] = SegmentsOf[k]
  BY <1>3, <1>4, <1>6 DEF SegmentsTell, StoredKeys
<1>9. DOMAIN SegmentsOf = StoredKeys
  BY <1>6 DEF SegmentsTell
<1> HIDE DEF StoredKeys
<1>10. SegmentsOf' = [k \in StoredKeys \ {Key} |-> SegmentsOf[k]]
  BY <1>6, <1>7, <1>8 DEF SegmentsTell
<1> QED
  BY <1>2, <1>7, <1>9, <1>10 DEF Store!Remove, Store!Stored, Key

-----------------------------------------------------------------------------
(* The steps between them *)

LEMMA OtherSegmentsKept ==
  ASSUME IndexInv, IndexInv', [Next]_vars, ~misrolled', ~LinkNode, ~UnlinkNode
  PROVE  SegmentsOf' = SegmentsOf
<1>1. TypeInv /\ ListInv
  BY MisrolledStays DEF IndexInv
<1>2. Live' = Live
  BY <1>1, AllocateReusedSets, PushFreeSets, OtherListsSame, OtherSetsSame
<1> QED
  BY <1>2, SegmentsKept

(* A call begins in both at once.                                          *)
LEMMA BeginBegins ==
  ASSUME IndexInv, SegmentsOf' = SegmentsOf, Begin
  PROVE  Store!Begin
<1>1. PICK k \in Keys, op \in {"write", "read", "delete"}, meta \in MetaInfo :
        StartFind(op, meta) /\ meta.key = k
  <2>1. \A k \in Keys : [NoMeta EXCEPT !.key = k] \in MetaInfo /\ [NoMeta EXCEPT !.key = k].key = k
    BY KeysAssumption DEF NoMeta, MetaInfo
  <2>2. \A k \in Keys, size \in Sizes :
          [key |-> k, offset |-> data_file_offset, size |-> size, next |-> Null] \in MetaInfo
    BY KeysAssumption, SizesAssumption DEF MetaInfo, IndexInv, TypeInv, TypeOK
  <2> QED
    BY <2>1, <2>2 DEF Begin, BeginRead, BeginDelete, BeginWrite
<1>2. /\ pc = "idle" /\ pc' = "find" /\ call' = [op |-> op, meta |-> meta] /\ ret' = Pending
      /\ call = NoCall
  BY <1>1 DEF StartFind, IndexInv, CallKnown
<1>3. [op |-> op, key |-> meta.key, segment |-> Segment(meta)] \in Store!Calls
  BY <1>1 DEF Store!Calls, Store!Segments, Segment, MetaInfo
<1> QED
  BY <1>2, <1>3 DEF Store!Begin, Store!NoCall, Store!NoSegment, Store!Pending, Store!Answer,
    NoCall, NoMeta, Segment, Pending, Answer

(* A call returns what the map allows.                                     *)
LEMMA ReturnReturns ==
  ASSUME IndexInv, pc # "idle", SegmentsOf' = SegmentsOf,
         NEW status, NEW meta, Return(status, meta),
         Store!Right(Store!Answer(status, Segment(meta)))
  PROVE  Store!Return
<1>1. call.op # "none" /\ pc' = "idle" /\ call' = NoCall
  BY DEF IndexInv, CallKnown, Return, Leave
<1>2. ret' = Answer(status, meta)
  BY DEF Return
<1>3. [status |-> ret'.status, segment |-> Segment(ret'.meta)] = Store!Answer(status, Segment(meta))
  BY <1>2 DEF Answer, Store!Answer
<1> QED
  BY <1>1, <1>3 DEF Store!Return, Store!Right, Store!NoCall, Store!NoSegment, NoCall, NoMeta, Segment

NoPlace == Segment(NoMeta)

(* hash_find tells a new id from a stored one.                             *)
LEMMA SearchAnswers ==
  ASSUME IndexInv, SegmentsOf' = SegmentsOf, ~misrolled,
         \/ FindHit /\ call.op = "write"
         \/ FindMiss /\ call.op # "write"
         \/ FindFails
  PROVE  Store!Return
<1>1. TypeInv /\ ListInv /\ Placed /\ TypeOK /\ pc = "find" /\ DOMAIN SegmentsOf = StoredKeys
  BY SegmentAt DEF IndexInv, TypeInv, ListInv, FileInv, FindHit, FindMiss, FindFails, SegmentsTell
<1>2. CASE FindHit /\ call.op = "write"
  <2>1. PICK i \in 1 .. Len(Chain) + 1 : pos = At(Chain, i)
    BY <1>1 DEF ListInv, Searched
  <2>2. i \in 1 .. Len(Chain) /\ pos = Chain[i] /\ nodes[pos].key = Key
    BY <1>2, <2>1 DEF FindHit, At
  <2>3. Slot(Key) \in Slots
    BY <1>1, KeyInNat
  <2>4. pos \in Live
    BY <2>2, <2>3 DEF Live, Elements, Chain
  <2>5. Key \in StoredKeys
    BY <2>2, <2>4 DEF StoredKeys
  <2>6. Store!Right(Store!Answer("EXIT_META_UNEXPECT_FOUND_ERROR", NoPlace))
    BY <1>1, <1>2, <2>5 DEF Store!Right, Store!Stored, Store!NoSegment, NoPlace, Segment, NoMeta, Key
  <2> QED
    BY <1>1, <1>2, <2>6, ReturnReturns DEF FindHit, NoPlace
<1>3. CASE FindMiss /\ call.op # "write"
  <2>1. PICK i \in 1 .. Len(Chain) + 1 : pos = At(Chain, i) /\ NotIn(Chain, i - 1)
    BY <1>1 DEF ListInv, Searched
  <2>2. Len(Chain) \in Nat /\ \A j \in 1 .. Len(Chain) : Chain[j] \in Nodes
    BY <1>1, KeyInNat, ListElements DEF Chain
  <2>3. i = Len(Chain) + 1
    BY <1>3, <2>1, <2>2, NodesFacts DEF FindMiss, At
  <2>4. NotIn(Chain, Len(Chain))
    BY <2>1, <2>2, <2>3
  <2>5. Key \notin StoredKeys
    BY <1>1, <2>4, NotInChain DEF StoredKeys
  <2>6. Store!Right(Store!Answer("EXIT_META_NOT_FOUND_ERROR", NoPlace))
    BY <1>1, <1>3, <2>5 DEF Store!Right, Store!Stored, Store!NoSegment, NoPlace, Segment, NoMeta, Key
  <2> QED
    BY <1>1, <1>3, <2>6, ReturnReturns DEF FindMiss, NoPlace
<1>4. CASE FindFails
  <2>1. Store!Right(Store!Answer("DISK_ERROR", NoPlace))
    BY <1>1 DEF Store!Right, Store!NoSegment, NoPlace, Segment, NoMeta
  <2> QED
    BY <1>1, <1>4, <2>1, ReturnReturns DEF FindFails, NoPlace
<1> QED
  BY <1>2, <1>3, <1>4

(* A read that has found its id returns the place of the file.             *)
LEMMA ReadAnswers ==
  ASSUME IndexInv, SegmentsOf' = SegmentsOf, ~misrolled, ReadNode
  PROVE  Store!Return
<1>1. TypeInv /\ ListInv /\ Placed /\ TypeOK /\ SegmentsTell /\ pc = "found" /\ call.op = "read"
  BY SegmentAt DEF IndexInv, TypeInv, ListInv, FileInv, ReadNode
<1>2. PICK i \in 1 .. Len(Chain) : current_offset = Chain[i] /\ nodes[Chain[i]].key = Key
  BY <1>1 DEF ListInv, Searched
<1>3. Slot(Key) \in Slots
  BY <1>1, KeyInNat
<1>4. current_offset \in Live
  BY <1>2, <1>3 DEF Live, Elements, Chain
<1>5. Key \in StoredKeys /\ SegmentsOf[Key] = Segment(nodes[current_offset])
  BY <1>1, <1>2, <1>4 DEF StoredKeys, SegmentsTell
<1>6. DOMAIN SegmentsOf = StoredKeys
  BY <1>1 DEF SegmentsTell
<1>7. Store!Right(Store!Answer("TFS_SUCCESS", Segment(nodes[current_offset])))
  BY <1>1, <1>5, <1>6 DEF Store!Right, Store!Stored, Key
<1> QED
  BY <1>1, <1>7, ReturnReturns DEF ReadNode

(* The other answers are success once the call has taken effect, and the   *)
(* disk error, which only a delete gives when it has.                      *)
LEMMA OthersAnswer ==
  ASSUME IndexInv, SegmentsOf' = SegmentsOf,
         \/ AllocateFails \/ WriteNodeFails \/ LinkNodeFails \/ AccountInsert
         \/ ReadNodeFails \/ UnlinkNodeFails \/ ReleaseNodeFails \/ AccountDelete
  PROVE  Store!Return
<1>1. CASE AccountInsert \/ AccountDelete
  <2>1. Return("TFS_SUCCESS", NoMeta) /\ Taken /\ pc # "idle"
    BY <1>1 DEF AccountInsert, AccountDelete, Taken
  <2>2. Store!Right(Store!Answer("TFS_SUCCESS", NoPlace))
    BY <2>1 DEF Store!Right, Store!NoSegment, NoPlace, Segment, NoMeta, Taken
  <2> QED
    BY <2>1, <2>2, ReturnReturns DEF NoPlace
<1>2. CASE ~AccountInsert /\ ~AccountDelete
  <2>1. /\ Return("DISK_ERROR", NoMeta) /\ pc # "idle"
        /\ Taken => pc = "release"
    BY <1>2 DEF AllocateFails, WriteNodeFails, LinkNodeFails, Rollback, ReadNodeFails,
      UnlinkNodeFails, ReleaseNodeFails, Taken
  <2>2. Store!Right(Store!Answer("DISK_ERROR", NoPlace))
    BY <2>1 DEF Store!Right, Store!NoSegment, NoPlace, Segment, NoMeta, Taken, IndexInv, CallKnown
  <2> QED
    BY <2>1, <2>2, ReturnReturns DEF NoPlace
<1> QED
  BY <1>1, <1>2

(* The callers do not see the rest: the walk along the chain, where a new  *)
(* record is taken from, what is put into it before it is linked, and what *)
(* becomes of an unlinked one.                                             *)
LEMMA OthersUnseen ==
  ASSUME IndexInv, SegmentsOf' = SegmentsOf,
         \/ FindHit /\ call.op # "write"
         \/ FindMiss /\ call.op = "write"
         \/ FindNext \/ AllocateReused \/ AllocateNew \/ WriteNode
         \/ CommitDataOffset \/ ReleaseNode \/ PushFree
  PROVE  UNCHANGED Store!vars
<1>1. UNCHANGED <<call, ret>> /\ Taken' = Taken
  BY DEF FindHit, FindMiss, FindNext, AllocateReused, AllocateNew, WriteNode, CommitDataOffset,
    ReleaseNode, PushFree, Goto, Taken
<1> QED
  BY <1>1 DEF Store!vars, Taken

(* A crash takes the running call away from both.                          *)
LEMMA CrashCrashes ==
  ASSUME IndexInv, SegmentsOf' = SegmentsOf, Crash
  PROVE  Store!Crash
<1>1. call.op # "none" /\ pc' = "idle" /\ call' = NoCall /\ ret' = Pending
  BY DEF Crash, Leave, IndexInv, CallKnown
<1> QED
  BY <1>1 DEF Store!Crash, Store!NoCall, Store!NoSegment, Store!Pending, Store!Answer,
    NoCall, NoMeta, Segment, Pending, Answer

-----------------------------------------------------------------------------
LEMMA StepImplements ==
  ASSUME IndexInv, IndexInv', [Next]_vars, ~misrolled'
  PROVE  [Store!Next]_(Store!vars)
<1>1. ~misrolled
  BY MisrolledStays DEF IndexInv
<1>2. CASE UNCHANGED vars
  <2>1. Live' = Live
    BY <1>2, OtherSetsSame DEF vars
  <2>2. SegmentsOf' = SegmentsOf
    BY <2>1, SegmentsKept
  <2> QED
    BY <1>2, <2>2 DEF vars, Store!vars
<1>3. CASE LinkNode
  BY <1>3, LinkInserts DEF Store!Next
<1>4. CASE UnlinkNode
  BY <1>4, UnlinkRemoves DEF Store!Next
<1>5. CASE Next /\ ~LinkNode /\ ~UnlinkNode
  <2>1. SegmentsOf' = SegmentsOf
    BY <1>5, OtherSegmentsKept
  <2>2. CASE Begin
    BY <2>1, <2>2, BeginBegins DEF Store!Next
  <2>3. CASE Crash
    BY <2>1, <2>3, CrashCrashes DEF Store!Next
  <2>4. CASE Step
    BY <1>1, <1>5, <2>1, <2>4, SearchAnswers, ReadAnswers, OthersAnswer, OthersUnseen
      DEF Step, Find, Insert, Delete, Store!Next
  <2> QED
    BY <1>5, <2>2, <2>3, <2>4 DEF Next
<1> QED
  BY <1>2, <1>3, <1>4, <1>5

LEMMA InitImplements == Init => Store!Init
<1> SUFFICES ASSUME Init PROVE Store!Init
  OBVIOUS
<1>1. Live = {}
  BY SlotFacts DEF Init, Live, Elements
<1>2. SegmentsOf = [k \in {} |-> Store!NoSegment]
  BY <1>1 DEF SegmentsOf
<1> QED
  BY <1>2 DEF Init, Store!Init, Store!NoCall, Store!NoSegment, Store!Pending, Store!Answer,
    NoCall, NoMeta, Segment, Pending, Answer

(* The index implements the map of SegmentStore until a rollback goes      *)
(* wrong: every call takes effect at one step and answers what the map     *)
(* holds (index_handle.cpp, write, read and delete_segment_meta).          *)
THEOREM IndexImplementsStore == Spec => ImplementsStore
<1>1. IndexInv /\ IndexInv' /\ [Next]_vars => [misrolled' \/ Store!Next]_(Store!vars)
  BY StepImplements
<1> QED
  BY <1>1, InitImplements, IndexCorrect, PTL DEF Spec, ImplementsStore

-----------------------------------------------------------------------------
(* How long a call takes *)

(* The turns the loop of hash_find has yet to make, from record p of a     *)
(* chain on.                                                               *)
TurnsLeft(c, p) == IF p = Null THEN 0 ELSE Len(c) + 1 - CHOOSE i \in 1 .. Len(c) : c[i] = p

(* The steps the running operation has yet to make, at most.               *)
StepsLeft ==
  CASE pc = "idle" -> 0
    [] pc = "find" -> 6 + TurnsLeft(Chain, pos)
    [] pc = "allocate" -> 5
    [] pc \in {"found", "write"} -> 4
    [] pc \in {"link", "release"} -> 3
    [] pc \in {"commit", "push"} -> 2
    [] pc \in {"account", "uncount"} -> 1

(* No record is in a chain twice, so that the place of one tells how far   *)
(* it is from the end.                                                     *)
LEMMA TurnsLeftAt ==
  ASSUME TypeOK, Disjoint, NEW i \in 1 .. Len(Chain) + 1
  PROVE  TurnsLeft(Chain, At(Chain, i)) = Len(Chain) + 1 - i
<1>1. Slot(Key) \in Lists /\ Chain \in Seq(Nodes) /\ Len(Chain) \in Nat
  BY KeyInNat, ListElements DEF TypeOK, Chain
<1>2. CASE i \in 1 .. Len(Chain)
  <2>1. Chain[i] \in Nodes /\ Chain[i] # Null /\ At(Chain, i) = Chain[i]
    BY <1>1, <1>2, NodesFacts DEF At
  <2>2. \A j \in 1 .. Len(Chain) : Chain[j] = Chain[i] => j = i
    BY <1>1, <1>2 DEF Disjoint, Chain
  <2>3. (CHOOSE j \in 1 .. Len(Chain) : Chain[j] = Chain[i]) = i
    BY <1>2, <2>2
  <2> QED
    BY <2>1, <2>3 DEF TurnsLeft
<1>3. CASE i = Len(Chain) + 1
  <2>1. At(Chain, i) = Null
    BY <1>1, <1>3 DEF At
  <2> QED
    BY <1>1, <1>3, <2>1 DEF TurnsLeft
<1> QED
  BY <1>1, <1>2, <1>3

(* The loop of hash_find makes no more turns than there are records.       *)
LEMMA TurnsBounded ==
  ASSUME TypeOK, ListInv, pc = "find"
  PROVE  TurnsLeft(Chain, pos) \in 0 .. MaxNodes
<1>1. PICK i \in 1 .. Len(Chain) + 1 : pos = At(Chain, i)
  BY DEF ListInv, Searched
<1>2. Disjoint /\ Slot(Key) \in Slots /\ MaxNodes \in Nat
  BY KeyInNat, BoundsAssumption DEF ListInv, FileInv
<1>3. Len(Chain) \in Nat /\ Len(Chain) <= MaxNodes
  BY <1>2, ChainFits DEF Chain
<1>4. TurnsLeft(Chain, pos) = Len(Chain) + 1 - i
  BY <1>1, <1>2, TurnsLeftAt
<1> QED
  BY <1>2, <1>3, <1>4

(* The same of a whole call.                                               *)
LEMMA StepsBounded ==
  ASSUME TypeOK, ListInv
  PROVE  StepsLeft \in 0 .. MaxNodes + 6
<1>1. MaxNodes \in Nat
  BY BoundsAssumption
<1>2. CASE pc = "find"
  <2>1. StepsLeft = 6 + TurnsLeft(Chain, pos)
    BY <1>2 DEF StepsLeft
  <2> QED
    BY <1>1, <1>2, <2>1, TurnsBounded
<1>3. CASE pc # "find"
  <2>1. StepsLeft \in 0 .. 5
    BY <1>3 DEF StepsLeft, TypeOK
  <2> QED
    BY <1>1, <2>1
<1> QED
  BY <1>2, <1>3

(* One turn of the loop of hash_find.                                      *)
LEMMA FindNextNearer ==
  ASSUME TypeOK, ListInv, FindNext
  PROVE  StepsLeft' = StepsLeft - 1
<1>1. /\ Slot(Key) \in Lists /\ Chain \in Seq(Nodes) /\ Len(Chain) \in Nat
      /\ Represented /\ Disjoint
  BY KeyInNat, ListElements DEF TypeOK, Chain, ListInv, FileInv
<1>2. /\ pc = "find" /\ pc' = "find" /\ pos # Null /\ pos' = nodes[pos].next
      /\ Chain' = Chain
  BY DEF FindNext, Chain, Key
<1>3. PICK i \in 1 .. Len(Chain) + 1 : pos = At(Chain, i)
  BY <1>2 DEF ListInv, Searched
<1>4. i \in 1 .. Len(Chain) /\ pos = Chain[i]
  BY <1>2, <1>3 DEF At
<1>5. pos' = At(Chain, i + 1)
  BY <1>1, <1>2, <1>4 DEF Represented, Chain
<1>6. i + 1 \in 1 .. Len(Chain) + 1
  BY <1>1, <1>4
<1>7. TurnsLeft(Chain, pos) = Len(Chain) + 1 - i
  BY <1>1, <1>3, TurnsLeftAt
<1>8. TurnsLeft(Chain, pos') = Len(Chain) - i
  <2>1. TurnsLeft(Chain, At(Chain, i + 1)) = Len(Chain) + 1 - (i + 1)
    BY <1>1, <1>6, TurnsLeftAt
  <2> QED
    BY <1>1, <1>4, <1>5, <2>1
<1>9. StepsLeft = 6 + TurnsLeft(Chain, pos) /\ StepsLeft' = 6 + TurnsLeft(Chain, pos')
  <2>1. StepsLeft' = 6 + TurnsLeft(Chain', pos')
    BY <1>2 DEF StepsLeft
  <2> QED
    BY <1>2, <2>1 DEF StepsLeft
<1> QED
  BY <1>1, <1>4, <1>7, <1>8, <1>9

(* Every other step of an operation goes on to a label further down, or    *)
(* ends it.                                                                *)
LEMMA StepNearer ==
  ASSUME TypeOK, CallKnown, ListInv, Next, pc # "idle"
  PROVE  StepsLeft' < StepsLeft
<1>1. CASE pc = "find"
  <2>1. TurnsLeft(Chain, pos) \in Nat /\ StepsLeft = 6 + TurnsLeft(Chain, pos)
    BY <1>1, TurnsBounded DEF StepsLeft
  <2>2. CASE FindNext
    BY <2>1, <2>2, FindNextNearer
  <2>3. CASE ~FindNext
    <3>1. pc' \in {"idle", "found", "allocate"}
      BY <1>1, <2>3 DEF Next, Begin, BeginRead, BeginDelete, BeginWrite, StartFind, Step, Find,
           Insert, Delete, FindHit, FindMiss, FindFails, Crash, Leave, Return, Goto,
           AllocateReused, AllocateNew, AllocateFails, WriteNode, WriteNodeFails, LinkNode,
           LinkNodeFails, CommitDataOffset, AccountInsert, ReadNode, ReadNodeFails, UnlinkNode,
           UnlinkNodeFails, ReleaseNode, ReleaseNodeFails, PushFree, AccountDelete
    <3>2. StepsLeft' \in 0 .. 5
      BY <3>1 DEF StepsLeft
    <3> QED
      BY <2>1, <3>2
  <2> QED
    BY <2>2, <2>3
<1>2. CASE pc # "find"
  <2>1. \/ pc' = "idle"
        \/ pc = "allocate" /\ pc' = "write"
        \/ pc = "write" /\ pc' = "link"
        \/ pc = "link" /\ pc' = "commit"
        \/ pc = "commit" /\ pc' = "account"
        \/ pc = "found" /\ pc' = "release"
        \/ pc = "release" /\ pc' = "push"
        \/ pc = "push" /\ pc' = "uncount"
    BY <1>2 DEF Next, Begin, BeginRead, BeginDelete, BeginWrite, StartFind, Step, Find,
         Insert, Delete, FindHit, FindNext, FindMiss, FindFails, Crash, Leave, Return, Goto, Rollback,
         AllocateReused, AllocateNew, AllocateFails, WriteNode, WriteNodeFails, LinkNode,
         LinkNodeFails, CommitDataOffset, AccountInsert, ReadNode, ReadNodeFails, UnlinkNode,
         UnlinkNodeFails, ReleaseNode, ReleaseNodeFails, PushFree, AccountDelete
  <2>2. CASE pc' = "idle"
    <3>1. StepsLeft \in 1 .. 5
      BY <1>2 DEF StepsLeft, TypeOK
    <3>2. StepsLeft' = 0
      BY <2>2 DEF StepsLeft
    <3> QED
      BY <3>1, <3>2
  <2>3. CASE pc' # "idle"
    BY <2>1, <2>3 DEF StepsLeft
  <2> QED
    BY <2>2, <2>3
<1> QED
  BY <1>1, <1>2

(* A call has never more than six steps to make besides the turns of       *)
(* hash_find, and those are no more than the index has records.            *)
THEOREM CallsAreShort == Spec => [](~misrolled => StepsLeft \in 0 .. MaxNodes + 6)
<1>1. IndexInv => (~misrolled => StepsLeft \in 0 .. MaxNodes + 6)
  BY StepsBounded DEF IndexInv, TypeInv
<1> QED
  BY <1>1, IndexCorrect, PTL

(* Whatever a running call does brings it nearer to its end: hash_find     *)
(* follows no chain in a circle, whichever errors and crashes there were.  *)
THEOREM CallsGoOn == Spec => [][pc # "idle" /\ ~misrolled => StepsLeft' < StepsLeft]_vars
<1>1. IndexInv /\ [Next]_vars => [pc # "idle" /\ ~misrolled => StepsLeft' < StepsLeft]_vars
  BY StepNearer DEF IndexInv, TypeInv
<1> QED
  BY <1>1, IndexCorrect, PTL DEF Spec
=============================================================================
