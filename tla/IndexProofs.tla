---------------------------- MODULE IndexProofs ----------------------------
(***************************************************************************)
(* The type correctness of IndexHandle, and that its hash chains and its   *)
(* list of reusable records stay intact, for any number of keys, buckets   *)
(* and records.                                                            *)
(***************************************************************************)
EXTENDS IndexInvariant, SequenceTheorems, TLAPS

USE DEF Null

(* A list loses the record that Without takes out, and nothing else.       *)
LEMMA WithoutInSeq ==
  ASSUME NEW S, NEW s \in Seq(S), NEW n
  PROVE  Without(s, n) \in Seq(S)
<1>1. CASE \E i \in 1 .. Len(s) : s[i] = n
  <2> DEFINE i == CHOOSE i \in 1 .. Len(s) : s[i] = n
             t == [j \in 1 .. Len(s) - 1 |-> IF j < i THEN s[j] ELSE s[j + 1]]
  <2>1. i \in 1 .. Len(s)
    BY <1>1
  <2>2. Len(s) \in Nat /\ Len(s) - 1 \in Nat
    BY <2>1
  <2>3. \A j \in 1 .. Len(s) - 1 : t[j] \in S
    BY <2>1, <2>2
  <2>4. t \in [1 .. Len(s) - 1 -> S]
    BY <2>3
  <2>5. t \in Seq(S)
    BY <2>2, <2>4
  <2> QED
    BY <1>1, <2>5 DEF Without
<1>2. CASE ~ \E i \in 1 .. Len(s) : s[i] = n
  BY <1>2 DEF Without
<1> QED
  BY <1>1, <1>2

(* The bucket a key hashes to exists. *)
LEMMA SlotInSlots ==
  ASSUME NEW k \in Nat
  PROVE  Slot(k) \in Slots /\ Slot(k) \in Lists /\ Slot(k) # FreeList
<1>1. k % Word \in Nat
  BY WordAssumption
<1>2. (k % Word) % BucketSize \in 0 .. BucketSize - 1
  BY <1>1, BucketSizeAssumption
<1> QED
  BY <1>2, BucketSizeAssumption DEF Slot, Slots, Lists, FreeList

(* An index that create() has just made is well typed. *)
LEMMA InitTypeInv == Init => TypeInv
<1> SUFFICES ASSUME Init PROVE TypeInv
  OBVIOUS
<1> USE DEF Init
<1>1. NoMeta \in MetaInfo
  BY DEF NoMeta, MetaInfo
<1>2. bucket_slot \in [Slots -> Nodes \cup {Null}] /\ nodes \in [Nodes -> MetaInfo]
  BY <1>1
<1>3. block_info \in [block_id : Nat \ {0}, version : Nat, file_count : Int, size : Int,
                     del_file_count : Nat, del_size : Nat, seq_no : Nat]
  BY BlockIdAssumption
<1>4. call \in [op : {"none", "write", "read", "delete"}, meta : MetaInfo]
  BY <1>1 DEF NoCall
<1>5. ret \in [status : {"pending", "TFS_SUCCESS", "EXIT_META_UNEXPECT_FOUND_ERROR",
                        "EXIT_META_NOT_FOUND_ERROR", "DISK_ERROR"}, meta : MetaInfo]
  BY <1>1 DEF Pending, Answer
<1>6. lists \in [Lists -> Seq(Nodes)]
  <2>1. << >> \in Seq(Nodes)
    OBVIOUS
  <2> QED
    BY <2>1
<1>7. TypeOK
  <2>1. index_file_size \in Int /\ data_file_offset \in Nat
    OBVIOUS
  <2>2. free_head_offset \in Nodes \cup {Null} /\ pos \in Nodes \cup {Null}
        /\ previous_offset \in Nodes \cup {Null} /\ current_offset \in Nodes \cup {Null}
    OBVIOUS
  <2>3. crashes \in Nat /\ faults \in Nat /\ misrolled \in BOOLEAN
    OBVIOUS
  <2>4. pc \in {"idle", "find", "found", "allocate", "write", "link", "commit", "account",
             "release", "push", "uncount"}
    OBVIOUS
  <2> QED
    BY <1>2, <1>3, <1>4, <1>5, <1>6, <2>1, <2>2, <2>3, <2>4, Zenon DEF TypeOK
<1>8. OffsetsUsable
  BY DEF OffsetsUsable
<1> QED
  BY <1>7, <1>8 DEF TypeInv

(* A MetaInfo that init() has cleared is a MetaInfo. *)
LEMMA NoMetaInMetaInfo == NoMeta \in MetaInfo
  BY DEF NoMeta, MetaInfo

(* The variables of a call once it has returned. *)
LEMMA ReturnTypes ==
  ASSUME NEW status \in {"TFS_SUCCESS", "EXIT_META_UNEXPECT_FOUND_ERROR",
                         "EXIT_META_NOT_FOUND_ERROR", "DISK_ERROR"},
         NEW meta \in MetaInfo, Return(status, meta)
  PROVE  /\ pc' = "idle"
         /\ call' \in [op : {"none", "write", "read", "delete"}, meta : MetaInfo]
         /\ pos' = Null /\ previous_offset' = Null /\ current_offset' = Null
         /\ ret' \in [status : {"pending", "TFS_SUCCESS", "EXIT_META_UNEXPECT_FOUND_ERROR",
                               "EXIT_META_NOT_FOUND_ERROR", "DISK_ERROR"},
                      meta : MetaInfo]
  BY NoMetaInMetaInfo DEF Return, Leave, NoCall, Answer

(* update_block_info keeps the counters to their types. *)
LEMMA UpdateBlockInfoTypes ==
  ASSUME NEW oper_type, NEW size \in Nat,
         block_info \in [block_id : Nat \ {0}, version : Nat, file_count : Int, size : Int,
                         del_file_count : Nat, del_size : Nat, seq_no : Nat],
         UpdateBlockInfo(oper_type, size)
  PROVE  block_info' \in [block_id : Nat \ {0}, version : Nat, file_count : Int, size : Int,
                          del_file_count : Nat, del_size : Nat, seq_no : Nat]
<1>1. CASE block_info.block_id = 0
  BY <1>1 DEF UpdateBlockInfo
<1> DEFINE b == block_info
<1>2. /\ b.block_id \in Nat \ {0} /\ b.version \in Nat /\ b.file_count \in Int /\ b.size \in Int
      /\ b.del_file_count \in Nat /\ b.del_size \in Nat /\ b.seq_no \in Nat
  OBVIOUS
<1>3. CASE b.block_id # 0 /\ oper_type = "C_OPER_INSERT"
  <2>1. block_info' = [b EXCEPT !.version = @ + 1, !.file_count = @ + 1,
                                !.seq_no = @ + 1, !.size = @ + size]
    BY <1>3 DEF UpdateBlockInfo
  <2>2. b.version + 1 \in Nat /\ b.file_count + 1 \in Int /\ b.seq_no + 1 \in Nat
        /\ b.size + size \in Int
    BY <1>2
  <2> QED
    BY <2>1, <2>2
<1>4. CASE b.block_id # 0 /\ oper_type # "C_OPER_INSERT"
  <2>1. block_info' = [b EXCEPT !.version = @ + 1, !.file_count = @ - 1,
                                !.size = @ - size, !.del_file_count = @ + 1,
                                !.del_size = @ + size]
    BY <1>4 DEF UpdateBlockInfo
  <2>2. b.version + 1 \in Nat /\ b.file_count - 1 \in Int /\ b.size - size \in Int
        /\ b.del_file_count + 1 \in Nat /\ b.del_size + size \in Nat
    BY <1>2
  <2> QED
    BY <2>1, <2>2
<1> QED
  BY <1>1, <1>3, <1>4

(* No step of any operation, and no crash, stores a value of a wrong type. *)
LEMMA NextTypeInv == TypeInv /\ [Next]_vars => TypeInv'
<1> SUFFICES ASSUME TypeInv, [Next]_vars PROVE TypeInv'
  OBVIOUS
<1> USE DEF TypeInv, TypeOK, OffsetsUsable, vars, image, header, cursor, bad
<1>1. ASSUME NEW k \in Keys, BeginRead(k) PROVE TypeInv'
  BY <1>1, KeysAssumption, SlotInSlots DEF BeginRead, StartFind, NoMeta, MetaInfo, Pending, Answer
<1>2. ASSUME NEW k \in Keys, BeginDelete(k) PROVE TypeInv'
  BY <1>2, KeysAssumption, SlotInSlots DEF BeginDelete, StartFind, NoMeta, MetaInfo, Pending, Answer
<1>3. ASSUME NEW k \in Keys, NEW size \in Sizes, BeginWrite(k, size) PROVE TypeInv'
  BY <1>3, KeysAssumption, SizesAssumption, SlotInSlots DEF BeginWrite, StartFind, NoMeta, MetaInfo, Pending, Answer
<1>4. CASE FindHit
  <2>1. CASE call.op = "write"
    BY <1>4, <2>1, ReturnTypes, NoMetaInMetaInfo DEF FindHit
  <2>2. CASE call.op # "write"
    BY <1>4, <2>2 DEF FindHit
  <2> QED
    BY <2>1, <2>2
<1>5. CASE FindNext
  BY SMTT(20), <1>5 DEF FindNext, MetaInfo, Key
<1>6. CASE FindMiss
  <2>1. CASE call.op = "write"
    BY <1>6, <2>1 DEF FindMiss, Goto
  <2>2. CASE call.op # "write"
    BY <1>6, <2>2, ReturnTypes, NoMetaInMetaInfo DEF FindMiss
  <2> QED
    BY <2>1, <2>2
<1>7. CASE FindFails
  BY SMTT(20), <1>7 DEF FindFails, IoFails, Return, Leave, Answer, NoMeta, NoCall, MetaInfo
<1>8. CASE AllocateReused
  <2>1. free_head_offset \in Nodes
    BY <1>8 DEF AllocateReused
  <2>2. nodes[free_head_offset].next \in Nodes \cup {Null}
    BY <2>1 DEF MetaInfo
  <2>3. lists' \in [Lists -> Seq(Nodes)]
    <3>1. FreeList \in Lists
      BY BucketSizeAssumption DEF FreeList, Lists
    <3>2. lists[FreeList] # << >> => Tail(lists[FreeList]) \in Seq(Nodes)
      BY <3>1
    <3> QED
      BY <1>8, <3>1, <3>2 DEF AllocateReused
  <2> QED
    BY <1>8, <2>1, <2>2, <2>3 DEF AllocateReused
<1>9. CASE AllocateNew
  BY <1>9 DEF AllocateNew
<1>10. CASE AllocateFails
  BY SMTT(20), <1>10 DEF AllocateFails, IoFails, Return, Leave, Answer, NoMeta, NoCall, MetaInfo
<1>11. CASE WriteNode
  <2>1. [call.meta EXCEPT !.next = Null] \in MetaInfo
    BY DEF MetaInfo
  <2>2. nodes' \in [Nodes -> MetaInfo]
    BY <1>11, <2>1 DEF WriteNode
  <2> QED
    BY <1>11, <2>2 DEF WriteNode, Goto
<1>12. CASE LinkNode
  <2>1. Key \in Nat /\ current_offset \in Nodes
    BY <1>12 DEF LinkNode, Key, MetaInfo
  <2>2. bucket_slot' \in [Slots -> Nodes \cup {Null}]
    BY <1>12, <2>1, SlotInSlots DEF LinkNode
  <2>3. nodes' \in [Nodes -> MetaInfo]
    <3>1. CASE previous_offset # Null
      <4>1. [nodes[previous_offset] EXCEPT !.next = current_offset] \in MetaInfo
        BY <2>1, <3>1 DEF MetaInfo
      <4>2. nodes' = [nodes EXCEPT ![previous_offset].next = current_offset]
        BY <1>12, <3>1 DEF LinkNode
      <4> QED
        BY <4>1, <4>2
    <3>2. CASE previous_offset = Null
      BY <1>12, <3>2 DEF LinkNode
    <3> QED
      BY <3>1, <3>2
  <2>4. lists' \in [Lists -> Seq(Nodes)]
    <3>1. Append(lists[Slot(Key)], current_offset) \in Seq(Nodes)
      BY <2>1, SlotInSlots
    <3> QED
      BY <1>12, <3>1 DEF LinkNode
  <2> QED
    BY <1>12, <2>2, <2>3, <2>4 DEF LinkNode, Goto
<1>13. CASE WriteNodeFails
  BY SMTT(20), <1>13 DEF WriteNodeFails, Rollback, IoFails, Return, Leave, Answer, NoMeta, NoCall, MetaInfo
<1>14. CASE LinkNodeFails
  BY SMTT(20), <1>14 DEF LinkNodeFails, Rollback, IoFails, Return, Leave, Answer, NoMeta, NoCall, MetaInfo
<1>15. CASE CommitDataOffset
  <2>1. call.meta.size \in Nat
    BY DEF MetaInfo
  <2> QED
    BY <1>15, <2>1 DEF CommitDataOffset, Goto
<1>16. CASE AccountInsert
  <2>1. call.meta.size \in Nat
    BY DEF MetaInfo
  <2> QED
    BY <1>16, <2>1, ReturnTypes, UpdateBlockInfoTypes, NoMetaInMetaInfo DEF AccountInsert
<1>17. CASE ReadNode
  BY <1>17 DEF ReadNode, Return, Leave, Answer, NoMeta, NoCall, MetaInfo
<1>18. CASE ReadNodeFails
  BY SMTT(20), <1>18 DEF ReadNodeFails, IoFails, Return, Leave, Answer, NoMeta, NoCall, MetaInfo
<1>19. CASE UnlinkNode
  <2>1. Key \in Nat /\ current_offset \in Nodes
    BY <1>19 DEF UnlinkNode, Key, MetaInfo
  <2>2. nodes[current_offset].next \in Nodes \cup {Null}
    BY <2>1 DEF MetaInfo
  <2>3. bucket_slot' \in [Slots -> Nodes \cup {Null}]
    BY <1>19, <2>1, <2>2, SlotInSlots DEF UnlinkNode
  <2>4. nodes' \in [Nodes -> MetaInfo]
    <3>1. CASE previous_offset # Null
      <4> DEFINE next == nodes[current_offset].next
      <4>1. [nodes[previous_offset] EXCEPT !.next = next] \in MetaInfo
        BY <2>2, <3>1 DEF MetaInfo
      <4>2. nodes' = [nodes EXCEPT ![previous_offset].next = next]
        BY <1>19, <3>1 DEF UnlinkNode
      <4> QED
        BY <4>1, <4>2
    <3>2. CASE previous_offset = Null
      BY <1>19, <3>2 DEF UnlinkNode
    <3> QED
      BY <3>1, <3>2
  <2>5. lists' \in [Lists -> Seq(Nodes)]
    <3>1. Without(lists[Slot(Key)], current_offset) \in Seq(Nodes)
      BY <2>1, SlotInSlots, WithoutInSeq
    <3> QED
      BY <1>19, <3>1 DEF UnlinkNode
  <2> QED
    BY <1>19, <2>1, <2>3, <2>4, <2>5 DEF UnlinkNode, Goto
<1>20. CASE UnlinkNodeFails
  <2>1. faults' = faults + 1
    BY <1>20 DEF UnlinkNodeFails, IoFails
  <2> QED
    BY <1>20, <2>1, ReturnTypes, NoMetaInMetaInfo DEF UnlinkNodeFails
<1>21. CASE ReleaseNode
  <2>1. current_offset \in Nodes
    BY <1>21 DEF ReleaseNode
  <2>2. [nodes[current_offset] EXCEPT !.next = free_head_offset] \in MetaInfo
    BY <2>1 DEF MetaInfo
  <2>3. nodes' = [nodes EXCEPT ![current_offset] = [nodes[current_offset] EXCEPT !.next = free_head_offset]]
    BY <1>21 DEF ReleaseNode
  <2>4. nodes' \in [Nodes -> MetaInfo]
    BY <2>2, <2>3
  <2> QED
    BY <1>21, <2>4 DEF ReleaseNode, Goto
<1>22. CASE ReleaseNodeFails
  BY SMTT(20), <1>22 DEF ReleaseNodeFails, IoFails, Return, Leave, Answer, NoMeta, NoCall, MetaInfo
<1>23. CASE PushFree
  <2>1. current_offset \in Nodes /\ FreeList \in Lists
    BY <1>23, BucketSizeAssumption DEF PushFree, FreeList, Lists
  <2>2. <<current_offset>> \o lists[FreeList] \in Seq(Nodes)
    BY <2>1
  <2>3. lists' \in [Lists -> Seq(Nodes)]
    BY <1>23, <2>2 DEF PushFree
  <2> QED
    BY <1>23, <2>1, <2>3 DEF PushFree, Goto
<1>24. CASE AccountDelete
  <2>1. nodes[current_offset].size \in Nat
    BY <1>24 DEF AccountDelete, MetaInfo
  <2> QED
    BY <1>24, <2>1, ReturnTypes, UpdateBlockInfoTypes, NoMetaInMetaInfo DEF AccountDelete
<1>25. CASE Crash
  BY SMTT(20), <1>25 DEF Crash, Leave, Pending, Answer, NoMeta, NoCall, MetaInfo
<1>26. CASE UNCHANGED vars
  BY <1>26
<1> QED
  BY <1>1, <1>2, <1>3, <1>4, <1>5, <1>6, <1>7, <1>8, <1>9, <1>10, <1>11, <1>12, <1>13,
     <1>14, <1>15, <1>16, <1>17, <1>18, <1>19, <1>20, <1>21, <1>22, <1>23, <1>24, <1>25, <1>26
  DEF Next, Begin, Step, Find, Insert, Delete

(* Every variable of the index keeps to its type, and no operation follows *)
(* an offset that starts no record (index_handle.cpp, all operations).     *)
THEOREM TypeCorrect == Spec => []TypeOK
<1>1. Spec => []TypeInv
  BY InitTypeInv, NextTypeInv, PTL DEF Spec
<1>2. TypeInv => TypeOK
  BY DEF TypeInv
<1> QED
  BY <1>1, <1>2, PTL

-----------------------------------------------------------------------------
(* The lists *)

(* What a list holds, where At and the typing of the lists meet. *)
LEMMA ListElements ==
  ASSUME TypeOK, NEW l \in Lists
  PROVE  /\ lists[l] \in Seq(Nodes)
         /\ Len(lists[l]) \in Nat
         /\ \A i \in 1 .. Len(lists[l]) : lists[l][i] \in Nodes
<1>1. lists[l] \in Seq(Nodes)
  BY DEF TypeOK
<1>2. Len(lists[l]) \in Nat
  BY <1>1
<1>3. \A i \in 1 .. Len(lists[l]) : lists[l][i] \in Nodes
  BY <1>1, ElementOfSeq
<1> QED
  BY <1>1, <1>2, <1>3

(* Offsets of records are positive, so that null is none of them. *)
LEMMA NodesFacts == Nodes \subseteq Int /\ Null \notin Nodes /\ \A n \in Nodes : n >= 1
BY BoundsAssumption DEF Nodes

(* The list of reusable records is no bucket. *)
LEMMA SlotFacts == Slots \subseteq Lists /\ FreeList \in Lists /\ FreeList \notin Slots
BY BucketSizeAssumption DEF Slots, Lists, FreeList

(* The key of a call has a bucket. *)
LEMMA KeyInNat == ASSUME TypeOK PROVE Key \in Nat /\ Slot(Key) \in Slots /\ Slot(Key) \in Lists
<1>1. Key \in Nat
  BY DEF TypeOK, Key, MetaInfo
<1> QED
  BY <1>1, SlotInSlots

(* FileInv speaks of the file and of the lists only. *)
LEMMA FileInvUnchanged ==
  ASSUME FileInv, UNCHANGED <<image, lists>>
  PROVE  FileInv'
<1>1. Represented'
  BY DEF FileInv, Represented, image, HeadOf, At
<1>2. Disjoint' /\ BelowEnd'
  BY DEF FileInv, Disjoint, BelowEnd, image
<1>3. Placed'
  BY DEF FileInv, Placed, image
<1> QED
  BY <1>1, <1>2, <1>3 DEF FileInv

(* A store into a record that is in no list leaves the lists as they are.  *)
LEMMA FileInvOutside ==
  ASSUME TypeOK, FileInv, NEW n,
         \A l \in Lists : \A i \in 1 .. Len(lists[l]) : lists[l][i] # n,
         \A m \in Nodes : m # n => nodes'[m] = nodes[m],
         UNCHANGED <<bucket_slot, index_file_size, free_head_offset, lists>>
  PROVE  FileInv'
<1>1. \A l \in Lists : \A i \in 1 .. Len(lists[l]) : nodes'[lists[l][i]] = nodes[lists[l][i]]
  BY ListElements
<1>2. Represented'
  <2>1. \A l \in Lists : HeadOf(l)' = At(lists[l], 1)
    BY DEF FileInv, Represented, HeadOf
  <2>2. \A l \in Lists : \A i \in 1 .. Len(lists[l]) :
          nodes'[lists[l][i]].next = At(lists[l], i + 1)
    BY <1>1 DEF FileInv, Represented
  <2> QED
    BY <2>1, <2>2 DEF Represented, HeadOf, At
<1>3. Disjoint' /\ BelowEnd'
  BY DEF FileInv, Disjoint, BelowEnd
<1>4. Placed'
  <2>1. \A s \in Slots : \A i \in 1 .. Len(lists[s]) : Slot(nodes'[lists[s][i]].key) = s
    BY <1>1, SlotFacts DEF FileInv, Placed
  <2>2. \A s, t \in Slots : \A i \in 1 .. Len(lists[s]), j \in 1 .. Len(lists[t]) :
          nodes'[lists[s][i]].key = nodes'[lists[t][j]].key => s = t /\ i = j
    BY SMTT(20), <1>1, SlotFacts DEF FileInv, Placed
  <2> QED
    BY <2>1, <2>2 DEF Placed
<1> QED
  BY <1>2, <1>3, <1>4 DEF FileInv

(* Once an operation has returned only the file matters. *)
LEMMA IdleListInv ==
  ASSUME FileInv', pc' \in {"idle", "commit", "account", "uncount"}
  PROVE  ListInv'
BY DEF ListInv, HandFree, Searched, Prepared

(* The lists of an empty index are empty. *)
LEMMA InitListInv == Init => ListInv
<1> SUFFICES ASSUME Init PROVE ListInv
  OBVIOUS
<1>1. \A l \in Lists : lists[l] = << >> /\ HeadOf(l) = Null
  BY SlotFacts DEF Init, HeadOf, Lists, Slots, FreeList
<1>2. FileInv
  BY <1>1, SlotFacts DEF Init, FileInv, Represented, Disjoint, BelowEnd, Placed, At
<1>3. pc = "idle"
  BY DEF Init
<1> QED
  BY <1>2, <1>3 DEF ListInv, HandFree, Searched, Prepared

-----------------------------------------------------------------------------
(* hash_find *)

(* hash_find starts before the first record of the chain of its bucket. *)
LEMMA StartFindListInv ==
  ASSUME TypeOK, FileInv, NEW op, NEW meta, meta.key \in Nat, StartFind(op, meta)
  PROVE  ListInv'
<1> DEFINE c == lists[Slot(meta.key)]
<1>1. FileInv'
  BY FileInvUnchanged DEF StartFind
<1>2. Slot(meta.key) \in Slots /\ Slot(meta.key) \in Lists /\ Slot(meta.key) # FreeList
  BY SlotInSlots
<1>3. bucket_slot[Slot(meta.key)] = At(c, 1)
  BY <1>2 DEF FileInv, Represented, HeadOf
<1>4. Key' = meta.key /\ Chain' = c
  BY DEF StartFind, Key, Chain
<1>5. pos' = At(Chain', 1) /\ previous_offset' = At(Chain', 0)
  BY <1>2, <1>3, <1>4 DEF StartFind, At
<1>6. 1 \in 1 .. Len(Chain') + 1
  BY <1>2, <1>4, ListElements
<1>7. Searched'
  <2>1. pc' = "find"
    BY DEF StartFind
  <2>2. NotIn(Chain, 0)'
    BY DEF NotIn
  <2> QED
    BY <1>5, <1>6, <2>1, <2>2 DEF Searched, At, NotIn
<1> QED
  BY <1>1, <1>7 DEF StartFind, ListInv, HandFree, Prepared

(* A hit leaves the cursor at the record of the key. *)
LEMMA FindHitListInv == ASSUME TypeOK, ListInv, FindHit PROVE ListInv'
<1>1. FileInv'
  BY FileInvUnchanged DEF FindHit, ListInv
<1>2. CASE call.op = "write"
  BY <1>1, <1>2, IdleListInv DEF FindHit, Return, Leave
<1>3. CASE call.op # "write"
  <2>1. PICK i \in 1 .. Len(Chain) + 1 :
          pos = At(Chain, i) /\ previous_offset = At(Chain, i - 1)
    BY DEF FindHit, ListInv, Searched
  <2>2. i \in 1 .. Len(Chain) /\ pos = Chain[i]
    BY <2>1 DEF FindHit, At
  <2>3. nodes[Chain[i]].key = Key
    BY <2>2 DEF FindHit
  <2>4. pc' = "found" /\ current_offset' = pos /\ UNCHANGED <<call, previous_offset, lists, nodes>>
    BY <1>3 DEF FindHit, image
  <2>5. Chain' = Chain /\ Key' = Key
    BY <2>4 DEF Chain, Key
  <2>6. Searched'
    BY <2>1, <2>2, <2>3, <2>4, <2>5 DEF Searched, At
  <2> QED
    BY <1>1, <2>4, <2>6 DEF ListInv, HandFree, Prepared
<1> QED
  BY <1>2, <1>3

(* A turn of the loop of hash_find moves the cursor one record along the chain. *)
LEMMA FindNextListInv == ASSUME TypeOK, ListInv, FindNext PROVE ListInv'
<1>1. FileInv'
  BY FileInvUnchanged DEF FindNext, ListInv
<1>2. PICK i \in 1 .. Len(Chain) + 1 : pos = At(Chain, i) /\ NotIn(Chain, i - 1)
  BY DEF FindNext, ListInv, Searched
<1>3. i \in 1 .. Len(Chain) /\ pos = Chain[i] /\ i + 1 \in 1 .. Len(Chain) + 1
  BY <1>2, KeyInNat, ListElements DEF FindNext, At, Chain
<1>4. nodes[Chain[i]].next = At(Chain, i + 1)
  BY <1>3, KeyInNat DEF ListInv, FileInv, Represented, Chain
<1>5. NotIn(Chain, i)
  BY <1>2, <1>3 DEF NotIn, FindNext
<1>6. /\ pc' = "find" /\ pos' = At(Chain, i + 1) /\ previous_offset' = At(Chain, i)
      /\ UNCHANGED <<call, lists, nodes>>
  BY <1>3, <1>4 DEF FindNext, image, At
<1>7. Chain' = Chain /\ Key' = Key
  BY <1>6 DEF Chain, Key
<1>8. NotIn(Chain, i)'
  BY <1>5, <1>6, <1>7 DEF NotIn
<1>9. (i + 1) - 1 = i
  BY <1>3
<1>10. Searched'
  BY <1>3, <1>6, <1>7, <1>8, <1>9 DEF Searched, At, NotIn
<1> QED
  BY <1>1, <1>6, <1>10 DEF ListInv, HandFree, Prepared

(* A miss leaves previous_offset at the last record of the chain. *)
LEMMA FindMissListInv == ASSUME TypeOK, ListInv, FindMiss PROVE ListInv'
<1>1. FileInv'
  BY FileInvUnchanged DEF FindMiss, ListInv
<1>2. CASE call.op # "write"
  BY <1>1, <1>2, IdleListInv DEF FindMiss, Return, Leave
<1>3. CASE call.op = "write"
  <2>1. PICK i \in 1 .. Len(Chain) + 1 :
          pos = At(Chain, i) /\ previous_offset = At(Chain, i - 1) /\ NotIn(Chain, i - 1)
    BY DEF FindMiss, ListInv, Searched
  <2>2. i = Len(Chain) + 1
    BY <2>1, KeyInNat, ListElements, NodesFacts DEF FindMiss, At, Chain
  <2>3. Len(Chain) \in Nat
    BY KeyInNat, ListElements DEF Chain
  <2>4. previous_offset = At(Chain, Len(Chain)) /\ NotIn(Chain, Len(Chain))
    BY <2>1, <2>2, <2>3
  <2>5. pc' = "allocate" /\ UNCHANGED <<call, previous_offset, lists, nodes>>
    BY <1>3 DEF FindMiss, Goto, image, cursor
  <2>6. Chain' = Chain /\ Key' = Key
    BY <2>5 DEF Chain, Key
  <2>7. Searched'
    BY <2>4, <2>5, <2>6 DEF Searched, NotIn, At
  <2> QED
    BY <1>1, <2>5, <2>7 DEF ListInv, HandFree, Prepared
<1> QED
  BY <1>2, <1>3

-----------------------------------------------------------------------------
(* hash_insert *)

(* hash_insert takes the head off the list of reusable records. *)
LEMMA AllocateReusedListInv ==
  ASSUME TypeOK, ListInv, AllocateReused
  PROVE  ListInv'
<1> DEFINE F == lists[FreeList]
<1>1. /\ F \in Seq(Nodes) /\ Len(F) \in Nat /\ \A i \in 1 .. Len(F) : F[i] \in Nodes
      /\ free_head_offset = At(F, 1)
      /\ \A i \in 1 .. Len(F) : nodes[F[i]].next = At(F, i + 1)
  BY SlotFacts, ListElements DEF ListInv, FileInv, Represented, HeadOf
<1>2. 1 \in 1 .. Len(F) /\ free_head_offset = F[1] /\ F # << >>
  BY <1>1 DEF AllocateReused, At
<1>3. /\ Tail(F) \in Seq(Nodes) /\ Len(Tail(F)) = Len(F) - 1
      /\ \A i \in 1 .. Len(F) - 1 : Tail(F)[i] = F[i + 1]
  BY <1>1, <1>2, HeadTailProperties
<1>4. /\ lists' = [lists EXCEPT ![FreeList] = Tail(F)]
      /\ current_offset' = F[1] /\ free_head_offset' = nodes[F[1]].next /\ pc' = "write"
      /\ UNCHANGED <<bucket_slot, nodes, index_file_size, call, previous_offset>>
  BY <1>2 DEF AllocateReused
<1>5. lists'[FreeList] = Tail(F) /\ \A l \in Lists : l # FreeList => lists'[l] = lists[l]
  BY <1>4, SlotFacts DEF TypeOK
<1>6. Represented'
  <2>1. ASSUME NEW l \in Lists, l # FreeList
        PROVE  /\ HeadOf(l)' = At(lists'[l], 1)
               /\ \A i \in 1 .. Len(lists'[l]) : nodes'[lists'[l][i]].next = At(lists'[l], i + 1)
    BY <2>1, <1>4, <1>5 DEF ListInv, FileInv, Represented, HeadOf
  <2>2. free_head_offset' = At(Tail(F), 1)
    BY <1>1, <1>2, <1>3, <1>4 DEF At
  <2>3. \A i \in 1 .. Len(Tail(F)) : nodes[Tail(F)[i]].next = At(Tail(F), i + 1)
    <3> SUFFICES ASSUME NEW i \in 1 .. Len(Tail(F))
                 PROVE  nodes[Tail(F)[i]].next = At(Tail(F), i + 1)
      OBVIOUS
    <3>1. i + 1 \in 1 .. Len(F) /\ Tail(F)[i] = F[i + 1]
      BY <1>1, <1>3
    <3>2. nodes[F[i + 1]].next = At(F, (i + 1) + 1)
      BY <1>1, <3>1
    <3>3. At(F, (i + 1) + 1) = At(Tail(F), i + 1)
      BY <1>1, <1>3 DEF At
    <3> QED
      BY <3>1, <3>2, <3>3
  <2>4. HeadOf(FreeList)' = At(lists'[FreeList], 1)
    BY <1>5, <2>2 DEF HeadOf
  <2>5. \A l \in Lists :
           /\ HeadOf(l)' = At(lists'[l], 1)
           /\ \A i \in 1 .. Len(lists'[l]) : nodes'[lists'[l][i]].next = At(lists'[l], i + 1)
    BY <1>4, <1>5, <2>1, <2>3, <2>4
  <2> QED
    BY <2>5 DEF Represented, At, HeadOf
<1>7. \A l \in Lists : \A i \in 1 .. Len(lists'[l]) :
        IF l = FreeList THEN i + 1 \in 1 .. Len(F) /\ lists'[l][i] = F[i + 1]
                        ELSE i \in 1 .. Len(lists[l]) /\ lists'[l][i] = lists[l][i]
  <2>1. ASSUME NEW l \in Lists, l = FreeList, NEW i \in 1 .. Len(lists'[l])
        PROVE  i + 1 \in 1 .. Len(F) /\ lists'[l][i] = F[i + 1]
    BY <2>1, <1>1, <1>3, <1>5
  <2>2. ASSUME NEW l \in Lists, l # FreeList, NEW i \in 1 .. Len(lists'[l])
        PROVE  i \in 1 .. Len(lists[l]) /\ lists'[l][i] = lists[l][i]
    BY <2>2, <1>5
  <2> QED
    BY <2>1, <2>2
<1>8. Disjoint'
  <2> SUFFICES ASSUME NEW l \in Lists, NEW m \in Lists, NEW i \in 1 .. Len(lists'[l]),
                      NEW j \in 1 .. Len(lists'[m]), lists'[l][i] = lists'[m][j]
               PROVE  l = m /\ i = j
    BY DEF Disjoint
  <2> DEFINE p == IF l = FreeList THEN i + 1 ELSE i
             q == IF m = FreeList THEN j + 1 ELSE j
  <2>1. p \in 1 .. Len(lists[l]) /\ lists'[l][i] = lists[l][p]
    BY <1>7
  <2>2. q \in 1 .. Len(lists[m]) /\ lists'[m][j] = lists[m][q]
    BY <1>7
  <2>3. l = m /\ p = q
    <3> HIDE DEF p, q
    <3>1. lists[l][p] = lists[m][q]
      BY <2>1, <2>2
    <3> QED
      BY <2>1, <2>2, <3>1 DEF ListInv, FileInv, Disjoint
  <2> QED
    BY <2>3
<1>9. BelowEnd'
  BY <1>4, <1>7, SlotFacts DEF ListInv, FileInv, BelowEnd
<1>10. \A s \in Slots : lists'[s] = lists[s]
  BY <1>5, SlotFacts
<1>11. Placed'
  BY SMTT(20), <1>4, <1>10 DEF ListInv, FileInv, Placed
<1>12. HandFree'
  <2>1. F[1] < index_file_size
    BY <1>2, SlotFacts DEF ListInv, FileInv, BelowEnd
  <2>2. \A l \in Lists : \A i \in 1 .. Len(lists'[l]) : lists'[l][i] # F[1]
    <3> SUFFICES ASSUME NEW l \in Lists, NEW i \in 1 .. Len(lists'[l])
                 PROVE  lists'[l][i] # F[1]
      OBVIOUS
    <3> DEFINE p == IF l = FreeList THEN i + 1 ELSE i
    <3>1. p \in 1 .. Len(lists[l]) /\ lists'[l][i] = lists[l][p]
      BY <1>7
    <3>2. lists[l][p] = lists[FreeList][1] => l = FreeList /\ p = 1
      BY <1>2, <3>1, SlotFacts DEF ListInv, FileInv, Disjoint
    <3> QED
      BY <3>1, <3>2
  <2> QED
    BY <1>4, <2>1, <2>2 DEF HandFree
<1>13. Chain' = Chain /\ Key' = Key
  BY <1>4, <1>10, KeyInNat DEF Chain, Key
<1>14. Searched'
  BY <1>4, <1>13 DEF AllocateReused, ListInv, Searched, NotIn, At
<1> QED
  BY <1>4, <1>6, <1>8, <1>9, <1>11, <1>12, <1>14 DEF ListInv, FileInv, Prepared

(* hash_insert takes the first record past all records in use. *)
LEMMA AllocateNewListInv == ASSUME TypeOK, ListInv, AllocateNew PROVE ListInv'
<1>1. /\ current_offset' = index_file_size /\ index_file_size' = index_file_size + 1
      /\ pc' = "write"
      /\ UNCHANGED <<bucket_slot, nodes, free_head_offset, call, previous_offset, lists>>
  BY DEF AllocateNew
<1>2. Represented' /\ Disjoint'
  BY <1>1 DEF ListInv, FileInv, Represented, Disjoint, HeadOf, At
<1>3. BelowEnd' /\ HandFree'
  <2>1. index_file_size \in Int
    BY DEF TypeOK
  <2>2. \A l \in Lists : \A i \in 1 .. Len(lists[l]) :
          lists[l][i] < index_file_size + 1 /\ lists[l][i] # index_file_size
    <3> SUFFICES ASSUME NEW l \in Lists, NEW i \in 1 .. Len(lists[l])
                 PROVE  lists[l][i] < index_file_size + 1 /\ lists[l][i] # index_file_size
      OBVIOUS
    <3>1. lists[l][i] \in Int
      BY ListElements, NodesFacts
    <3>2. lists[l][i] < index_file_size
      BY DEF ListInv, FileInv, BelowEnd
    <3> QED
      BY <2>1, <3>1, <3>2
  <2>3. BelowEnd'
    BY <1>1, <2>1, <2>2 DEF ListInv, FileInv, BelowEnd
  <2>4. HandFree'
    BY <1>1, <2>1, <2>2 DEF HandFree
  <2> QED
    BY <2>3, <2>4
<1>4. Placed'
  BY <1>1 DEF ListInv, FileInv, Placed
<1>5. Chain' = Chain /\ Key' = Key
  BY <1>1 DEF Chain, Key
<1>6. Searched'
  BY <1>1, <1>5 DEF AllocateNew, ListInv, Searched, NotIn, At
<1> QED
  BY <1>1, <1>2, <1>3, <1>4, <1>6 DEF ListInv, FileInv, Prepared

(* The new record is written before anything points to it. *)
LEMMA WriteNodeListInv == ASSUME TypeInv, ListInv, WriteNode PROVE ListInv'
<1> USE DEF TypeInv
<1>1. /\ nodes' = [nodes EXCEPT ![current_offset] = [call.meta EXCEPT !.next = Null]]
      /\ pc = "write" /\ pc' = "link"
      /\ UNCHANGED <<bucket_slot, index_file_size, free_head_offset, call, previous_offset,
                     current_offset, lists>>
  BY DEF WriteNode, Goto, cursor
<1>2. \A l \in Lists : \A i \in 1 .. Len(lists[l]) : lists[l][i] # current_offset
  BY <1>1 DEF ListInv, HandFree
<1>3. \A m \in Nodes : m # current_offset => nodes'[m] = nodes[m]
  BY <1>1 DEF TypeOK
<1>4. FileInv'
  BY <1>1, <1>2, <1>3, FileInvOutside DEF ListInv
<1>5. nodes'[current_offset] = [call.meta EXCEPT !.next = Null]
  BY <1>1 DEF TypeOK, OffsetsUsable
<1>6. Chain' = Chain /\ Key' = Key
  BY <1>1 DEF Chain, Key
<1>7. \A i \in 1 .. Len(Chain) : nodes'[Chain[i]] = nodes[Chain[i]]
  BY <1>2, <1>3, KeyInNat, ListElements DEF Chain
<1>8. Searched'
  BY <1>1, <1>6, <1>7 DEF ListInv, Searched, NotIn, At
<1>9. HandFree' /\ Prepared'
  BY <1>1, <1>5 DEF ListInv, HandFree, Prepared
<1> QED
  BY <1>4, <1>8, <1>9 DEF ListInv

(* hash_insert appends the record to the chain of its bucket. *)
LEMMA LinkNodeListInv == ASSUME TypeInv, ListInv, LinkNode PROVE ListInv'
<1> USE DEF TypeInv
<1> DEFINE c == lists[Slot(Key)]
           n == current_offset
<1>1. /\ Slot(Key) \in Slots /\ Slot(Key) \in Lists /\ Slot(Key) # FreeList
      /\ c \in Seq(Nodes) /\ Len(c) \in Nat /\ \A i \in 1 .. Len(c) : c[i] \in Nodes
  BY KeyInNat, SlotFacts, ListElements
<1>2. n \in Nodes /\ nodes[n].next = Null /\ nodes[n].key = Key
  BY DEF LinkNode, TypeOK, OffsetsUsable, ListInv, Prepared, MetaInfo, Key
<1>3. n < index_file_size /\ \A l \in Lists : \A i \in 1 .. Len(lists[l]) : lists[l][i] # n
  BY DEF LinkNode, ListInv, HandFree
<1>4. previous_offset = At(c, Len(c)) /\ \A j \in 1 .. Len(c) : nodes[c[j]].key # Key
  BY DEF LinkNode, ListInv, Searched, NotIn, Chain
<1>5. /\ Len(Append(c, n)) = Len(c) + 1
      /\ \A i \in 1 .. Len(c) : Append(c, n)[i] = c[i]
      /\ Append(c, n)[Len(c) + 1] = n
  BY <1>1, <1>2, AppendProperties
<1>6. lists'[Slot(Key)] = Append(c, n) /\ \A l \in Lists : l # Slot(Key) => lists'[l] = lists[l]
  BY <1>1 DEF LinkNode, TypeOK
<1>7. pc' = "commit" /\ UNCHANGED <<index_file_size, free_head_offset>>
  BY DEF LinkNode, Goto
<1>8. /\ \A m \in Nodes : /\ nodes'[m].key = nodes[m].key
                          /\ m # previous_offset => nodes'[m].next = nodes[m].next
      /\ previous_offset # Null => nodes'[previous_offset].next = n
  <2>1. CASE previous_offset # Null
    <3>1. previous_offset \in Nodes /\ nodes[previous_offset] \in MetaInfo
      BY <2>1 DEF TypeOK
    <3>2. nodes' = [nodes EXCEPT ![previous_offset].next = n]
      BY <2>1 DEF LinkNode
    <3> QED
      BY <3>1, <3>2 DEF TypeOK, MetaInfo
  <2>2. CASE previous_offset = Null
    BY <2>2 DEF LinkNode
  <2> QED
    BY <2>1, <2>2
<1>9. \A s \in Slots : bucket_slot'[s] = IF s = Slot(Key) /\ previous_offset = Null
                                         THEN n ELSE bucket_slot[s]
  BY <1>1 DEF LinkNode, TypeOK
<1> HIDE DEF c, n
<1>10. \A l \in Lists : \A i \in 1 .. Len(lists'[l]) :
         \/ i \in 1 .. Len(lists[l]) /\ lists'[l][i] = lists[l][i]
         \/ l = Slot(Key) /\ i = Len(c) + 1 /\ lists'[l][i] = n
  <2>1. ASSUME NEW l \in Lists, l # Slot(Key), NEW i \in 1 .. Len(lists'[l])
        PROVE  i \in 1 .. Len(lists[l]) /\ lists'[l][i] = lists[l][i]
    BY <2>1, <1>6
  <2>2. ASSUME NEW i \in 1 .. Len(c) + 1
        PROVE  \/ i \in 1 .. Len(c) /\ Append(c, n)[i] = c[i]
               \/ i = Len(c) + 1 /\ Append(c, n)[i] = n
    BY <1>1, <1>5
  <2> QED
    BY <2>1, <2>2, <1>5, <1>6 DEF c
<1>11. Disjoint'
  <2> SUFFICES ASSUME NEW l \in Lists, NEW m \in Lists, NEW i \in 1 .. Len(lists'[l]),
                      NEW j \in 1 .. Len(lists'[m]), lists'[l][i] = lists'[m][j]
               PROVE  l = m /\ i = j
    BY DEF Disjoint
  <2>1. CASE i \in 1 .. Len(lists[l]) /\ lists'[l][i] = lists[l][i]
             /\ j \in 1 .. Len(lists[m]) /\ lists'[m][j] = lists[m][j]
    <3>1. lists[l][i] = lists[m][j]
      BY <2>1
    <3> QED
      BY <2>1, <3>1 DEF ListInv, FileInv, Disjoint
  <2> QED
    BY <2>1, <1>3, <1>10
<1>12. BelowEnd'
  BY <1>3, <1>7, <1>10 DEF ListInv, FileInv, BelowEnd
<1>13. Placed'
  <2>1. \A s \in Slots : \A i \in 1 .. Len(lists[s]) :
          nodes'[lists[s][i]].key = nodes[lists[s][i]].key /\ Slot(nodes[lists[s][i]].key) = s
    BY <1>8, SlotFacts, ListElements DEF ListInv, FileInv, Placed
  <2>2. nodes'[n].key = Key
    BY <1>2, <1>8 DEF n
  <2>3. \A s \in Slots : \A i \in 1 .. Len(lists[s]) : nodes[lists[s][i]].key # Key
    BY <1>4, <2>1 DEF c
  <2>4. ASSUME NEW s \in Slots, NEW i \in 1 .. Len(lists'[s])
        PROVE  Slot(nodes'[lists'[s][i]].key) = s
    BY <1>10, <2>1, <2>2, SlotFacts
  <2>5. ASSUME NEW s \in Slots, NEW t \in Slots, NEW i \in 1 .. Len(lists'[s]),
               NEW j \in 1 .. Len(lists'[t]), nodes'[lists'[s][i]].key = nodes'[lists'[t][j]].key
        PROVE  s = t /\ i = j
    <3>1. CASE i \in 1 .. Len(lists[s]) /\ lists'[s][i] = lists[s][i]
               /\ j \in 1 .. Len(lists[t]) /\ lists'[t][j] = lists[t][j]
      BY <2>1, <2>5, <3>1 DEF ListInv, FileInv, Placed
    <3>2. CASE /\ i \in 1 .. Len(lists[s]) /\ lists'[s][i] = lists[s][i]
               /\ t = Slot(Key) /\ j = Len(c) + 1 /\ lists'[t][j] = n
      BY <2>1, <2>2, <2>3, <2>5, <3>2
    <3>3. CASE /\ j \in 1 .. Len(lists[t]) /\ lists'[t][j] = lists[t][j]
               /\ s = Slot(Key) /\ i = Len(c) + 1 /\ lists'[s][i] = n
      BY <2>1, <2>2, <2>3, <2>5, <3>3
    <3>4. s \in Lists /\ t \in Lists
      BY SlotFacts
    <3> QED
      BY <1>10, <3>1, <3>2, <3>3, <3>4
  <2> QED
    BY <2>4, <2>5 DEF Placed
<1>14. Represented'
  <2>1. ASSUME NEW l \in Lists, l # Slot(Key)
        PROVE  /\ HeadOf(l)' = At(lists'[l], 1)
               /\ \A i \in 1 .. Len(lists'[l]) : nodes'[lists'[l][i]].next = At(lists'[l], i + 1)
    <3>1. HeadOf(l)' = HeadOf(l)
      <4>1. CASE l = FreeList
        BY <4>1, <1>7 DEF HeadOf
      <4>2. CASE l # FreeList
        <5>1. l \in Slots
          BY <4>2, BucketSizeAssumption DEF Lists, Slots, FreeList
        <5> QED
          BY <2>1, <4>2, <5>1, <1>9 DEF HeadOf
      <4> QED
        BY <4>1, <4>2
    <3>2. \A i \in 1 .. Len(lists[l]) : lists[l][i] # previous_offset
      BY <2>1, <1>1, <1>4, ListElements, NodesFacts DEF ListInv, FileInv, Disjoint, At, c
    <3>3. \A i \in 1 .. Len(lists[l]) : nodes'[lists[l][i]].next = nodes[lists[l][i]].next
      BY <3>2, <1>8, ListElements
    <3> QED
      BY <2>1, <3>1, <3>3, <1>6 DEF ListInv, FileInv, Represented
  <2>2. bucket_slot'[Slot(Key)] = At(Append(c, n), 1)
    <3>1. bucket_slot[Slot(Key)] = At(c, 1)
      BY <1>1 DEF ListInv, FileInv, Represented, HeadOf, c
    <3>2. CASE Len(c) = 0
      <4>1. previous_offset = Null
        BY <3>2, <1>4 DEF At
      <4> QED
        BY <3>2, <4>1, <1>1, <1>5, <1>9 DEF At
    <3>3. CASE Len(c) # 0
      <4>1. Len(c) \in 1 .. Len(c) /\ 1 \in 1 .. Len(c)
        BY <3>3, <1>1
      <4>2. previous_offset # Null
        BY <4>1, <1>1, <1>4, NodesFacts DEF At
      <4>3. At(Append(c, n), 1) = c[1] /\ At(c, 1) = c[1]
        BY <4>1, <1>1, <1>5 DEF At
      <4> QED
        BY <3>1, <4>2, <4>3, <1>1, <1>9
    <3> QED
      BY <3>2, <3>3
  <2>3. ASSUME NEW i \in 1 .. Len(Append(c, n))
        PROVE  nodes'[Append(c, n)[i]].next = At(Append(c, n), i + 1)
    <3>1. CASE i = Len(c) + 1
      <4>1. n # previous_offset
        BY <1>1, <1>2, <1>3, <1>4, NodesFacts DEF At, c, n
      <4>2. nodes'[n].next = Null
        BY <4>1, <1>2, <1>8 DEF n
      <4> QED
        BY <3>1, <4>2, <1>1, <1>5 DEF At
    <3>2. CASE i = Len(c) /\ i \in 1 .. Len(c)
      <4>1. previous_offset = c[i]
        BY <3>2, <1>4 DEF At
      <4> QED
        BY <3>2, <4>1, <1>1, <1>5, <1>8, NodesFacts DEF At
    <3>3. CASE i \in 1 .. Len(c) - 1
      <4>1. i \in 1 .. Len(c) /\ i + 1 \in 1 .. Len(c) /\ Len(c) \in 1 .. Len(c) /\ i # Len(c)
        BY <3>3, <1>1
      <4>2. c[i] # c[Len(c)]
        BY <4>1, <1>1 DEF ListInv, FileInv, Disjoint, c
      <4>3. nodes'[c[i]].next = nodes[c[i]].next
        BY <4>1, <4>2, <1>1, <1>4, <1>8 DEF At
      <4>4. nodes[c[i]].next = c[i + 1]
        BY <4>1, <1>1 DEF ListInv, FileInv, Represented, At, c
      <4> QED
        BY <4>1, <4>3, <4>4, <1>1, <1>5 DEF At
    <3> QED
      BY <3>1, <3>2, <3>3, <1>1, <1>5
  <2>4. \A l \in Lists :
           /\ HeadOf(l)' = At(lists'[l], 1)
           /\ \A i \in 1 .. Len(lists'[l]) : nodes'[lists'[l][i]].next = At(lists'[l], i + 1)
    <3>1. ASSUME NEW l \in Lists, l = Slot(Key)
          PROVE  HeadOf(l)' = At(lists'[l], 1)
      BY <3>1, <2>2, <1>1, <1>6 DEF HeadOf
    <3> QED
      BY <3>1, <2>1, <2>3, <1>6
  <2> QED
    BY <2>4 DEF Represented, HeadOf, At
<1> QED
  BY <1>7, <1>11, <1>12, <1>13, <1>14, IdleListInv DEF FileInv

(* A rollback that gives back the last record of the file. *)
LEMMA RollbackListInv ==
  ASSUME TypeInv, ListInv, pc \in {"write", "link"}, Rollback, ~misrolled'
  PROVE  ListInv'
<1> USE DEF TypeInv
<1>1. current_offset = index_file_size - 1 /\ index_file_size' = index_file_size - 1
  BY DEF Rollback
<1>2. pc' = "idle" /\ UNCHANGED <<bucket_slot, nodes, free_head_offset, lists>>
  BY DEF Rollback, Return, Leave
<1>3. index_file_size \in Int /\ current_offset \in Nodes
  BY DEF TypeOK, OffsetsUsable
<1>4. ASSUME NEW l \in Lists, NEW i \in 1 .. Len(lists[l])
      PROVE  lists[l][i] < index_file_size - 1
  <2>1. lists[l][i] \in Int
    BY ListElements, NodesFacts
  <2>2. lists[l][i] < index_file_size /\ lists[l][i] # current_offset
    BY DEF ListInv, FileInv, BelowEnd, HandFree
  <2> QED
    BY <1>1, <1>3, <2>1, <2>2
<1>5. BelowEnd'
  BY <1>1, <1>2, <1>3, <1>4, NodesFacts DEF BelowEnd
<1>6. Represented' /\ Disjoint' /\ Placed'
  BY <1>2 DEF ListInv, FileInv, Represented, Disjoint, Placed, HeadOf, At
<1> QED
  BY <1>2, <1>5, <1>6, IdleListInv DEF FileInv

-----------------------------------------------------------------------------
(* delete_segment_meta *)

(* What is left of a list when the record at one place is taken out. *)
LEMMA WithoutElements ==
  ASSUME NEW S, NEW s \in Seq(S), NEW i \in 1 .. Len(s),
         \A j \in 1 .. Len(s) : s[j] = s[i] => j = i
  PROVE  /\ Len(Without(s, s[i])) = Len(s) - 1
         /\ \A j \in 1 .. Len(s) - 1 :
              Without(s, s[i])[j] = IF j < i THEN s[j] ELSE s[j + 1]
<1>1. (CHOOSE k \in 1 .. Len(s) : s[k] = s[i]) = i
  OBVIOUS
<1>2. Without(s, s[i]) = [j \in 1 .. Len(s) - 1 |-> IF j < i THEN s[j] ELSE s[j + 1]]
  BY <1>1 DEF Without
<1>3. Without(s, s[i]) \in Seq(S)
  BY WithoutInSeq
<1>4. Len(s) \in Nat /\ Len(s) - 1 \in Nat
  OBVIOUS
<1>5. DOMAIN Without(s, s[i]) = 1 .. Len(s) - 1
  BY <1>2
<1>6. Len(Without(s, s[i])) = Len(s) - 1
  BY <1>3, <1>4, <1>5, LenProperties
<1> QED
  BY <1>2, <1>6

(* delete_segment_meta takes the record out of its chain. *)
LEMMA UnlinkNodeListInv == ASSUME TypeInv, ListInv, UnlinkNode PROVE ListInv'
<1> USE DEF TypeInv
<1> DEFINE c == lists[Slot(Key)]
           n == current_offset
           w == Without(c, n)
<1>1. /\ Slot(Key) \in Slots /\ Slot(Key) \in Lists /\ Slot(Key) # FreeList
      /\ c \in Seq(Nodes) /\ Len(c) \in Nat /\ \A j \in 1 .. Len(c) : c[j] \in Nodes
  BY KeyInNat, SlotFacts, ListElements
<1>2. PICK i \in 1 .. Len(c) : n = c[i] /\ previous_offset = At(c, i - 1)
  BY DEF UnlinkNode, ListInv, Searched, Chain
<1>3. \A j, k \in 1 .. Len(c) : c[j] = c[k] => j = k
  BY <1>1 DEF ListInv, FileInv, Disjoint
<1>4. Len(w) = Len(c) - 1
      /\ \A j \in 1 .. Len(c) - 1 : w[j] = IF j < i THEN c[j] ELSE c[j + 1]
  BY <1>1, <1>2, <1>3, WithoutElements
<1>5. \A j \in 1 .. Len(c) : nodes[c[j]].next = At(c, j + 1)
  BY <1>1 DEF ListInv, FileInv, Represented
<1>6. lists'[Slot(Key)] = w /\ \A l \in Lists : l # Slot(Key) => lists'[l] = lists[l]
  BY <1>1 DEF UnlinkNode, TypeOK
<1>7. /\ pc' = "release"
      /\ UNCHANGED <<index_file_size, free_head_offset, current_offset>>
  BY DEF UnlinkNode, Goto, cursor
<1>8. /\ \A m \in Nodes : /\ nodes'[m].key = nodes[m].key
                          /\ m # previous_offset => nodes'[m].next = nodes[m].next
      /\ previous_offset # Null => nodes'[previous_offset].next = At(c, i + 1)
  <2>1. CASE previous_offset # Null
    <3>1. previous_offset \in Nodes /\ nodes[previous_offset] \in MetaInfo
      BY <2>1 DEF TypeOK
    <3>2. nodes' = [nodes EXCEPT ![previous_offset].next = nodes[n].next]
      BY <2>1 DEF UnlinkNode
    <3> QED
      BY <3>1, <3>2, <1>2, <1>5 DEF TypeOK, MetaInfo
  <2>2. CASE previous_offset = Null
    BY <2>2 DEF UnlinkNode
  <2> QED
    BY <2>1, <2>2
<1>9. \A s \in Slots : bucket_slot'[s] = IF s = Slot(Key) /\ previous_offset = Null
                                         THEN At(c, i + 1) ELSE bucket_slot[s]
  BY <1>1, <1>2, <1>5 DEF UnlinkNode, TypeOK
<1> HIDE DEF c, n, w
<1> DEFINE p(j) == IF j < i THEN j ELSE j + 1
<1>10. \A j \in 1 .. Len(w) : p(j) \in 1 .. Len(c) /\ p(j) # i /\ w[j] = c[p(j)]
  BY <1>1, <1>4
<1>11. \A j, k \in 1 .. Len(w) : p(j) = p(k) => j = k
  BY <1>1, <1>4
<1> HIDE DEF p
<1>12. \A l \in Lists : \A j \in 1 .. Len(lists'[l]) :
         \/ l # Slot(Key) /\ j \in 1 .. Len(lists[l]) /\ lists'[l][j] = lists[l][j]
         \/ l = Slot(Key) /\ j \in 1 .. Len(w) /\ lists'[l][j] = lists[l][p(j)]
                         /\ p(j) \in 1 .. Len(lists[l]) /\ p(j) # i
  BY <1>6, <1>10 DEF c
<1>13. \A l \in Lists : \A j \in 1 .. Len(lists'[l]) :
         \E q \in 1 .. Len(lists[l]) : lists'[l][j] = lists[l][q]
  BY <1>12
<1>14. Disjoint'
  <2> SUFFICES ASSUME NEW l \in Lists, NEW m \in Lists, NEW j \in 1 .. Len(lists'[l]),
                      NEW k \in 1 .. Len(lists'[m]), lists'[l][j] = lists'[m][k]
               PROVE  l = m /\ j = k
    BY DEF Disjoint
  <2>1. l = m
    BY <1>13 DEF ListInv, FileInv, Disjoint
  <2>2. CASE l # Slot(Key)
    BY <2>1, <2>2, <1>12 DEF ListInv, FileInv, Disjoint
  <2>3. CASE l = Slot(Key)
    <3>1. p(j) = p(k)
      BY SMTT(20), <2>1, <2>3, <1>12 DEF ListInv, FileInv, Disjoint
    <3> QED
      BY <2>1, <2>3, <3>1, <1>11, <1>12
  <2> QED
    BY <2>1, <2>2, <2>3
<1>15. BelowEnd'
  BY <1>7, <1>13 DEF ListInv, FileInv, BelowEnd
<1>16. HandFree'
  <2>1. n < index_file_size
    BY <1>1, <1>2 DEF ListInv, FileInv, BelowEnd, c
  <2>2. ASSUME NEW l \in Lists, NEW j \in 1 .. Len(lists'[l])
        PROVE  lists'[l][j] # n
    <3>1. n = lists[Slot(Key)][i] /\ i \in 1 .. Len(lists[Slot(Key)])
      BY <1>2 DEF c
    <3>2. CASE l # Slot(Key)
      BY <3>1, <3>2, <1>1, <1>12 DEF ListInv, FileInv, Disjoint
    <3>3. CASE l = Slot(Key)
      <4>1. lists'[l][j] = lists[l][p(j)] /\ p(j) \in 1 .. Len(lists[l]) /\ p(j) # i
        BY <3>3, <1>12
      <4>2. \A q \in 1 .. Len(lists[l]) : lists[l][q] = lists[l][i] => q = i
        BY <3>1, <3>3 DEF ListInv, FileInv, Disjoint
      <4> QED
        BY <3>1, <3>3, <4>1, <4>2
    <3> QED
      BY <3>2, <3>3
  <2> QED
    BY <1>7, <2>1, <2>2 DEF HandFree, n
<1>17. Placed'
  <2>1. \A s \in Slots : \A j \in 1 .. Len(lists[s]) :
          nodes'[lists[s][j]].key = nodes[lists[s][j]].key /\ Slot(nodes[lists[s][j]].key) = s
    BY <1>8, SlotFacts, ListElements DEF ListInv, FileInv, Placed
  <2>2. ASSUME NEW s \in Slots, NEW j \in 1 .. Len(lists'[s])
        PROVE  Slot(nodes'[lists'[s][j]].key) = s
    BY <1>13, <2>1, SlotFacts
  <2>3. ASSUME NEW s \in Slots, NEW t \in Slots, NEW j \in 1 .. Len(lists'[s]),
               NEW k \in 1 .. Len(lists'[t]), nodes'[lists'[s][j]].key = nodes'[lists'[t][k]].key
        PROVE  s = t /\ j = k
    <3>1. PICK q \in 1 .. Len(lists[s]), r \in 1 .. Len(lists[t]) :
            lists'[s][j] = lists[s][q] /\ lists'[t][k] = lists[t][r]
      BY ZenonT(30), <1>13, SlotFacts
    <3>2. nodes[lists[s][q]].key = nodes[lists[t][r]].key
      BY <2>1, <2>3, <3>1
    <3>3. s = t /\ q = r
      BY <3>2 DEF ListInv, FileInv, Placed
    <3>4. lists'[s][j] = lists'[t][k]
      BY <3>1, <3>3
    <3> QED
      BY <3>3, <3>4, <1>14, SlotFacts DEF Disjoint
  <2> QED
    BY <2>2, <2>3 DEF Placed
<1>18. Represented'
  <2>1. ASSUME NEW l \in Lists, l # Slot(Key)
        PROVE  /\ HeadOf(l)' = At(lists'[l], 1)
               /\ \A j \in 1 .. Len(lists'[l]) : nodes'[lists'[l][j]].next = At(lists'[l], j + 1)
    <3>1. HeadOf(l)' = HeadOf(l)
      <4>1. CASE l = FreeList
        BY <4>1, <1>7 DEF HeadOf
      <4>2. CASE l # FreeList
        <5>1. l \in Slots
          BY <4>2, BucketSizeAssumption DEF Lists, Slots, FreeList
        <5> QED
          BY <2>1, <4>2, <5>1, <1>9 DEF HeadOf
      <4> QED
        BY <4>1, <4>2
    <3>2. \A j \in 1 .. Len(lists[l]) : lists[l][j] # previous_offset
      BY <2>1, <1>1, <1>2, ListElements, NodesFacts DEF ListInv, FileInv, Disjoint, At, c
    <3>3. \A j \in 1 .. Len(lists[l]) : nodes'[lists[l][j]].next = nodes[lists[l][j]].next
      BY <3>2, <1>8, ListElements
    <3> QED
      BY <2>1, <3>1, <3>3, <1>6 DEF ListInv, FileInv, Represented
  <2>2. bucket_slot'[Slot(Key)] = At(w, 1)
    <3>1. bucket_slot[Slot(Key)] = At(c, 1)
      BY <1>1 DEF ListInv, FileInv, Represented, HeadOf, c
    <3>2. CASE i = 1
      <4>1. previous_offset = Null
        BY <3>2, <1>2 DEF At
      <4>2. At(w, 1) = At(c, 2)
        BY <3>2, <1>1, <1>4 DEF At
      <4> QED
        BY <3>2, <4>1, <4>2, <1>1, <1>9
    <3>3. CASE i # 1
      <4>1. i - 1 \in 1 .. Len(c) /\ 1 \in 1 .. Len(c) - 1
        BY <3>3, <1>1
      <4>2. previous_offset # Null
        BY <4>1, <1>1, <1>2, NodesFacts DEF At
      <4>3. At(w, 1) = At(c, 1)
        BY <3>3, <4>1, <1>1, <1>4 DEF At
      <4> QED
        BY <3>1, <4>2, <4>3, <1>1, <1>9
    <3> QED
      BY <3>2, <3>3
  <2>3. ASSUME NEW j \in 1 .. Len(w)
        PROVE  nodes'[w[j]].next = At(w, j + 1)
    <3>1. CASE j >= i
      <4>1. w[j] = c[j + 1] /\ j + 1 \in 1 .. Len(c)
        BY <3>1, <1>1, <1>4
      <4>2. At(w, j + 1) = At(c, (j + 1) + 1)
        BY <3>1, <1>1, <1>4 DEF At
      <4>3. c[j + 1] # previous_offset
        BY <3>1, <4>1, <1>1, <1>2, <1>3, NodesFacts DEF At
      <4>4. nodes'[c[j + 1]].next = nodes[c[j + 1]].next
        BY <4>1, <4>3, <1>1, <1>8
      <4> QED
        BY <4>1, <4>2, <4>4, <1>5
    <3>2. CASE j = i - 1
      <4>1. w[j] = previous_offset /\ previous_offset # Null
        BY <3>2, <1>1, <1>2, <1>4, NodesFacts DEF At
      <4>2. At(w, j + 1) = At(c, i + 1)
        BY <3>2, <1>1, <1>4 DEF At
      <4> QED
        BY <4>1, <4>2, <1>8
    <3>3. CASE j < i - 1
      <4>1. w[j] = c[j] /\ j \in 1 .. Len(c) /\ j # i - 1
        BY <3>3, <1>1, <1>4
      <4>2. At(w, j + 1) = At(c, j + 1)
        BY <3>3, <1>1, <1>4 DEF At
      <4>3. c[j] # previous_offset
        BY <4>1, <1>1, <1>2, <1>3, NodesFacts DEF At
      <4>4. nodes'[c[j]].next = nodes[c[j]].next
        BY <4>1, <4>3, <1>1, <1>8
      <4> QED
        BY <4>1, <4>2, <4>4, <1>5
    <3> QED
      BY <3>1, <3>2, <3>3, <1>1, <1>4
  <2>4. \A l \in Lists :
           /\ HeadOf(l)' = At(lists'[l], 1)
           /\ \A j \in 1 .. Len(lists'[l]) : nodes'[lists'[l][j]].next = At(lists'[l], j + 1)
    <3>1. ASSUME NEW l \in Lists, l = Slot(Key)
          PROVE  HeadOf(l)' = At(lists'[l], 1)
      BY <3>1, <2>2, <1>1, <1>6 DEF HeadOf
    <3> QED
      BY <3>1, <2>1, <2>3, <1>6
  <2> QED
    BY <2>4 DEF Represented, HeadOf, At
<1> QED
  BY <1>7, <1>14, <1>15, <1>16, <1>17, <1>18 DEF ListInv, FileInv, Searched, Prepared

(* An unlinked record may point anywhere. *)
LEMMA ReleaseNodeListInv == ASSUME TypeInv, ListInv, ReleaseNode PROVE ListInv'
<1> USE DEF TypeInv
<1>1. /\ nodes' = [nodes EXCEPT ![current_offset].next = free_head_offset]
      /\ pc = "release" /\ pc' = "push"
      /\ UNCHANGED <<bucket_slot, index_file_size, free_head_offset, current_offset, lists>>
  BY DEF ReleaseNode, Goto, cursor
<1>2. \A l \in Lists : \A i \in 1 .. Len(lists[l]) : lists[l][i] # current_offset
  BY <1>1 DEF ListInv, HandFree
<1>3. \A m \in Nodes : m # current_offset => nodes'[m] = nodes[m]
  BY <1>1 DEF TypeOK
<1>4. FileInv'
  BY <1>1, <1>2, <1>3, FileInvOutside DEF ListInv
<1>5. nodes'[current_offset].next = free_head_offset
  BY <1>1 DEF TypeOK, OffsetsUsable, MetaInfo
<1>6. HandFree' /\ Prepared' /\ Searched'
  BY <1>1, <1>5 DEF ListInv, HandFree, Prepared, Searched
<1> QED
  BY <1>4, <1>6 DEF ListInv

(* delete_segment_meta puts the record before the reusable ones. *)
LEMMA PushFreeListInv == ASSUME TypeInv, ListInv, PushFree PROVE ListInv'
<1> USE DEF TypeInv
<1> DEFINE F == lists[FreeList]
           n == current_offset
           G == <<n>> \o F
<1>1. F \in Seq(Nodes) /\ Len(F) \in Nat /\ \A i \in 1 .. Len(F) : F[i] \in Nodes
  BY SlotFacts, ListElements
<1>2. n \in Nodes /\ n < index_file_size /\ nodes[n].next = free_head_offset
  BY DEF PushFree, OffsetsUsable, ListInv, HandFree, Prepared
<1>3. \A l \in Lists : \A i \in 1 .. Len(lists[l]) : lists[l][i] # n
  BY DEF PushFree, ListInv, HandFree
<1>4. /\ Len(G) = Len(F) + 1 /\ G[1] = n
      /\ \A i \in 2 .. Len(F) + 1 : G[i] = F[i - 1]
  <2>1. <<n>> \in Seq(Nodes) /\ Len(<<n>>) = 1 /\ <<n>>[1] = n
    BY <1>2
  <2> QED
    BY <2>1, <1>1, ConcatProperties
<1>5. /\ free_head_offset' = n /\ pc' = "uncount"
      /\ UNCHANGED <<bucket_slot, nodes, index_file_size>>
  BY DEF PushFree, Goto
<1>6. lists'[FreeList] = G /\ \A l \in Lists : l # FreeList => lists'[l] = lists[l]
  BY SlotFacts DEF PushFree, TypeOK
<1> HIDE DEF F, n, G
<1>7. \A l \in Lists : \A i \in 1 .. Len(lists'[l]) :
        \/ l # FreeList /\ i \in 1 .. Len(lists[l]) /\ lists'[l][i] = lists[l][i]
        \/ l = FreeList /\ i = 1 /\ lists'[l][i] = n
        \/ l = FreeList /\ i - 1 \in 1 .. Len(lists[l]) /\ lists'[l][i] = lists[l][i - 1]
  <2>1. ASSUME NEW i \in 1 .. Len(G), i # 1
        PROVE  i - 1 \in 1 .. Len(F) /\ G[i] = F[i - 1]
    BY <2>1, <1>1, <1>4
  <2> QED
    BY <2>1, <1>4, <1>6 DEF F
<1>8. Disjoint'
  <2> SUFFICES ASSUME NEW l \in Lists, NEW m \in Lists, NEW i \in 1 .. Len(lists'[l]),
                      NEW j \in 1 .. Len(lists'[m]), lists'[l][i] = lists'[m][j]
               PROVE  l = m /\ i = j
    BY DEF Disjoint
  <2>1. CASE l = FreeList /\ i = 1 /\ lists'[l][i] = n
    BY <2>1, <1>3, <1>7
  <2>2. CASE m = FreeList /\ j = 1 /\ lists'[m][j] = n
    BY <2>2, <1>3, <1>7
  <2>3. CASE ~(l = FreeList /\ i = 1) /\ ~(m = FreeList /\ j = 1)
    <3> DEFINE p == IF l = FreeList THEN i - 1 ELSE i
               q == IF m = FreeList THEN j - 1 ELSE j
    <3>1. p \in 1 .. Len(lists[l]) /\ lists'[l][i] = lists[l][p]
      BY <2>3, <1>7
    <3>2. q \in 1 .. Len(lists[m]) /\ lists'[m][j] = lists[m][q]
      BY <2>3, <1>7
    <3>3. l = m /\ p = q
      <4> HIDE DEF p, q
      <4>1. lists[l][p] = lists[m][q]
        BY <3>1, <3>2
      <4> QED
        BY <3>1, <3>2, <4>1 DEF ListInv, FileInv, Disjoint
    <3> QED
      BY <3>3
  <2> QED
    BY <2>1, <2>2, <2>3, <1>7
<1>9. BelowEnd'
  BY <1>2, <1>5, <1>7 DEF ListInv, FileInv, BelowEnd
<1>10. \A s \in Slots : lists'[s] = lists[s]
  BY <1>6, SlotFacts
<1>11. Placed'
  BY <1>5, <1>10 DEF ListInv, FileInv, Placed
<1>12. Represented'
  <2>1. ASSUME NEW l \in Lists, l # FreeList
        PROVE  /\ HeadOf(l)' = At(lists'[l], 1)
               /\ \A i \in 1 .. Len(lists'[l]) : nodes'[lists'[l][i]].next = At(lists'[l], i + 1)
    BY <2>1, <1>5, <1>6 DEF ListInv, FileInv, Represented, HeadOf
  <2>2. HeadOf(FreeList)' = At(G, 1)
    BY <1>1, <1>4, <1>5 DEF HeadOf, At
  <2>3. free_head_offset = At(F, 1) /\ \A i \in 1 .. Len(F) : nodes[F[i]].next = At(F, i + 1)
    BY SlotFacts DEF ListInv, FileInv, Represented, HeadOf, F
  <2>4. ASSUME NEW i \in 1 .. Len(G)
        PROVE  nodes[G[i]].next = At(G, i + 1)
    <3>1. CASE i = 1
      <4>1. At(G, 2) = At(F, 1)
        BY <1>1, <1>4 DEF At
      <4> QED
        BY <3>1, <4>1, <2>3, <1>2, <1>4 DEF n
    <3>2. CASE i # 1
      <4>1. i - 1 \in 1 .. Len(F) /\ G[i] = F[i - 1]
        BY <3>2, <1>1, <1>4
      <4>2. At(G, i + 1) = At(F, (i - 1) + 1)
        BY <3>2, <1>1, <1>4 DEF At
      <4> QED
        BY <4>1, <4>2, <2>3
    <3> QED
      BY <3>1, <3>2
  <2>5. \A l \in Lists :
           /\ HeadOf(l)' = At(lists'[l], 1)
           /\ \A i \in 1 .. Len(lists'[l]) : nodes'[lists'[l][i]].next = At(lists'[l], i + 1)
    BY <2>1, <2>2, <2>4, <1>5, <1>6
  <2> QED
    BY <2>5 DEF Represented, HeadOf, At
<1> QED
  BY <1>5, <1>8, <1>9, <1>11, <1>12, IdleListInv DEF FileInv

-----------------------------------------------------------------------------
(* Every step *)

(* An operation that returns, and a step that stores nothing in the lists. *)
LEMMA QuietListInv ==
  ASSUME ListInv, UNCHANGED <<image, lists>>, pc' \in {"idle", "commit", "account", "uncount"}
  PROVE  ListInv'
BY FileInvUnchanged, IdleListInv DEF ListInv

(* Every step keeps the lists intact, unless it rolls back the wrong record. *)
LEMMA NextListInv ==
  ASSUME TypeInv, ListInv, [Next]_vars, ~misrolled'
  PROVE  ListInv'
<1>1. ASSUME NEW k \in Keys PROVE BeginRead(k) \/ BeginDelete(k) => ListInv'
  <2>1. k \in Nat /\ [NoMeta EXCEPT !.key = k].key = k
    BY KeysAssumption DEF NoMeta
  <2> QED
    BY <2>1, StartFindListInv DEF BeginRead, BeginDelete, TypeInv, ListInv
<1>2. ASSUME NEW k \in Keys, NEW size \in Sizes PROVE BeginWrite(k, size) => ListInv'
  BY KeysAssumption, StartFindListInv DEF BeginWrite, TypeInv, ListInv
<1>3. Find => ListInv'
  BY FindHitListInv, FindNextListInv, FindMissListInv, QuietListInv
  DEF Find, FindFails, Return, Leave, TypeInv
<1>4. Insert => ListInv'
  <2>1. AllocateReused \/ AllocateNew \/ WriteNode \/ LinkNode => ListInv'
    BY AllocateReusedListInv, AllocateNewListInv, WriteNodeListInv, LinkNodeListInv DEF TypeInv
  <2>2. WriteNodeFails \/ LinkNodeFails => ListInv'
    BY RollbackListInv DEF WriteNodeFails, LinkNodeFails
  <2>3. AllocateFails \/ CommitDataOffset \/ AccountInsert => ListInv'
    BY QuietListInv DEF AllocateFails, CommitDataOffset, AccountInsert, Return, Leave, Goto
  <2> QED
    BY <2>1, <2>2, <2>3 DEF Insert
<1>5. ReadNode \/ ReadNodeFails => ListInv'
  BY QuietListInv DEF ReadNode, ReadNodeFails, Return, Leave
<1>6. Delete => ListInv'
  <2>1. UnlinkNode \/ ReleaseNode \/ PushFree => ListInv'
    BY UnlinkNodeListInv, ReleaseNodeListInv, PushFreeListInv
  <2>2. UnlinkNodeFails \/ ReleaseNodeFails \/ AccountDelete => ListInv'
    BY QuietListInv DEF UnlinkNodeFails, ReleaseNodeFails, AccountDelete, Return, Leave
  <2> QED
    BY <2>1, <2>2 DEF Delete
<1>7. Crash => ListInv'
  BY QuietListInv DEF Crash, Leave
<1>8. UNCHANGED vars => ListInv'
  <2> SUFFICES ASSUME UNCHANGED vars PROVE ListInv'
    OBVIOUS
  <2>1. UNCHANGED <<image, lists, pc, call, cursor>>
    BY DEF vars
  <2>2. FileInv'
    BY <2>1, FileInvUnchanged DEF ListInv
  <2>3. HandFree' /\ Prepared'
    BY <2>1 DEF ListInv, HandFree, Prepared, image, cursor
  <2>4. Chain' = Chain /\ Key' = Key
    BY <2>1 DEF Chain, Key
  <2>5. Searched'
    BY <2>1, <2>4 DEF ListInv, Searched, NotIn, At, image, cursor
  <2> QED
    BY <2>2, <2>3, <2>5 DEF ListInv
<1> QED
  BY <1>1, <1>2, <1>3, <1>4, <1>5, <1>6, <1>7, <1>8 DEF Next, Begin, Step

(* A rollback that went wrong is never forgotten. *)
LEMMA MisrolledStays ==
  ASSUME TypeInv, [Next]_vars, misrolled
  PROVE  misrolled'
BY DEF Next, Begin, BeginRead, BeginDelete, BeginWrite, StartFind, Step, Find, FindHit, FindNext,
  FindMiss, FindFails, Insert, AllocateReused, AllocateNew, AllocateFails, WriteNode,
  WriteNodeFails, LinkNode, LinkNodeFails, Rollback, CommitDataOffset, AccountInsert, ReadNode,
  ReadNodeFails, Delete, UnlinkNode, UnlinkNodeFails, ReleaseNode, ReleaseNodeFails, PushFree,
  AccountDelete, Crash, vars, bad

(* A step of an operation knows which one it belongs to, and the place of  *)
(* the data is the header's until the header is changed.                   *)
LEMMA NextCallKnown == ASSUME CallKnown, [Next]_vars PROVE CallKnown'
<1> USE DEF CallKnown
<1>1. ASSUME NEW k \in Keys PROVE BeginRead(k) \/ BeginDelete(k) => CallKnown'
  BY DEF BeginRead, BeginDelete, StartFind, header
<1>2. ASSUME NEW k \in Keys, NEW size \in Sizes PROVE BeginWrite(k, size) => CallKnown'
  BY DEF BeginWrite, StartFind, header
<1>3. Find => CallKnown'
  BY DEF Find, FindHit, FindNext, FindMiss, FindFails, Return, Leave, Goto, NoCall, header
<1>4. Insert => CallKnown'
  BY DEF Insert, AllocateReused, AllocateNew, AllocateFails, WriteNode, WriteNodeFails, LinkNode,
    LinkNodeFails, Rollback, CommitDataOffset, AccountInsert, Return, Leave, Goto, NoCall, header
<1>5. ReadNode \/ ReadNodeFails => CallKnown'
  BY DEF ReadNode, ReadNodeFails, Return, Leave, NoCall
<1>6. Delete => CallKnown'
  BY DEF Delete, UnlinkNode, UnlinkNodeFails, ReleaseNode, ReleaseNodeFails, PushFree,
    AccountDelete, Return, Leave, Goto, NoCall, header
<1>7. Crash \/ UNCHANGED vars => CallKnown'
  BY DEF Crash, Leave, NoCall, vars, header
<1> QED
  BY <1>1, <1>2, <1>3, <1>4, <1>5, <1>6, <1>7 DEF Next, Begin, Step

(* A call of an operation with arguments it can take. *)
LEMMA CallTyped ==
  ASSUME TypeInv, NEW op \in {"write", "read", "delete"}, NEW meta \in MetaInfo, StartFind(op, meta),
         op = "write" => /\ free_head_offset # Null \/ index_file_size \in Nodes
                         /\ meta.offset = data_file_offset
  PROVE  TypeInv' /\ CallKnown'
<1>1. meta.key \in Nat
  BY DEF MetaInfo
<1>2. TypeInv'
  BY <1>1, SlotInSlots
     DEF TypeInv, TypeOK, OffsetsUsable, StartFind, image, header, bad, Pending, Answer, NoMeta, MetaInfo
<1>3. CallKnown'
  BY DEF StartFind, CallKnown, header
<1> QED
  BY <1>2, <1>3

LEMMA CallKeepsIndex ==
  ASSUME IndexInv, NEW op \in {"write", "read", "delete"}, NEW meta \in MetaInfo, StartFind(op, meta),
         op = "write" => /\ free_head_offset # Null \/ index_file_size \in Nodes
                         /\ meta.offset = data_file_offset
  PROVE  IndexInv'
<1>1. TypeInv' /\ CallKnown'
  BY CallTyped DEF IndexInv
<1>2. meta.key \in Nat
  BY DEF MetaInfo
<1>3. ASSUME ~misrolled' PROVE ListInv'
  BY <1>2, <1>3, StartFindListInv DEF IndexInv, TypeInv, ListInv, StartFind, bad
<1> QED
  BY <1>1, <1>3 DEF IndexInv

(* The whole invariant, for every number of keys, buckets and records. *)
THEOREM IndexCorrect == Spec => []IndexInv
<1>1. Init => IndexInv
  BY InitTypeInv, InitListInv DEF IndexInv, CallKnown, Init, NoCall
<1>2. IndexInv /\ [Next]_vars => IndexInv'
  <2> SUFFICES ASSUME IndexInv, [Next]_vars PROVE IndexInv'
    OBVIOUS
  <2>1. TypeInv'
    BY NextTypeInv DEF IndexInv
  <2>2. ASSUME ~misrolled' PROVE ListInv'
    BY <2>2, MisrolledStays, NextListInv DEF IndexInv
  <2> QED
    BY <2>1, <2>2, NextCallKnown DEF IndexInv
<1> QED
  BY <1>1, <1>2, PTL DEF Spec

(* The chain of each bucket and the list of reusable records stay          *)
(* null-terminated lists with no record in two places (index_handle.cpp,   *)
(* hash_find, hash_insert, delete_segment_meta).                           *)
THEOREM ListsStayIntact == Spec => []ListsIntact
<1>1. IndexInv => ListsIntact
  BY DEF IndexInv, ListInv, FileInv, Represented, Disjoint, ListsIntact
<1> QED
  BY <1>1, IndexCorrect, PTL

(* No record in use lies where hash_insert puts the next new one.          *)
THEOREM RecordsStayBelowEnd == Spec => []RecordsBelowEnd
<1>1. IndexInv => RecordsBelowEnd
  BY DEF IndexInv, ListInv, FileInv, BelowEnd, HandFree, RecordsBelowEnd, Elements, Moving
<1> QED
  BY <1>1, IndexCorrect, PTL

(* A file stays where hash_find looks for it, and is stored once.          *)
THEOREM KeysStayPlaced == Spec => []KeysPlaced
<1>1. IndexInv => KeysPlaced
  <2> SUFFICES ASSUME IndexInv, ~misrolled PROVE KeysPlaced
    BY DEF KeysPlaced
  <2>1. Placed
    BY DEF IndexInv, ListInv, FileInv
  <2>2. \A s \in Slots : \A n \in Elements(lists[s]) : Slot(nodes[n].key) = s
    BY <2>1 DEF Placed, Elements
  <2>3. ASSUME NEW m \in Live, NEW n \in Live, nodes[m].key = nodes[n].key PROVE m = n
    <3>1. PICK s \in Slots : m \in Elements(lists[s])
      BY DEF Live
    <3>2. PICK t \in Slots : n \in Elements(lists[t])
      BY DEF Live
    <3>3. PICK i \in 1 .. Len(lists[s]), j \in 1 .. Len(lists[t]) :
            m = lists[s][i] /\ n = lists[t][j]
      BY <3>1, <3>2 DEF Elements
    <3> QED
      BY <2>1, <2>3, <3>3 DEF Placed
  <2> QED
    BY <2>2, <2>3 DEF KeysPlaced
<1> QED
  BY <1>1, IndexCorrect, PTL
=============================================================================
