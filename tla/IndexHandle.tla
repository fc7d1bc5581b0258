---------------------------- MODULE IndexHandle ----------------------------
(***************************************************************************)
(* The index of one block (mmap/index_handle.cpp): a header, an array of   *)
(* hash buckets and a growing area of MetaInfo records, all in one mapped  *)
(* file.  A record is in the hash chain of a bucket, in the list of        *)
(* reusable records, or in neither while an operation moves it.            *)
(*                                                                         *)
(* The three operations on metadata (write, read, delete) are modelled one *)
(* store to the file at a time, so that a process that dies, or an I/O     *)
(* error that makes the code return early, can fall between any two.  A    *)
(* write is followed by the two calls its caller makes on success,         *)
(* commit_block_data_offset and update_block_info (block_write_test.cpp).  *)
(*                                                                         *)
(* An offset in the file is modelled by the number of the record that      *)
(* starts there, 0 being the null offset of the code.                      *)
(***************************************************************************)
EXTENDS Integers, Sequences

CONSTANTS
  Keys,          \* file ids a caller uses (uint64_t)
  Word,          \* number of values of a uint32_t, 2^32 in the build
  BucketSize,    \* number of hash buckets, bucket_size
  Sizes,         \* lengths of the files a caller stores
  BlockId,       \* block_id_ that create() stored in the header
  MaxNodes,      \* bound: records the index may hold
  MapLimit,      \* records that always lie inside the memory mapping
  MaxVersion,    \* bound: version_ at which no further change is started
  MaxCrashes,    \* bound: crashes of the process
  MaxFaults      \* bound: failing reads and writes of the index file

ASSUME KeysAssumption == Keys \subseteq Nat
ASSUME WordAssumption == Word \in Nat \ {0}
ASSUME BucketSizeAssumption == BucketSize \in Nat \ {0}
ASSUME SizesAssumption == Sizes \subseteq Nat
ASSUME BlockIdAssumption == BlockId \in Nat \ {0}
ASSUME BoundsAssumption ==
  /\ MaxNodes \in Nat
  /\ MapLimit \in Nat
  /\ MaxVersion \in Nat
  /\ MaxCrashes \in Nat
  /\ MaxFaults \in Nat

VARIABLES
  bucket_slot,       \* offset of the first record of each bucket
  nodes,             \* the MetaInfo records of the file
  index_file_size,   \* where the next new record goes
  free_head_offset,  \* head of the list of reusable records
  data_file_offset,  \* where unused space of the main block begins
  block_info,        \* the counters of BlockInfo
  pc,                \* the next step of the running operation
  call,              \* its name and arguments
  pos,               \* hash_find's cursor
  previous_offset,   \* the record before the cursor
  current_offset,    \* the record found, or the record being inserted
  ret,               \* what the last operation returned
  crashes, faults,   \* how many of each there have been
  misrolled,         \* a rollback gave back a record that was not the last
  lists              \* auxiliary: the lists that the offsets stand for

image  == <<bucket_slot, nodes, index_file_size, free_head_offset>>
header == <<data_file_offset, block_info>>
cursor == <<pos, previous_offset, current_offset>>
bad    == <<crashes, faults, misrolled>>
vars   == <<image, header, pc, call, cursor, ret, bad, lists>>

-----------------------------------------------------------------------------
Null == 0
Nodes == 1 .. MaxNodes
Slots == 0 .. BucketSize - 1
FreeList == BucketSize               \* the list of reusable records
Lists == 0 .. BucketSize

(* static_cast<uint32_t>(key) % bucket_size() *)
Slot(key) == (key % Word) % BucketSize

MetaInfo == [key : Nat, offset : Nat, size : Nat, next : Nodes \cup {Null}]
NoMeta == [key |-> 0, offset |-> 0, size |-> 0, next |-> Null]
NoCall == [op |-> "none", meta |-> NoMeta]

Answer(status, meta) == [status |-> status, meta |-> meta]
Pending == Answer("pending", NoMeta)

(* An operation on the lists of the auxiliary variable. *)
Without(s, n) ==
  IF \E i \in 1 .. Len(s) : s[i] = n
  THEN LET i == CHOOSE i \in 1 .. Len(s) : s[i] = n
       IN  [j \in 1 .. Len(s) - 1 |-> IF j < i THEN s[j] ELSE s[j + 1]]
  ELSE s

(* IndexHandle::create on an empty file. *)
Init ==
  /\ bucket_slot = [s \in Slots |-> Null]
  /\ nodes = [n \in Nodes |-> NoMeta]
  /\ index_file_size = 1
  /\ free_head_offset = Null
  /\ data_file_offset = 0
  /\ block_info = [block_id |-> BlockId, version |-> 0, file_count |-> 0,
                   size |-> 0, del_file_count |-> 0, del_size |-> 0, seq_no |-> 1]
  /\ pc = "idle" /\ call = NoCall
  /\ pos = Null /\ previous_offset = Null /\ current_offset = Null
  /\ ret = Pending
  /\ crashes = 0 /\ faults = 0 /\ misrolled = FALSE
  /\ lists = [l \in Lists |-> << >>]

-----------------------------------------------------------------------------
(* The frame of the running operation is gone once it has returned. *)
Leave ==
  /\ pc' = "idle" /\ call' = NoCall
  /\ pos' = Null /\ previous_offset' = Null /\ current_offset' = Null

Return(status, meta) == Leave /\ ret' = Answer(status, meta)

Goto(label) == pc' = label /\ UNCHANGED <<call, cursor, ret>>

(* Reads and writes outside the mapping go through pread64 and pwrite64,   *)
(* which may fail; the ones inside it are plain memory copies.             *)
IoFails(n) ==
  /\ n > MapLimit
  /\ faults < MaxFaults
  /\ faults' = faults + 1

-----------------------------------------------------------------------------
(* Variants with a bug each, which the properties have to notice.  Each is *)
(* named after the definition it stands in for.                            *)

AllocateNewKeepsEnd ==
  /\ pc = "allocate" /\ free_head_offset = Null
  /\ current_offset' = index_file_size
  /\ pc' = "write"
  /\ UNCHANGED <<image, header, call, pos, previous_offset, ret, bad, lists>>

KeyCutToWord == call.meta.key % Word

AllocateReusedKeepsHead ==
  /\ pc = "allocate" /\ free_head_offset # Null
  /\ current_offset' = free_head_offset
  /\ pc' = "write"
  /\ UNCHANGED <<image, header, call, pos, previous_offset, ret, bad, lists>>

FindNextStopsAtFirst ==
  /\ pc = "find" /\ pos # Null
  /\ nodes[pos].key # call.meta.key
  /\ previous_offset' = pos
  /\ pos' = Null
  /\ UNCHANGED <<image, header, pc, call, current_offset, ret, bad, lists>>

LinkNodeWritesNewRecord ==
  /\ pc = "link"
  /\ \/ /\ previous_offset # Null
        /\ nodes' = [nodes EXCEPT ![previous_offset] = [call.meta EXCEPT !.next = current_offset]]
        /\ UNCHANGED bucket_slot
     \/ /\ previous_offset = Null
        /\ bucket_slot' = [bucket_slot EXCEPT ![Slot(call.meta.key)] = current_offset]
        /\ UNCHANGED nodes
  /\ lists' = [lists EXCEPT ![Slot(call.meta.key)] = Append(@, current_offset)]
  /\ Goto("commit")
  /\ UNCHANGED <<index_file_size, free_head_offset, header, bad>>

LinkNodeFailsUnnoticed ==
  /\ pc = "link" /\ previous_offset # Null
  /\ IoFails(previous_offset)
  /\ Goto("commit")
  /\ UNCHANGED <<image, header, crashes, misrolled, lists>>

CommitDataOffsetOfOne ==
  /\ pc = "commit"
  /\ data_file_offset' = data_file_offset + 1
  /\ Goto("account")
  /\ UNCHANGED <<image, block_info, bad, lists>>

ReleaseNodeKeepsNext ==
  /\ pc = "release"
  /\ Goto("push")
  /\ UNCHANGED <<image, header, bad, lists>>

ReleaseNodeSkipsPush ==
  /\ pc = "release"
  /\ nodes' = [nodes EXCEPT ![current_offset].next = free_head_offset]
  /\ Goto("uncount")
  /\ UNCHANGED <<bucket_slot, index_file_size, free_head_offset, header, bad, lists>>

UpdateBlockInfoKeepsSize(oper_type, size) ==
  block_info' =
    IF oper_type = "C_OPER_INSERT"
    THEN [block_info EXCEPT !.version = @ + 1, !.file_count = @ + 1,
                            !.seq_no = @ + 1, !.size = @ + size]
    ELSE [block_info EXCEPT !.version = @ + 1, !.file_count = @ - 1,
                            !.del_file_count = @ + 1, !.del_size = @ + size]

UpdateBlockInfoLowersDeleted(oper_type, size) ==
  block_info' =
    IF oper_type = "C_OPER_INSERT"
    THEN [block_info EXCEPT !.version = @ + 1, !.file_count = @ + 1,
                            !.seq_no = @ + 1, !.size = @ + size]
    ELSE [block_info EXCEPT !.version = @ + 1, !.file_count = @ - 1,
                            !.size = @ - size, !.del_file_count = @ - 1,
                            !.del_size = @ - size]

-----------------------------------------------------------------------------
(* hash_find, called first by each of the three operations. *)

StartFind(op, meta) ==
  /\ pc = "idle"
  /\ pc' = "find"
  /\ call' = [op |-> op, meta |-> meta]
  /\ pos' = bucket_slot[Slot(meta.key)]
  /\ previous_offset' = Null /\ current_offset' = Null
  /\ ret' = Pending
  /\ UNCHANGED <<image, header, bad, lists>>

BeginWrite(k, size) ==
  /\ block_info.version < MaxVersion
  /\ free_head_offset # Null \/ index_file_size \in Nodes
  /\ StartFind("write", [key |-> k, offset |-> data_file_offset,
                         size |-> size, next |-> Null])

BeginRead(k) == StartFind("read", [NoMeta EXCEPT !.key = k])

BeginDelete(k) ==
  /\ block_info.version < MaxVersion
  /\ StartFind("delete", [NoMeta EXCEPT !.key = k])

Key == call.meta.key

FindHit ==
  /\ pc = "find" /\ pos # Null
  /\ nodes[pos].key = Key
  /\ \/ /\ call.op = "write"
        /\ Return("EXIT_META_UNEXPECT_FOUND_ERROR", NoMeta)
     \/ /\ call.op # "write"
        /\ pc' = "found" /\ current_offset' = pos
        /\ UNCHANGED <<call, pos, previous_offset, ret>>
  /\ UNCHANGED <<image, header, bad, lists>>

FindNext ==
  /\ pc = "find" /\ pos # Null
  /\ nodes[pos].key # Key
  /\ previous_offset' = pos
  /\ pos' = nodes[pos].next
  /\ UNCHANGED <<image, header, pc, call, current_offset, ret, bad, lists>>

FindMiss ==
  /\ pc = "find" /\ pos = Null
  /\ \/ call.op = "write" /\ Goto("allocate")
     \/ call.op # "write" /\ Return("EXIT_META_NOT_FOUND_ERROR", NoMeta)
  /\ UNCHANGED <<image, header, bad, lists>>

FindFails ==
  /\ pc = "find" /\ pos # Null
  /\ IoFails(pos)
  /\ Return("DISK_ERROR", NoMeta)
  /\ UNCHANGED <<image, header, crashes, misrolled, lists>>

-----------------------------------------------------------------------------
(* hash_insert *)

AllocateReused ==
  /\ pc = "allocate" /\ free_head_offset # Null
  /\ current_offset' = free_head_offset
  /\ free_head_offset' = nodes[free_head_offset].next
  /\ lists' = [lists EXCEPT ![FreeList] = IF @ = << >> THEN @ ELSE Tail(@)]
  /\ pc' = "write"
  /\ UNCHANGED <<bucket_slot, nodes, index_file_size, header, call, pos,
                 previous_offset, ret, bad>>

AllocateNew ==
  /\ pc = "allocate" /\ free_head_offset = Null
  /\ current_offset' = index_file_size
  /\ index_file_size' = index_file_size + 1
  /\ pc' = "write"
  /\ UNCHANGED <<bucket_slot, nodes, free_head_offset, header, call, pos,
                 previous_offset, ret, bad, lists>>

AllocateFails ==
  /\ pc = "allocate" /\ free_head_offset # Null
  /\ IoFails(free_head_offset)
  /\ Return("DISK_ERROR", NoMeta)
  /\ UNCHANGED <<image, header, crashes, misrolled, lists>>

WriteNode ==
  /\ pc = "write"
  /\ nodes' = [nodes EXCEPT ![current_offset] = [call.meta EXCEPT !.next = Null]]
  /\ Goto("link")
  /\ UNCHANGED <<bucket_slot, index_file_size, free_head_offset, header, bad, lists>>

LinkNode ==
  /\ pc = "link"
  /\ \/ /\ previous_offset # Null
        /\ nodes' = [nodes EXCEPT ![previous_offset].next = current_offset]
        /\ UNCHANGED bucket_slot
     \/ /\ previous_offset = Null
        /\ bucket_slot' = [bucket_slot EXCEPT ![Slot(Key)] = current_offset]
        /\ UNCHANGED nodes
  /\ lists' = [lists EXCEPT ![Slot(Key)] = Append(@, current_offset)]
  /\ Goto("commit")
  /\ UNCHANGED <<index_file_size, free_head_offset, header, bad>>

(* The code gives back sizeof(MetaInfo) bytes of the file on each of these *)
(* errors, wherever the record came from.                                  *)
Rollback ==
  /\ index_file_size' = index_file_size - 1
  /\ misrolled' = (misrolled \/ current_offset # index_file_size - 1)
  /\ Return("DISK_ERROR", NoMeta)
  /\ UNCHANGED <<bucket_slot, nodes, free_head_offset, header, crashes, lists>>

WriteNodeFails == pc = "write" /\ IoFails(current_offset) /\ Rollback

LinkNodeFails ==
  /\ pc = "link" /\ previous_offset # Null
  /\ IoFails(previous_offset)
  /\ Rollback

(* What the caller does once write_segment_meta has succeeded. *)
CommitDataOffset ==
  /\ pc = "commit"
  /\ data_file_offset' = data_file_offset + call.meta.size
  /\ Goto("account")
  /\ UNCHANGED <<image, block_info, bad, lists>>

UpdateBlockInfo(oper_type, size) ==
  block_info' =
    IF block_info.block_id = 0 THEN block_info
    ELSE IF oper_type = "C_OPER_INSERT"
    THEN [block_info EXCEPT !.version = @ + 1, !.file_count = @ + 1,
                            !.seq_no = @ + 1, !.size = @ + size]
    ELSE [block_info EXCEPT !.version = @ + 1, !.file_count = @ - 1,
                            !.size = @ - size, !.del_file_count = @ + 1,
                            !.del_size = @ + size]

AccountInsert ==
  /\ pc = "account"
  /\ UpdateBlockInfo("C_OPER_INSERT", call.meta.size)
  /\ Return("TFS_SUCCESS", NoMeta)
  /\ UNCHANGED <<image, data_file_offset, bad, lists>>

-----------------------------------------------------------------------------
(* read_segment_meta *)

ReadNode ==
  /\ pc = "found" /\ call.op = "read"
  /\ Return("TFS_SUCCESS", nodes[current_offset])
  /\ UNCHANGED <<image, header, bad, lists>>

ReadNodeFails ==
  /\ pc = "found" /\ call.op = "read"
  /\ IoFails(current_offset)
  /\ Return("DISK_ERROR", NoMeta)
  /\ UNCHANGED <<image, header, crashes, misrolled, lists>>

-----------------------------------------------------------------------------
(* delete_segment_meta *)

UnlinkNode ==
  /\ pc = "found" /\ call.op = "delete"
  /\ \/ /\ previous_offset # Null
        /\ nodes' = [nodes EXCEPT ![previous_offset].next = nodes[current_offset].next]
        /\ UNCHANGED bucket_slot
     \/ /\ previous_offset = Null
        /\ bucket_slot' = [bucket_slot EXCEPT ![Slot(Key)] = nodes[current_offset].next]
        /\ UNCHANGED nodes
  /\ lists' = [lists EXCEPT ![Slot(Key)] = Without(@, current_offset)]
  /\ Goto("release")
  /\ UNCHANGED <<index_file_size, free_head_offset, header, bad>>

UnlinkNodeFails ==
  /\ pc = "found" /\ call.op = "delete"
  /\ \/ IoFails(current_offset)
     \/ previous_offset # Null /\ IoFails(previous_offset)
  /\ Return("DISK_ERROR", NoMeta)
  /\ UNCHANGED <<image, header, crashes, misrolled, lists>>

ReleaseNode ==
  /\ pc = "release"
  /\ nodes' = [nodes EXCEPT ![current_offset].next = free_head_offset]
  /\ Goto("push")
  /\ UNCHANGED <<bucket_slot, index_file_size, free_head_offset, header, bad, lists>>

ReleaseNodeFails ==
  /\ pc = "release"
  /\ IoFails(current_offset)
  /\ Return("DISK_ERROR", NoMeta)
  /\ UNCHANGED <<image, header, crashes, misrolled, lists>>

PushFree ==
  /\ pc = "push"
  /\ free_head_offset' = current_offset
  /\ lists' = [lists EXCEPT ![FreeList] = <<current_offset>> \o @]
  /\ Goto("uncount")
  /\ UNCHANGED <<bucket_slot, nodes, index_file_size, header, bad>>

AccountDelete ==
  /\ pc = "uncount"
  /\ UpdateBlockInfo("C_OPER_DELETE", nodes[current_offset].size)
  /\ Return("TFS_SUCCESS", NoMeta)
  /\ UNCHANGED <<image, data_file_offset, bad, lists>>

-----------------------------------------------------------------------------
(* The process dies.  The mapping is MAP_SHARED: every store made so far   *)
(* stays in the file, and the next process finds it there.                 *)
Crash ==
  /\ pc # "idle" /\ crashes < MaxCrashes
  /\ crashes' = crashes + 1
  /\ Leave
  /\ ret' = Pending
  /\ UNCHANGED <<image, header, faults, misrolled, lists>>

Find == FindHit \/ FindNext \/ FindMiss \/ FindFails
Insert ==
  \/ AllocateReused \/ AllocateNew \/ AllocateFails
  \/ WriteNode \/ WriteNodeFails \/ LinkNode \/ LinkNodeFails
  \/ CommitDataOffset \/ AccountInsert
Delete ==
  \/ UnlinkNode \/ UnlinkNodeFails \/ ReleaseNode \/ ReleaseNodeFails
  \/ PushFree \/ AccountDelete

(* The steps of an operation that has been called. *)
Step == Find \/ Insert \/ ReadNode \/ ReadNodeFails \/ Delete

Begin ==
  \E k \in Keys : BeginRead(k) \/ BeginDelete(k) \/ \E size \in Sizes : BeginWrite(k, size)

Next == Begin \/ Step \/ Crash

Spec == Init /\ [][Next]_vars
FairSpec == Spec /\ WF_vars(Step)
=============================================================================
