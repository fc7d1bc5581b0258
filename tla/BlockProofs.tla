----------------------------- MODULE BlockProofs -----------------------------
(***************************************************************************)
(* The programs on a block keep their promises, for every block size, file *)
(* size and number of runs, failures and deaths.  Of the index they use    *)
(* only what SegmentStore promises is needed, and when the header changes. *)
(***************************************************************************)
EXTENDS BlockProperties, IndexDataProofs, FiniteSetTheorems, SequenceTheorems

Segs == SegmentsOf
seq_no == block_info.seq_no

ProgramTypes ==
  /\ program \in {"none", "data", "write", "read", "delete"}
  /\ file_id \in Nat /\ moved \in 0 .. Size /\ run \in 0 .. MaxRuns
  /\ mainblock \in Seq(0 .. MaxRuns) /\ Len(mainblock) >= main_blocksize
  /\ promised \subseteq Nat /\ doubtful \subseteq Nat
  /\ IsFiniteSet(promised) /\ IsFiniteSet(doubtful)
  /\ program \notin {"data", "write"} => moved = 0

(* The call the index works on is the one of the program; it leaves room   *)
(* for the record of a write. *)
CallOfProgram ==
  /\ program \in {"none", "data"} => pc = "idle"
  /\ program = "data" => free_head_offset # Null \/ index_file_size \in Nodes
  /\ pc # "idle" => call.op = program /\ Key = file_id
  /\ program = "write" /\ pc # "idle" => call.meta.size = Size
  /\ program = "write" /\ pc = "account" => call.meta.offset + Size = data_file_offset

Answered == program \in {"write", "read", "delete"} /\ pc = "idle"
Written == program = "write" /\ (pc \in {"commit", "account"} \/ (Answered /\ Succeeded))

(* seq_no is past every id that was promised, and unless a program died    *)
(* past every id that is stored; a refused write has met one. *)
SeqNoInv ==
  /\ \A k \in promised : k < seq_no
  /\ program = "data" \/ (program = "write" /\ pc # "idle") => file_id = seq_no
  /\ Answered /\ Written => file_id < seq_no
  /\ crashes = 0 =>
       /\ \A k \in DOMAIN Segs : k < seq_no \/ (pc \in {"commit", "account"} /\ k = seq_no)
       /\ ret.status # "EXIT_META_UNEXPECT_FOUND_ERROR"
       /\ printed.status # "EXIT_META_UNEXPECT_FOUND_ERROR"

(* The data of this run lies at offset o of the main block. *)
Holds(o, units) == o + units <= Len(mainblock) /\ \A i \in 1 .. units : mainblock[o + i] = run

InMain(segment) ==
  /\ segment.size = Size
  /\ segment.offset + Size <= data_file_offset
  /\ segment.offset + Size <= Len(mainblock)

(* What was promised lies whole below data_file_offset, where no write     *)
(* puts its data. *)
DataInv ==
  /\ \A k \in promised : k \in DOMAIN Segs /\ InMain(Segs[k])
  /\ program = "data" /\ moved > 0 => Holds(data_file_offset, moved)
  /\ program = "write" /\ pc # "idle" => Holds(call.meta.offset, Size)
  /\ Written =>
       /\ file_id \in DOMAIN Segs
       /\ pc # "idle" => Segs[file_id] = Segment(call.meta)
       /\ pc = "idle" => InMain(Segs[file_id]) /\ Holds(Segs[file_id].offset, Size)

(* What is stored is promised or doubtful, and so is what a program works  *)
(* on; what a read or a delete has been told is so. *)
KnownInv ==
  /\ DOMAIN Segs \subseteq promised \cup doubtful
  /\ program \in {"data", "write", "delete"} => file_id \in doubtful \ promised
  /\ program = "read" /\ Answered =>
       /\ Succeeded => file_id \in DOMAIN Segs /\ Segment(ret.meta) = Segs[file_id]
       /\ \/ ret.status \in {"TFS_SUCCESS", "DISK_ERROR"}
          \/ ret.status = "EXIT_META_NOT_FOUND_ERROR" /\ file_id \notin DOMAIN Segs
  /\ program = "delete" /\
       (pc \in {"release", "push", "uncount"} \/ (Answered /\ ret.status # "DISK_ERROR")) =>
         file_id \notin DOMAIN Segs

(* The files nobody was told of, without the one a program has in hand. *)
InHand == IF Written \/ program = "delete" THEN {file_id} ELSE {}
Owed == IF program = "delete" /\ Answered /\ ret.status = "DISK_ERROR" THEN 1 ELSE 0
Orphans == (DOMAIN Segs \ promised) \ InHand
OrphansInv == Cardinality(Orphans) + Owed <= crashes + faults

Promises == SeqNoInv /\ DataInv /\ KnownInv /\ OrphansInv

(* The inductive invariant. *)
BlockInv == IndexInv /\ ProgramTypes /\ CallOfProgram /\ (~misrolled => Promises)

-----------------------------------------------------------------------------
(* The index under the programs *)

(* An I/O error outside the index, and a death, leave the file as it is. *)
LEMMA FaultKeepsIndex ==
  ASSUME IndexInv, Fault
  PROVE  IndexInv'
<1>1. TypeInv' /\ CallKnown'
  BY BoundsAssumption DEF IndexInv, TypeInv, TypeOK, OffsetsUsable, CallKnown, Fault, image, header, cursor
<1>2. ListInv => ListInv'
  BY SMTT(20) DEF ListInv, FileInv, Represented, Disjoint, BelowEnd, Placed, HeadOf, At, HandFree, Searched,
         Chain, Key, NotIn, Prepared, Fault, image, cursor
<1> QED  BY <1>1, <1>2 DEF IndexInv, Fault

LEMMA DeathKeepsIndex ==
  ASSUME IndexInv, Leave, ret' = Pending, crashes' = crashes + 1,
         UNCHANGED <<image, header, faults, misrolled, lists>>
  PROVE  IndexInv'
<1>1. TypeInv' /\ CallKnown'
  BY DEF IndexInv, TypeInv, TypeOK, OffsetsUsable, CallKnown, Leave, image, header, Pending, Answer,
         NoMeta, NoCall, MetaInfo
<1>2. ListInv => ListInv'  BY QuietListInv DEF Leave
<1> QED  BY <1>1, <1>2 DEF IndexInv

LEMMA StepKeepsIndex == IndexInv /\ Step => IndexInv'
<1> SUFFICES ASSUME IndexInv, Step PROVE IndexInv'  OBVIOUS
<1>1. [Next]_vars  BY DEF Next
<1>2. TypeInv'  BY <1>1, NextTypeInv DEF IndexInv
<1>3. ASSUME ~misrolled' PROVE ListInv'
  BY <1>1, <1>3, MisrolledStays, NextListInv DEF IndexInv
<1> QED  BY <1>1, <1>2, <1>3, NextCallKnown DEF IndexInv

LEMMA UnchangedKeepsIndex == IndexInv /\ UNCHANGED index => IndexInv'
<1> SUFFICES ASSUME IndexInv, UNCHANGED index PROVE IndexInv'  OBVIOUS
<1>1. UNCHANGED vars  BY DEF index, vars
<1>2. TypeInv' /\ CallKnown'  BY <1>1, NextTypeInv, NextCallKnown DEF IndexInv
<1>3. ASSUME ~misrolled' PROVE ListInv'
  BY <1>1, <1>3, MisrolledStays, NextListInv DEF IndexInv
<1> QED  BY <1>2, <1>3 DEF IndexInv

(* The map of the index changes only in its own steps. *)
LEMMA SegsKept == UNCHANGED <<image, lists>> => Segs' = Segs
BY DEF Segs, SegmentsOf, RecordOf, Live, Elements, Segment, image

(* What a step of an operation does, as far as the programs can tell. *)
LEMMA StepHeader ==
  ASSUME IndexInv, Step
  PROVE  /\ ~CommitDataOffset => data_file_offset' = data_file_offset
         /\ ~AccountInsert => seq_no' = seq_no
         /\ crashes' = crashes /\ (faults' = faults \/ faults' = faults + 1)
         /\ pc # "idle"
         /\ pc' # "idle" => UNCHANGED <<call, ret>>
<1>1. CASE AccountInsert \/ AccountDelete
  <2>1. AccountDelete => block_info'.seq_no = block_info.seq_no
    BY DEF AccountDelete, UpdateBlockInfo, IndexInv, TypeInv, TypeOK
  <2> QED  BY <1>1, <2>1 DEF AccountInsert, AccountDelete, seq_no, bad, CommitDataOffset, Return, Leave
<1>2. CASE ~AccountInsert /\ ~AccountDelete
  BY <1>2 DEF Step, Find, FindHit, FindNext, FindMiss, FindFails, Insert, AllocateReused, AllocateNew,
    AllocateFails, WriteNode, WriteNodeFails, LinkNode, LinkNodeFails, Rollback, CommitDataOffset,
    ReadNode, ReadNodeFails, Delete, UnlinkNode, UnlinkNodeFails, ReleaseNode, ReleaseNodeFails,
    PushFree, IoFails, Goto, Return, Leave, header, bad, cursor, seq_no
<1> QED  BY <1>1, <1>2

(* The order of the steps that a program can tell. *)
LEMMA StepOrder ==
  ASSUME Step
  PROVE  /\ pc' = "commit" => LinkNode
         /\ pc' = "account" <=> CommitDataOffset
         /\ pc' = "release" => UnlinkNode
         /\ pc' \in {"push", "uncount"} => pc \in {"release", "push"}
         /\ pc = "commit" <=> CommitDataOffset
         /\ pc = "account" <=> AccountInsert
         /\ pc = "uncount" <=> AccountDelete
         /\ pc \in {"release", "push"} => pc' \in {"push", "uncount", "idle"}
BY DEF Step, Find, FindHit, FindNext, FindMiss, FindFails, Insert, AllocateReused, AllocateNew,
    AllocateFails, WriteNode, WriteNodeFails, LinkNode, LinkNodeFails, Rollback, CommitDataOffset,
    AccountInsert, AccountDelete, ReadNode, ReadNodeFails, Delete, UnlinkNode, UnlinkNodeFails,
    ReleaseNode, ReleaseNodeFails, PushFree, Goto, Return, Leave

-----------------------------------------------------------------------------
(* The types of the programs, and the calls they make *)

(* pwrite64 changes the unit it is told, and what lies behind the end. *)
LEMMA PutWrites ==
  ASSUME NEW N \in Nat, NEW s \in Seq(0 .. N), NEW k \in Nat, NEW x \in 0 .. N
  PROVE  /\ Put(s, k, x) \in Seq(0 .. N)
         /\ Len(Put(s, k, x)) >= Len(s) /\ Len(Put(s, k, x)) >= k + 1
         /\ Put(s, k, x)[k + 1] = x
         /\ \A i \in 1 .. Len(s) : i # k + 1 => Put(s, k, x)[i] = s[i]
<1> DEFINE n == IF k < Len(s) THEN Len(s) ELSE k + 1
           t == [i \in 1 .. n |-> IF i = k + 1 THEN x ELSE IF i <= Len(s) THEN s[i] ELSE 0]
<1>1. Len(s) \in Nat /\ \A i \in 1 .. Len(s) : s[i] \in 0 .. N  OBVIOUS
<1>2. n \in Nat /\ n >= Len(s) /\ n >= k + 1  BY <1>1
<1> HIDE DEF n
<1>3. t \in [1 .. n -> 0 .. N]  BY <1>1, <1>2
<1>4. t \in Seq(0 .. N) /\ Len(t) = n  BY <1>2, <1>3
<1>5. t[k + 1] = x /\ \A i \in 1 .. Len(s) : i # k + 1 => t[i] = s[i]  BY <1>1, <1>2
<1> HIDE DEF t
<1>6. Put(s, k, x) = t  BY DEF Put, t, n
<1> QED  BY <1>2, <1>4, <1>5, <1>6

Quiet == IndexInv /\ ProgramTypes /\ CallOfProgram

LEMMA SizeFacts == Size \in Nat \ {0} /\ MaxRuns \in Nat /\ main_blocksize \in Nat
BY BlockAssumption, SizesAssumption

LEMMA InitQuiet == BlockInit => Quiet
<1> SUFFICES ASSUME BlockInit PROVE Quiet  OBVIOUS
<1>1. IndexInv  BY InitTypeInv, InitListInv DEF BlockInit, IndexInv, CallKnown, Init, NoCall
<1>2. mainblock \in Seq(0 .. MaxRuns) /\ Len(mainblock) = main_blocksize
  <2>1. mainblock \in [1 .. main_blocksize -> 0 .. MaxRuns]  BY SizeFacts DEF BlockInit
  <2>2. mainblock \in Seq(0 .. MaxRuns)  BY <2>1, SizeFacts
  <2> QED  BY <2>1, <2>2, SizeFacts
<1>3. ProgramTypes  BY <1>2, SizeFacts, FS_EmptySet DEF BlockInit, ProgramTypes
<1>4. CallOfProgram  BY DEF BlockInit, Init, CallOfProgram
<1> QED  BY <1>1, <1>3, <1>4 DEF Quiet

LEMMA QuietStep ==
  ASSUME Quiet, [BlockNext]_allvars
  PROVE  Quiet'
<1> USE SizeFacts
<1>1. IndexInv /\ TypeOK /\ ProgramTypes /\ CallOfProgram  BY DEF Quiet, IndexInv, TypeInv
<1>0. IsFiniteSet(promised) /\ IsFiniteSet(doubtful)  BY <1>1 DEF ProgramTypes
<1>2. CASE WriteProgram
  <2>1. UNCHANGED index  BY <1>2 DEF WriteProgram
  <2>2. seq_no \in Nat /\ run + 1 \in 0 .. MaxRuns
    BY <1>1, <1>2 DEF TypeOK, ProgramTypes, WriteProgram, seq_no
  <2>3. IsFiniteSet(doubtful \cup {FileNo})  BY <1>1, FS_AddElement DEF ProgramTypes
  <2>4. ProgramTypes'
    BY <1>1, <1>2, <2>2, <2>3 DEF WriteProgram, Starts, ProgramTypes, FileNo, seq_no
  <2>5. CallOfProgram'
    BY <1>1, <1>2 DEF WriteProgram, Starts, CallOfProgram, index, image
  <2> QED  BY <1>1, <2>1, <2>4, <2>5, UnchangedKeepsIndex DEF Quiet
<1>3. CASE WriteData
  <2>1. UNCHANGED index  BY <1>3 DEF WriteData
  <2>2. DataOffset + moved \in Nat  BY <1>1 DEF TypeOK, ProgramTypes, DataOffset
  <2>3. mainblock' \in Seq(0 .. MaxRuns) /\ Len(mainblock') >= main_blocksize
    <3>1. mainblock' = Put(mainblock, DataOffset + moved, run)  BY <1>3 DEF WriteData
    <3>2. mainblock' \in Seq(0 .. MaxRuns) /\ Len(mainblock') >= Len(mainblock)
      BY <1>1, <2>2, <3>1, PutWrites DEF ProgramTypes
    <3>3. Len(mainblock) \in Nat /\ Len(mainblock') \in Nat  BY <1>1, <3>2 DEF ProgramTypes
    <3> QED  BY <1>1, <3>2, <3>3 DEF ProgramTypes
  <2>4. moved' \in 0 .. Size  BY <1>1, <1>3 DEF WriteData, ProgramTypes
  <2>5. ProgramTypes'  BY <1>1, <1>3, <2>3, <2>4 DEF WriteData, ProgramTypes, history
  <2>6. CallOfProgram'  BY <1>1, <1>3 DEF WriteData, CallOfProgram, index, image, Key, header
  <2> QED  BY <2>1, <2>5, <2>6, <1>1, UnchangedKeepsIndex DEF Quiet
<1>4. CASE WriteDataFails \/ FlushFails \/ ReadDataFails
  <2>1. Fault /\ Exit /\ UNCHANGED files
    BY <1>4 DEF WriteDataFails, FlushFails, ReadDataFails
  <2>2. pc = "idle"  BY <1>1, <1>4 DEF WriteDataFails, FlushFails, ReadDataFails, CallOfProgram, Returned
  <2>3. ProgramTypes'  BY <1>1, <2>1 DEF Exit, files, history, ProgramTypes
  <2>4. CallOfProgram'  BY <2>1, <2>2 DEF Exit, Fault, CallOfProgram
  <2> QED  BY <1>1, <2>1, <2>3, <2>4, FaultKeepsIndex DEF Quiet
<1>5. CASE WriteMeta
  <2> DEFINE meta == [key |-> file_id, offset |-> DataOffset, size |-> Size, next |-> Null]
  <2>1. StartFind("write", meta) /\ meta \in MetaInfo /\ meta.offset = data_file_offset
        /\ meta.key = file_id /\ meta.size = Size
    BY <1>1, <1>5 DEF WriteMeta, MetaInfo, ProgramTypes, TypeOK, DataOffset
  <2>2. free_head_offset # Null \/ index_file_size \in Nodes
    BY <1>1, <1>5 DEF WriteMeta, CallOfProgram
  <2> HIDE DEF meta
  <2>3. IndexInv'  BY <1>1, <2>1, <2>2, CallKeepsIndex
  <2>4. ProgramTypes'  BY <1>1, <1>5 DEF WriteMeta, files, history, ProgramTypes
  <2>5. CallOfProgram'  BY <1>5, <2>1 DEF WriteMeta, StartFind, CallOfProgram, Key
  <2> QED  BY <2>3, <2>4, <2>5 DEF Quiet
<1>6. CASE IndexStep
  <2>1. Step /\ UNCHANGED <<program, file_id, moved, files, printed>>  BY <1>6 DEF IndexStep
  <2>2. ProgramTypes'  BY <1>1, <2>1 DEF files, history, ProgramTypes
  <2>3. /\ pc # "idle" /\ program \notin {"none", "data"} /\ call.op = program /\ Key = file_id
        /\ pc' # "idle" => UNCHANGED <<call, ret>>
    BY <1>1, <2>1, StepHeader DEF CallOfProgram
  <2>4. pc' = "account" => call.meta.offset + Size = data_file_offset'
    <3> SUFFICES ASSUME pc' = "account" PROVE call.meta.offset + Size = data_file_offset'  OBVIOUS
    <3>1. CommitDataOffset /\ pc = "commit"  BY <2>1, StepOrder DEF CommitDataOffset
    <3>2. call.op = "write" /\ call.meta.offset = data_file_offset
      BY <1>1, <3>1 DEF IndexInv, CallKnown
    <3> QED  BY <1>1, <2>3, <3>1, <3>2 DEF CommitDataOffset, CallOfProgram
  <2>5. CallOfProgram'
    BY <1>1, <2>1, <2>3, <2>4 DEF CallOfProgram, Key
  <2> QED  BY <1>1, <2>1, <2>2, <2>5, StepKeepsIndex DEF Quiet
<1>7. CASE FinishWrite \/ FinishRead \/ FinishDelete
  <2>1. Exit /\ UNCHANGED index /\ run' = run /\ mainblock' = mainblock /\ pc = "idle"
    BY <1>7 DEF FinishWrite, FinishRead, FinishDelete, Returned, files
  <2>2. /\ promised' = promised \/ promised' = promised \cup {file_id}
        /\ doubtful' = doubtful \/ doubtful' = doubtful \ {file_id}
    BY <1>7 DEF FinishWrite, FinishRead, FinishDelete, files, history
  <2>3. IsFiniteSet(promised') /\ IsFiniteSet(doubtful') /\ promised' \subseteq Nat /\ doubtful' \subseteq Nat
    <3>1. IsFiniteSet(promised \cup {file_id}) /\ IsFiniteSet(doubtful \ {file_id})
      BY <1>0, FS_AddElement, FS_RemoveElement
    <3>2. file_id \in Nat /\ promised \subseteq Nat /\ doubtful \subseteq Nat  BY <1>1 DEF ProgramTypes
    <3> QED  BY <1>0, <2>2, <3>1, <3>2
  <2>4. ProgramTypes'  BY <1>1, <2>1, <2>2, <2>3 DEF Exit, ProgramTypes
  <2>5. CallOfProgram'  BY <2>1 DEF Exit, CallOfProgram, index
  <2> QED  BY <1>1, <2>1, <2>4, <2>5, UnchangedKeepsIndex DEF Quiet
<1>8. ASSUME NEW k \in Keys, ReadProgram(k) \/ DeleteProgram(k) PROVE Quiet'
  <2>1. PICK op \in {"read", "delete"} :
          /\ Starts(op, k) /\ StartFind(op, [NoMeta EXCEPT !.key = k])
          /\ UNCHANGED <<moved, run, mainblock>>
          /\ promised' = promised \/ promised' = promised \ {k}
          /\ doubtful' = doubtful \/ doubtful' = doubtful \cup {k}
    BY <1>8 DEF ReadProgram, DeleteProgram, BeginRead, BeginDelete, files, history
  <2>2. [NoMeta EXCEPT !.key = k] \in MetaInfo /\ [NoMeta EXCEPT !.key = k].key = k /\ k \in Nat
    BY KeysAssumption DEF NoMeta, MetaInfo
  <2>3. IndexInv'  BY <1>1, <2>1, <2>2, CallKeepsIndex
  <2>4. IsFiniteSet(promised') /\ IsFiniteSet(doubtful')
    <3>1. IsFiniteSet(promised \ {k}) /\ IsFiniteSet(doubtful \cup {k})
      BY <1>0, FS_AddElement, FS_RemoveElement
    <3> QED  BY <1>0, <2>1, <3>1
  <2>5. ProgramTypes'  BY <1>1, <2>1, <2>2, <2>4 DEF Starts, ProgramTypes
  <2>6. CallOfProgram'  BY <2>1, <2>2 DEF Starts, StartFind, CallOfProgram, Key
  <2> QED  BY <2>3, <2>5, <2>6 DEF Quiet
<1>9. CASE Dies
  <2>1. ProgramTypes'  BY <1>1, <1>9 DEF Dies, Exit, files, history, ProgramTypes
  <2>2. CallOfProgram'  BY <1>9 DEF Dies, Exit, Leave, CallOfProgram
  <2> QED  BY <1>1, <1>9, <2>1, <2>2, DeathKeepsIndex DEF Dies, Quiet
<1>10. CASE UNCHANGED allvars
  <2>1. UNCHANGED index  BY <1>10 DEF allvars
  <2>2. ProgramTypes'  BY <1>1, <1>10 DEF allvars, files, history, ProgramTypes
  <2>3. CallOfProgram'  BY <1>1, <1>10 DEF allvars, index, image, header, CallOfProgram, Key
  <2> QED  BY <1>1, <2>1, <2>2, <2>3, UnchangedKeepsIndex DEF Quiet
<1> QED
  BY <1>2, <1>3, <1>4, <1>5, <1>6, <1>7, <1>8, <1>9, <1>10 DEF BlockNext

(* Every variable of the programs keeps to its type, and with them every   *)
(* variable of the index, which they call as its callers may. *)
THEOREM BlockTypeCorrect == BlockSpec => []BlockTypeOK
<1>1. Quiet => BlockTypeOK  BY DEF Quiet, IndexInv, TypeInv, ProgramTypes, BlockTypeOK
<1> QED  BY <1>1, InitQuiet, QuietStep, PTL DEF BlockSpec

-----------------------------------------------------------------------------
(* What SegmentStore says of a step of the index *)

LEMMA StepStored ==
  ASSUME IndexInv, Step, ~misrolled'
  PROVE  /\ LinkNode => /\ Key \notin DOMAIN Segs
                        /\ Segs' = [k \in DOMAIN Segs \cup {Key} |->
                                      IF k = Key THEN Segment(call.meta) ELSE Segs[k]]
         /\ UnlinkNode => Segs' = [k \in DOMAIN Segs \ {Key} |-> Segs[k]]
         /\ ~LinkNode /\ ~UnlinkNode => Segs' = Segs
<1>1. [Next]_vars /\ IndexInv'  BY StepKeepsIndex DEF Next
<1>2. CASE LinkNode
  <2>1. Store!Insert /\ ~UnlinkNode  BY <1>1, <1>2, LinkInserts DEF LinkNode, UnlinkNode
  <2> QED  BY <1>2, <2>1 DEF Store!Insert, Store!Stored, Segs, Key
<1>3. CASE UnlinkNode
  <2>1. Store!Remove /\ ~LinkNode  BY <1>1, <1>3, UnlinkRemoves DEF LinkNode, UnlinkNode
  <2> QED  BY <1>3, <2>1 DEF Store!Remove, Store!Stored, Segs, Key
<1>4. CASE ~LinkNode /\ ~UnlinkNode
  BY <1>1, <1>4, OtherSegmentsKept DEF Segs
<1> QED  BY <1>2, <1>3, <1>4

LEMMA StepAnswers ==
  ASSUME IndexInv, Step, ~misrolled', pc' = "idle"
  PROVE  /\ ret'.status \in {"TFS_SUCCESS", "EXIT_META_UNEXPECT_FOUND_ERROR",
                             "EXIT_META_NOT_FOUND_ERROR", "DISK_ERROR"}
         /\ ret'.status = "TFS_SUCCESS" =>
              \/ AccountInsert \/ AccountDelete
              \/ call.op = "read" /\ Key \in DOMAIN Segs /\ Segment(ret'.meta) = Segs[Key]
         /\ ret'.status = "EXIT_META_UNEXPECT_FOUND_ERROR" =>
              call.op = "write" /\ Key \in DOMAIN Segs /\ pc = "find"
         /\ ret'.status = "EXIT_META_NOT_FOUND_ERROR" => call.op # "write" /\ Key \notin DOMAIN Segs
         /\ ret'.status = "DISK_ERROR" => faults' = faults + 1 /\ ~AccountInsert /\ ~AccountDelete
<1>1. [Next]_vars /\ IndexInv' /\ ~misrolled
  BY StepKeepsIndex, MisrolledStays DEF Next, IndexInv
<1>2. ~LinkNode /\ ~UnlinkNode /\ SegmentsOf' = SegmentsOf
  <2>1. ~LinkNode /\ ~UnlinkNode  BY DEF LinkNode, UnlinkNode, Goto
  <2> QED  BY <1>1, <2>1, OtherSegmentsKept
<1>3. CASE FindHit
  <2>1. call.op = "write" /\ ret'.status = "EXIT_META_UNEXPECT_FOUND_ERROR" /\ pc = "find"
    BY <1>3 DEF FindHit, Return, Answer
  <2>2. Store!Right([status |-> ret'.status, segment |-> Segment(ret'.meta)])
    BY <1>1, <1>2, <1>3, <2>1, SearchAnswers DEF Store!Return
  <2>3. Key \in DOMAIN Segs
    BY <2>1, <2>2 DEF Store!Right, Store!Answer, Store!Stored, Segs, Key
  <2> QED  BY <2>1, <2>3
<1>4. CASE FindMiss
  <2>1. call.op # "write" /\ ret'.status = "EXIT_META_NOT_FOUND_ERROR"
    BY <1>4 DEF FindMiss, Return, Answer, Goto
  <2>2. Store!Right([status |-> ret'.status, segment |-> Segment(ret'.meta)])
    BY <1>1, <1>2, <1>4, <2>1, SearchAnswers DEF Store!Return
  <2>3. Key \notin DOMAIN Segs
    BY <2>1, <2>2 DEF Store!Right, Store!Answer, Store!Stored, Segs, Key
  <2> QED  BY <2>1, <2>3
<1>5. CASE ReadNode
  <2>1. call.op = "read" /\ ret'.status = "TFS_SUCCESS" /\ pc = "found"
    BY <1>5 DEF ReadNode, Return, Answer
  <2>2. Store!Right([status |-> ret'.status, segment |-> Segment(ret'.meta)])
    BY <1>1, <1>2, <1>5, ReadAnswers DEF Store!Return
  <2>3. Key \in DOMAIN Segs /\ Segment(ret'.meta) = Segs[Key]
    BY <2>1, <2>2 DEF Store!Right, Store!Answer, Store!Stored, Segs, Key
  <2> QED  BY <2>1, <2>3
<1>6. CASE AccountInsert \/ AccountDelete
  BY <1>6 DEF AccountInsert, AccountDelete, Return, Answer
<1>7. CASE \/ FindFails \/ AllocateFails \/ WriteNodeFails \/ LinkNodeFails
           \/ ReadNodeFails \/ UnlinkNodeFails \/ ReleaseNodeFails
  <2>1. ret'.status = "DISK_ERROR" /\ faults' = faults + 1
    BY <1>7 DEF FindFails, AllocateFails, WriteNodeFails, LinkNodeFails, ReadNodeFails, UnlinkNodeFails,
      ReleaseNodeFails, Rollback, IoFails, Return, Answer
  <2>2. ~AccountInsert /\ ~AccountDelete
    BY <1>7 DEF FindFails, AllocateFails, WriteNodeFails, LinkNodeFails, ReadNodeFails, UnlinkNodeFails,
      ReleaseNodeFails, AccountInsert, AccountDelete
  <2> QED  BY <2>1, <2>2
<1>8. FindHit \/ FindMiss \/ ReadNode \/ AccountInsert \/ AccountDelete \/ FindFails \/ AllocateFails
      \/ WriteNodeFails \/ LinkNodeFails \/ ReadNodeFails \/ UnlinkNodeFails \/ ReleaseNodeFails
  BY <1>2 DEF Step, Find, FindNext, Insert, AllocateReused, AllocateNew, WriteNode, CommitDataOffset,
    Delete, ReleaseNode, PushFree, Goto
<1> QED  BY <1>3, <1>4, <1>5, <1>6, <1>7, <1>8

(* The other steps of the programs. *)
LEMMA OutsideIndex ==
  ASSUME Quiet, [BlockNext]_allvars, ~IndexStep
  PROVE  /\ UNCHANGED <<Segs, data_file_offset, seq_no, misrolled>>
         /\ crashes' = crashes \/ (Dies /\ crashes' = crashes + 1)
<1>1. UNCHANGED <<image, lists, data_file_offset, block_info, misrolled>>
      /\ (crashes' = crashes \/ (Dies /\ crashes' = crashes + 1))
  BY DEF BlockNext, WriteProgram, WriteData, WriteDataFails, WriteMeta, FinishWrite, FlushFails,
    ReadProgram, DeleteProgram, BeginRead, BeginDelete, StartFind, FinishRead, ReadDataFails,
    FinishDelete, Dies, Fault, allvars, index, header, bad
<1> QED  BY <1>1, SegsKept DEF seq_no

-----------------------------------------------------------------------------
(* The promises, one part at a time *)

LEMMA StillRight == ASSUME Quiet, [BlockNext]_allvars, ~misrolled' PROVE ~misrolled
<1>1. CASE IndexStep
  <2>1. [Next]_vars  BY <1>1 DEF IndexStep, Next
  <2> QED  BY <2>1, MisrolledStays DEF Quiet, IndexInv
<1>2. CASE ~IndexStep  BY <1>2, OutsideIndex
<1> QED  BY <1>1, <1>2

(* A write is given seq_no, which is past what is promised, and raises it  *)
(* before it says that the file is written. *)
LEMMA SeqNoStep ==
  ASSUME Quiet, Promises, [BlockNext]_allvars, ~misrolled'
  PROVE  SeqNoInv'
<1>1. IndexInv /\ TypeOK /\ ProgramTypes /\ CallOfProgram /\ SeqNoInv
  BY DEF Quiet, IndexInv, TypeInv, Promises
<1>2. seq_no \in Nat /\ crashes \in Nat /\ file_id \in Nat  BY <1>1 DEF TypeOK, seq_no, ProgramTypes
<1>3. CASE ~IndexStep
  <2>1. /\ UNCHANGED <<Segs, seq_no>> /\ crashes' \in Nat /\ (crashes' = 0 => crashes = 0)
        /\ crashes' = crashes \/ Dies
    BY <1>2, <1>3, OutsideIndex
  <2> HIDE DEF seq_no, Segs
  <2>2. CASE WriteProgram
    <3>1. FileNo = seq_no  BY DEF FileNo, seq_no
    <3> QED
      BY <1>1, <2>1, <2>2, <3>1
         DEF WriteProgram, Starts, SeqNoInv, Answered, Written, Succeeded, NoAnswer, CallOfProgram,
             index
  <2>3. CASE WriteData \/ WriteMeta
    BY <1>1, <2>1, <2>3
       DEF WriteData, WriteMeta, StartFind, Pending, Answer, SeqNoInv, Answered, Written, Succeeded,
           CallOfProgram, index, files, history
  <2>4. CASE WriteDataFails \/ FlushFails \/ ReadDataFails
    BY <1>1, <2>1, <2>4
       DEF WriteDataFails, FlushFails, ReadDataFails, Fault, Exit, Says, SeqNoInv, Answered, Written,
           Succeeded, CallOfProgram, Returned, files, history
  <2>5. CASE FinishWrite \/ FinishRead \/ FinishDelete
    BY <1>1, <2>1, <2>5
       DEF FinishWrite, FinishRead, FinishDelete, Exit, Says, SeqNoInv, Answered, Written,
           Succeeded, CallOfProgram, Returned, index, files, history
  <2>6. ASSUME NEW k \in Keys, ReadProgram(k) \/ DeleteProgram(k) PROVE SeqNoInv'
    BY <1>1, <2>1, <2>6
       DEF ReadProgram, DeleteProgram, BeginRead, BeginDelete, StartFind, Starts, NoAnswer, Pending, Answer,
           SeqNoInv, Answered, Written, Succeeded, CallOfProgram, files, history
  <2>7. CASE Dies
    <3>1. crashes' # 0  BY <1>2, <2>7 DEF Dies
    <3> QED
      BY <1>1, <2>1, <2>7, <3>1 DEF Dies, Leave, Exit, SeqNoInv, Answered, Written, files, history
  <2>8. CASE UNCHANGED allvars
    BY <1>1, <2>1, <2>8
       DEF allvars, index, files, history, header, SeqNoInv, Answered, Written, Succeeded
  <2> QED  BY <1>3, <2>2, <2>3, <2>4, <2>5, <2>6, <2>7, <2>8 DEF BlockNext
<1>4. CASE IndexStep
  <2>1. Step /\ UNCHANGED <<program, file_id, promised, printed>>
    BY <1>4 DEF IndexStep, files, history
  <2>2. /\ pc # "idle" /\ call.op = program /\ Key = file_id /\ program \notin {"none", "data"}
    BY <1>1, <2>1, StepHeader DEF CallOfProgram
  <2>3. CASE AccountInsert
    <3>1. seq_no' = seq_no + 1 /\ pc' = "idle" /\ pc = "account" /\ ret'.status = "TFS_SUCCESS"
      BY <1>1, <2>3 DEF AccountInsert, UpdateBlockInfo, TypeOK, seq_no, Return, Leave, Answer
    <3>2. Segs' = Segs  BY <1>1, <2>1, <2>3, StepStored DEF AccountInsert, LinkNode, UnlinkNode
    <3>3. program = "write" /\ file_id = seq_no
      BY <1>1, <2>2, <3>1 DEF SeqNoInv, IndexInv, CallKnown
    <3>4. DOMAIN Segs \subseteq Nat
      BY <1>1, LiveInNodes DEF Segs, SegmentsOf, TypeOK, MetaInfo
    <3>5. crashes' = crashes  BY <1>1, <2>1, StepHeader
    <3> HIDE DEF seq_no, Segs
    <3> QED
      BY <1>1, <1>2, <2>1, <3>1, <3>2, <3>3, <3>4, <3>5 DEF SeqNoInv, ProgramTypes
  <2>4. CASE ~AccountInsert
    <3>1. seq_no' = seq_no /\ crashes' = crashes  BY <1>1, <2>1, <2>4, StepHeader
    <3>2. pc' \in {"commit", "account"} <=> LinkNode \/ CommitDataOffset
      BY <2>1, StepOrder DEF LinkNode, Goto
    <3>3. pc' = "idle" /\ program = "write" => ret'.status # "TFS_SUCCESS"
      BY <1>1, <2>1, <2>2, <2>4, StepAnswers DEF AccountDelete, IndexInv, CallKnown
    <3>4. ASSUME crashes = 0, NEW k \in DOMAIN Segs'
          PROVE  k < seq_no \/ (pc' \in {"commit", "account"} /\ k = seq_no)
      <4>1. CASE k \in DOMAIN Segs
        <5>1. k < seq_no \/ (pc = "commit" /\ k = seq_no)
          BY <1>1, <2>1, <2>4, <3>4, <4>1, StepOrder DEF SeqNoInv
        <5> QED  BY <2>1, <3>2, <5>1, StepOrder
      <4>2. CASE k \notin DOMAIN Segs
        <5>1. LinkNode /\ k = Key  BY <1>1, <2>1, <4>2, <3>4, StepStored
        <5> QED  BY <1>1, <2>2, <3>2, <5>1 DEF SeqNoInv, LinkNode, IndexInv, CallKnown
      <4> QED  BY <4>1, <4>2
    <3>5. crashes = 0 => ret'.status # "EXIT_META_UNEXPECT_FOUND_ERROR"
      <4>1. CASE pc' = "idle"
        <5> SUFFICES ASSUME crashes = 0, ret'.status = "EXIT_META_UNEXPECT_FOUND_ERROR" PROVE FALSE
          OBVIOUS
        <5>1. program = "write" /\ Key \in DOMAIN Segs /\ pc = "find"
          BY <1>1, <2>1, <2>2, <4>1, StepAnswers
        <5>2. file_id = seq_no /\ Key = file_id  BY <1>1, <2>2, <5>1 DEF SeqNoInv
        <5>3. seq_no < seq_no  BY <1>1, <5>1, <5>2 DEF SeqNoInv
        <5> QED  BY <1>2, <5>3
      <4>2. CASE pc' # "idle"
        BY <1>1, <2>1, <4>2, StepHeader DEF SeqNoInv
      <4> QED  BY <4>1, <4>2
    <3>6. program = "write" /\ pc' # "idle" => file_id = seq_no
      BY <1>1, <2>2 DEF SeqNoInv
    <3> HIDE DEF seq_no, Segs
    <3>7. ~(Answered /\ Written)'
      BY <2>1, <3>3 DEF Answered, Written, Succeeded
    <3> QED
      BY <1>1, <2>1, <2>2, <3>1, <3>4, <3>5, <3>6, <3>7 DEF SeqNoInv
  <2> QED  BY <2>3, <2>4
<1> QED  BY <1>3, <1>4

LEMMA SegsTyped ==
  ASSUME TypeOK, NEW k \in DOMAIN Segs
  PROVE  k \in Nat /\ Segs[k] \in [offset : Nat, size : Nat]
<1>1. PICK n \in Live : nodes[n].key = k  BY DEF Segs, SegmentsOf
<1>2. RecordOf(k) \in Live  BY <1>1 DEF RecordOf
<1>3. nodes[RecordOf(k)] \in MetaInfo /\ nodes[n] \in MetaInfo  BY <1>2, LiveInNodes DEF TypeOK
<1> QED  BY <1>1, <1>3 DEF Segs, SegmentsOf, Segment, MetaInfo

(* A program puts its data behind what is promised, and a file it says to  *)
(* be written is where its data is. *)
LEMMA DataStep ==
  ASSUME Quiet, Quiet', Promises, [BlockNext]_allvars, ~misrolled'
  PROVE  DataInv'
<1> USE SizeFacts
<1>1. IndexInv /\ TypeOK /\ ProgramTypes /\ CallOfProgram /\ DataInv /\ KnownInv
  BY DEF Quiet, IndexInv, TypeInv, Promises
<1>2. /\ data_file_offset \in Nat /\ moved \in 0 .. Size /\ run \in 0 .. MaxRuns
      /\ mainblock \in Seq(0 .. MaxRuns) /\ Len(mainblock) \in Nat
  BY <1>1 DEF TypeOK, ProgramTypes
<1>3. \A k \in promised : k \in DOMAIN Segs /\ InMain(Segs[k]) /\ Segs[k].offset \in Nat
  BY <1>1, SegsTyped DEF DataInv
<1>4. CASE WriteData
  <2>1. /\ UNCHANGED <<Segs, data_file_offset>>
        /\ UNCHANGED <<index, program, file_id, run, promised>> /\ program = "data" /\ moved < Size
        /\ mainblock' = Put(mainblock, data_file_offset + moved, run) /\ moved' = moved + 1
        /\ ~IndexStep
    <3>1. ~IndexStep  BY <1>4 DEF WriteData, IndexStep
    <3> QED  BY <1>4, <3>1, OutsideIndex DEF WriteData, history, DataOffset
  <2> HIDE DEF Segs
  <2> DEFINE k == data_file_offset + moved
             s == Put(mainblock, k, run)
  <2>2. k \in Nat /\ k >= data_file_offset  BY <1>2
  <2> HIDE DEF k
  <2>3. /\ Len(s) \in Nat /\ Len(s) >= Len(mainblock) /\ Len(s) >= k + 1 /\ s[k + 1] = run
        /\ \A i \in 1 .. Len(mainblock) : i # k + 1 => s[i] = mainblock[i]
    <3>1. s \in Seq(0 .. MaxRuns)  BY <1>2, <2>2, PutWrites
    <3> QED  BY <1>2, <2>2, <3>1, PutWrites
  <2>4. mainblock' = s  BY <2>1 DEF k
  <2> HIDE DEF s
  <2>5. \A j \in promised : InMain(Segs[j])'
    BY <1>2, <1>3, <2>1, <2>3, <2>4 DEF InMain
  <2>6. ASSUME NEW i \in 1 .. moved + 1 PROVE s[data_file_offset + i] = run
    <3>1. CASE i = moved + 1  BY <1>2, <2>3, <3>1 DEF k
    <3>2. CASE i # moved + 1
      <4>1. i \in 1 .. moved /\ moved > 0  BY <1>2, <3>2
      <4>2. Holds(data_file_offset, moved)  BY <1>1, <2>1, <4>1 DEF DataInv
      <4> DEFINE j == data_file_offset + i
      <4>3. mainblock[j] = run  BY <4>1, <4>2 DEF Holds
      <4>4. j \in 1 .. Len(mainblock) /\ j # k + 1  BY <1>2, <4>1, <4>2 DEF Holds, k
      <4> HIDE DEF j
      <4>5. s[j] = run  BY <2>3, <4>3, <4>4
      <4> QED  BY <4>5 DEF j
    <3> QED  BY <3>1, <3>2
  <2>7. Holds(data_file_offset, moved)'
    <3>1. data_file_offset + (moved + 1) <= Len(s)  BY <1>2, <2>3 DEF k
    <3> QED  BY <2>1, <2>4, <2>6, <3>1 DEF Holds
  <2>8. ~Written' /\ (program' = "write" <=> FALSE)  BY <2>1 DEF Written
  <2> QED  BY <1>3, <2>1, <2>5, <2>7, <2>8 DEF DataInv
<1>5. CASE WriteProgram
  <2>1. /\ UNCHANGED <<Segs, data_file_offset, mainblock, promised>> /\ program' = "data" /\ moved' = 0
    <3>1. ~IndexStep /\ moved = 0  BY <1>1, <1>5 DEF WriteProgram, Starts, IndexStep, ProgramTypes
    <3> QED  BY <1>5, <3>1, OutsideIndex DEF WriteProgram, Starts
  <2> HIDE DEF Segs
  <2>2. \A j \in promised : InMain(Segs[j])'  BY <1>3, <2>1 DEF InMain
  <2> QED  BY <1>3, <2>1, <2>2 DEF DataInv, Written
<1>6. CASE WriteMeta
  <2>1. /\ UNCHANGED <<Segs, data_file_offset, mainblock, promised, run>> /\ program = "data"
        /\ program' = "write" /\ moved = Size
        /\ pc' = "find" /\ call'.meta.offset = data_file_offset
    <3>1. ~IndexStep  BY <1>6 DEF WriteMeta, IndexStep
    <3> QED  BY <1>6, <3>1, OutsideIndex DEF WriteMeta, StartFind, files, history, DataOffset
  <2> HIDE DEF Segs
  <2>2. \A j \in promised : InMain(Segs[j])'  BY <1>3, <2>1 DEF InMain
  <2>3. Holds(call.meta.offset, Size)'  BY <1>1, <2>1 DEF DataInv, Holds
  <2> QED  BY <1>3, <2>1, <2>2, <2>3 DEF DataInv, Written, Answered
<1>7. CASE WriteDataFails \/ FlushFails \/ ReadDataFails \/ FinishWrite \/ FinishRead \/ FinishDelete \/ Dies
  <2>1. /\ UNCHANGED <<Segs, data_file_offset, mainblock>> /\ program' = "none"
        /\ promised' = promised \/ (promised' = promised \cup {file_id} /\ Written /\ pc = "idle")
    <3>1. ~IndexStep
      BY <1>7 DEF WriteDataFails, FlushFails, ReadDataFails, FinishWrite, FinishRead, FinishDelete, Dies,
        Exit, IndexStep
    <3> QED
      BY <1>7, <3>1, OutsideIndex
         DEF WriteDataFails, FlushFails, ReadDataFails, FinishWrite, FinishRead, FinishDelete, Dies,
             Exit, files, history, Returned, Written, Answered
  <2> HIDE DEF Segs
  <2>2. \A j \in promised' : j \in DOMAIN Segs /\ InMain(Segs[j])
    BY <1>1, <2>1 DEF DataInv
  <2>3. \A j \in promised' : InMain(Segs[j])'  BY <2>1, <2>2 DEF InMain
  <2> QED  BY <2>1, <2>2, <2>3 DEF DataInv, Written
<1>8. ASSUME NEW k \in Keys, ReadProgram(k) \/ DeleteProgram(k) PROVE DataInv'
  <2>1. /\ UNCHANGED <<Segs, data_file_offset, mainblock>> /\ program' \in {"read", "delete"}
        /\ promised' \subseteq promised
    <3>1. ~IndexStep
      BY <1>8 DEF ReadProgram, DeleteProgram, Starts, IndexStep
    <3> QED
      BY <1>8, <3>1, OutsideIndex DEF ReadProgram, DeleteProgram, Starts, files, history
  <2> HIDE DEF Segs
  <2>2. \A j \in promised' : InMain(Segs[j])'  BY <1>3, <2>1 DEF InMain
  <2> QED  BY <1>3, <2>1, <2>2 DEF DataInv, Written
<1>9. CASE UNCHANGED allvars
  <2>1. UNCHANGED <<Segs, data_file_offset, mainblock, promised, program, moved, pc, call, run, file_id, ret>>
    BY <1>9, SegsKept DEF allvars, index, image, header, files, history
  <2> HIDE DEF Segs
  <2> QED  BY <1>1, <2>1 DEF DataInv, InMain, Holds, Written, Answered, Succeeded
<1>10. CASE IndexStep
  <2>1. Step /\ UNCHANGED <<program, file_id, moved, promised, mainblock, run>>
    BY <1>10 DEF IndexStep, files, history
  <2>2. /\ pc # "idle" /\ call.op = program /\ Key = file_id /\ program \notin {"none", "data"}
    BY <1>1, <2>1, StepHeader DEF CallOfProgram
  <2>3. call.meta \in MetaInfo /\ call.meta.size \in Nat /\ call.meta.offset \in Nat
    BY <1>1 DEF TypeOK, MetaInfo
  <2>4. data_file_offset' >= data_file_offset /\ data_file_offset' \in Nat
    <3>1. CASE CommitDataOffset  BY <1>2, <2>3, <3>1 DEF CommitDataOffset
    <3>2. CASE ~CommitDataOffset  BY <1>1, <1>2, <2>1, <3>2, StepHeader
    <3> QED  BY <3>1, <3>2
  <2>5. \A k \in promised : k \in DOMAIN Segs' /\ Segs'[k] = Segs[k]
    <3>1. UnlinkNode => file_id \notin promised
      BY <1>1, <2>2 DEF UnlinkNode, KnownInv
    <3> HIDE DEF Segs
    <3> QED  BY <1>1, <1>3, <2>1, <2>2, <3>1, StepStored
  <2>6. \A k \in promised : InMain(Segs[k])'
    <3> HIDE DEF Segs
    <3> QED  BY <1>2, <1>3, <2>1, <2>4, <2>5 DEF InMain
  <2>7. pc' # "idle" => call' = call  BY <1>1, <2>1, StepHeader
  <2>8. program = "write" => Holds(call.meta.offset, Size)  BY <1>1, <2>2 DEF DataInv
  <2>9. program = "write" /\ pc' # "idle" => Holds(call.meta.offset, Size)'
    BY <2>1, <2>7, <2>8 DEF Holds
  <2>10. ASSUME Written', pc' # "idle"
         PROVE  file_id \in DOMAIN Segs' /\ Segs'[file_id] = Segment(call.meta)
    <3>1. LinkNode \/ (CommitDataOffset /\ pc = "commit")
      BY <2>1, <2>10, StepOrder DEF Written, Answered
    <3>2. program = "write"  BY <2>1, <2>10 DEF Written
    <3>3. CASE LinkNode
      BY <1>1, <2>1, <2>2, <3>3, StepStored
    <3>4. CASE CommitDataOffset /\ pc = "commit"
      <4>1. Segs' = Segs
        BY <1>1, <2>1, <3>4, StepStored DEF CommitDataOffset, LinkNode, UnlinkNode
      <4> QED  BY <1>1, <2>2, <3>2, <3>4, <4>1 DEF DataInv, Written
    <3> QED  BY <3>1, <3>3, <3>4
  <2>11. ASSUME Written', pc' = "idle"
         PROVE  file_id \in DOMAIN Segs' /\ InMain(Segs[file_id])' /\ Holds(Segs[file_id].offset, Size)'
    <3>1. program = "write" /\ ret'.status = "TFS_SUCCESS"
      BY <2>1, <2>11 DEF Written, Answered, Succeeded
    <3>2. AccountInsert /\ pc = "account"
      <4>1. AccountInsert \/ AccountDelete
        BY <1>1, <2>1, <2>2, <2>11, <3>1, StepAnswers
      <4> QED  BY <1>1, <2>2, <3>1, <4>1 DEF AccountInsert, AccountDelete, IndexInv, CallKnown
    <3>3. Segs' = Segs /\ data_file_offset' = data_file_offset
      BY <1>1, <2>1, <3>2, StepStored DEF AccountInsert, LinkNode, UnlinkNode
    <3>4. file_id \in DOMAIN Segs /\ Segs[file_id] = Segment(call.meta)
      BY <1>1, <2>2, <3>1, <3>2 DEF DataInv, Written
    <3> DEFINE g == Segs[file_id]
    <3>5. g.size = Size /\ g.offset = call.meta.offset /\ g.offset + Size = data_file_offset
      BY <1>1, <3>1, <3>2, <3>4 DEF Segment, CallOfProgram
    <3>6. Segs'[file_id'] = g  BY <2>1, <3>3
    <3>7. Holds(g.offset, Size)  BY <2>8, <3>1, <3>5
    <3> HIDE DEF g, Segs
    <3>8. g.offset + Size <= data_file_offset /\ g.offset + Size <= Len(mainblock)
      BY <1>2, <3>5, <3>7 DEF Holds
    <3>9. InMain(Segs[file_id])'  BY <2>1, <3>3, <3>5, <3>6, <3>8 DEF InMain
    <3>10. Holds(Segs[file_id].offset, Size)'  BY <2>1, <3>6, <3>7 DEF Holds
    <3> QED  BY <3>3, <3>4, <3>9, <3>10
  <2> HIDE DEF Segs
  <2> QED  BY <2>1, <2>2, <2>5, <2>6, <2>7, <2>9, <2>10, <2>11 DEF DataInv
<1> QED
  BY <1>4, <1>5, <1>6, <1>7, <1>8, <1>9, <1>10 DEF BlockNext

(* What is stored, a program said to be written or has said nothing about; *)
(* what a read or a delete is told is so when it says it. *)
LEMMA KnownStep ==
  ASSUME Quiet, Quiet', Promises, [BlockNext]_allvars, ~misrolled'
  PROVE  KnownInv'
<1>1. IndexInv /\ CallKnown /\ TypeOK /\ ProgramTypes /\ CallOfProgram /\ KnownInv /\ SeqNoInv
  BY DEF Quiet, IndexInv, TypeInv, Promises
<1>2. CASE ~IndexStep
  <2>1. Segs' = Segs  BY <1>2, OutsideIndex
  <2> HIDE DEF Segs
  <2>2. CASE WriteProgram
    <3>1. FileNo \notin promised
      BY <1>1 DEF SeqNoInv, FileNo, seq_no, TypeOK
    <3> QED  BY <1>1, <2>1, <2>2, <3>1 DEF WriteProgram, Starts, KnownInv
  <2>3. CASE WriteData \/ WriteMeta
    BY <1>1, <2>1, <2>3 DEF WriteData, WriteMeta, KnownInv, files, history
  <2>4. CASE WriteDataFails \/ FlushFails \/ ReadDataFails \/ FinishRead \/ Dies
    BY <1>1, <2>1, <2>4
       DEF WriteDataFails, FlushFails, ReadDataFails, FinishRead, Dies, Exit, KnownInv, files, history
  <2>5. CASE FinishWrite \/ FinishDelete
    BY <1>1, <2>1, <2>5 DEF FinishWrite, FinishDelete, Exit, KnownInv, Answered, Returned
  <2>6. ASSUME NEW k \in Keys, ReadProgram(k) \/ DeleteProgram(k) PROVE KnownInv'
    BY <1>1, <2>1, <2>6
       DEF ReadProgram, DeleteProgram, BeginRead, BeginDelete, StartFind, Starts, KnownInv, Answered,
           files, history
  <2>7. CASE UNCHANGED allvars
    BY <1>1, <2>1, <2>7 DEF allvars, index, files, history, KnownInv, Answered, Succeeded
  <2> QED  BY <1>2, <2>2, <2>3, <2>4, <2>5, <2>6, <2>7 DEF BlockNext
<1>3. CASE IndexStep
  <2>1. Step /\ UNCHANGED <<program, file_id, promised, doubtful>>
    BY <1>3 DEF IndexStep, files, history
  <2>2. /\ pc # "idle" /\ call.op = program /\ Key = file_id /\ program \notin {"none", "data"}
    BY <1>1, <2>1, StepHeader DEF CallOfProgram
  <2>3. LinkNode => program = "write"  BY <1>1, <2>2 DEF LinkNode, CallKnown
  <2>4. UnlinkNode => program = "delete"  BY <2>2 DEF UnlinkNode
  <2>5. DOMAIN Segs' \subseteq promised \cup doubtful
    <3> HIDE DEF Segs
    <3> QED  BY <1>1, <2>1, <2>2, <2>3, StepStored DEF KnownInv
  <2>6. ASSUME program = "read", pc' = "idle"
        PROVE  /\ ret'.status = "TFS_SUCCESS" =>
                    file_id \in DOMAIN Segs' /\ Segment(ret'.meta) = Segs'[file_id]
               /\ \/ ret'.status \in {"TFS_SUCCESS", "DISK_ERROR"}
                  \/ ret'.status = "EXIT_META_NOT_FOUND_ERROR" /\ file_id \notin DOMAIN Segs'
    <3>1. Segs' = Segs  BY <1>1, <2>1, <2>3, <2>4, <2>6, StepStored
    <3>2. ~AccountInsert /\ ~AccountDelete  BY <1>1, <2>2, <2>6 DEF AccountInsert, AccountDelete, CallKnown
    <3> HIDE DEF Segs
    <3> QED  BY <1>1, <2>1, <2>2, <2>6, <3>1, <3>2, StepAnswers
  <2>7. ASSUME program = "delete", pc' \in {"release", "push", "uncount"}
        PROVE  file_id \notin DOMAIN Segs'
    <3> HIDE DEF Segs
    <3>1. CASE UnlinkNode  BY <1>1, <2>1, <2>2, <3>1, StepStored
    <3>2. CASE ~UnlinkNode
      <4>1. pc \in {"release", "push"}  BY <2>1, <2>7, <3>2, StepOrder
      <4> QED  BY <1>1, <2>1, <2>3, <2>7, <3>2, <4>1, StepStored DEF KnownInv
    <3> QED  BY <3>1, <3>2
  <2>8. ASSUME program = "delete", pc' = "idle", ret'.status # "DISK_ERROR"
        PROVE  file_id \notin DOMAIN Segs'
    <3>1. ~LinkNode /\ ~UnlinkNode  BY <2>8 DEF LinkNode, UnlinkNode, Goto
    <3>2. Segs' = Segs  BY <1>1, <2>1, <3>1, StepStored
    <3>3. ret'.status = "TFS_SUCCESS" => pc = "uncount"
      BY <1>1, <2>1, <2>2, <2>8, StepAnswers DEF AccountInsert, AccountDelete, CallKnown
    <3> HIDE DEF Segs
    <3> QED  BY <1>1, <2>1, <2>2, <2>8, <3>2, <3>3, StepAnswers DEF KnownInv
  <2> HIDE DEF Segs
  <2>9. Answered' <=> program \in {"write", "read", "delete"} /\ pc' = "idle"
    BY <2>1 DEF Answered
  <2> QED  BY <1>1, <2>1, <2>5, <2>6, <2>7, <2>8, <2>9 DEF KnownInv, Succeeded
<1> QED  BY <1>2, <1>3

(* A set that gains at most one element. *)
LEMMA CountSubset ==
  ASSUME NEW A, IsFiniteSet(A), NEW B, NEW x
  PROVE  /\ Cardinality(A) \in Nat
         /\ B \subseteq A => Cardinality(B) \in Nat /\ Cardinality(B) <= Cardinality(A)
         /\ B \subseteq A \cup {x} => Cardinality(B) \in Nat /\ Cardinality(B) <= Cardinality(A) + 1
<1>1. Cardinality(A) \in Nat  BY FS_CardinalityType
<1>2. ASSUME B \subseteq A PROVE Cardinality(B) \in Nat /\ Cardinality(B) <= Cardinality(A)
  BY <1>2, FS_Subset, FS_CardinalityType
<1>3. ASSUME B \subseteq A \cup {x}
      PROVE  Cardinality(B) \in Nat /\ Cardinality(B) <= Cardinality(A) + 1
  <2> DEFINE C == A \cup {x}
  <2>1. IsFiniteSet(C)  BY FS_AddElement
  <2>2. Cardinality(C) = IF x \in A THEN Cardinality(A) ELSE Cardinality(A) + 1  BY FS_AddElement
  <2>3. Cardinality(C) <= Cardinality(A) + 1 /\ Cardinality(C) \in Nat  BY <1>1, <2>2
  <2>4. B \in SUBSET C  BY <1>3
  <2> HIDE DEF C
  <2>5. IsFiniteSet(B) /\ Cardinality(B) <= Cardinality(C)  BY <2>1, <2>4, FS_Subset
  <2>6. Cardinality(B) \in Nat  BY <2>5, FS_CardinalityType
  <2> QED  BY <1>1, <2>3, <2>5, <2>6
<1> QED  BY <1>1, <1>2, <1>3

(* The sum of OrphansInv before and after a step. *)
LEMMA CountMoves ==
  \A c, d, o, p, x, y, u, v \in Nat :
    c + o <= x + y =>
      /\ d <= c /\ p + x + y <= o + u + v => d + p <= u + v
      /\ d <= c + 1 /\ p = 0 /\ 1 + x + y <= o + u + v => d + p <= u + v
OBVIOUS

LEMMA OrphansFinite == ProgramTypes /\ KnownInv => IsFiniteSet(Orphans)
<1> SUFFICES ASSUME ProgramTypes, KnownInv PROVE IsFiniteSet(Orphans)  OBVIOUS
<1>1. IsFiniteSet(promised) /\ IsFiniteSet(doubtful)  BY DEF ProgramTypes
<1>2. IsFiniteSet(promised \cup doubtful)  BY <1>1, FS_Union
<1>3. Orphans \in SUBSET (promised \cup doubtful)  BY DEF Orphans, KnownInv
<1> QED  BY <1>2, <1>3, FS_Subset

(* Every file that nobody was told of is paid for by a death or an error. *)
LEMMA OrphansStep ==
  ASSUME Quiet, Quiet', Promises, [BlockNext]_allvars, ~misrolled'
  PROVE  OrphansInv'
<1>1. IndexInv /\ CallKnown /\ TypeOK /\ ProgramTypes /\ CallOfProgram /\ KnownInv /\ OrphansInv
  BY DEF Quiet, IndexInv, TypeInv, Promises
<1>2. /\ IsFiniteSet(Orphans) /\ Cardinality(Orphans) \in Nat /\ crashes \in Nat /\ faults \in Nat
      /\ Owed \in {0, 1}
  <2>1. IsFiniteSet(Orphans)  BY <1>1, OrphansFinite
  <2>2. Cardinality(Orphans) \in Nat  BY <2>1, FS_CardinalityType
  <2>3. Owed \in {0, 1}  BY DEF Owed
  <2> QED  BY <1>1, <2>1, <2>2, <2>3, BoundsAssumption DEF TypeOK
<1>3. ASSUME Orphans' \subseteq Orphans, Owed' + crashes + faults <= Owed + crashes' + faults',
             crashes' \in Nat, faults' \in Nat, Owed' \in {0, 1}
      PROVE  OrphansInv'
  <2>1. Cardinality(Orphans') \in Nat /\ Cardinality(Orphans') <= Cardinality(Orphans)
    BY <1>2, <1>3, CountSubset
  <2>2. Cardinality(Orphans) + Owed <= crashes + faults  BY <1>1 DEF OrphansInv
  <2>3. Cardinality(Orphans') + Owed' <= crashes' + faults'
    <3>1. Owed \in Nat /\ Owed' \in Nat  BY <1>2, <1>3
    <3> QED  BY <1>2, <1>3, <2>1, <2>2, <3>1, CountMoves
  <2> QED  BY <2>3 DEF OrphansInv
<1>4. ASSUME Orphans' \subseteq Orphans \cup {file_id},
             1 + crashes + faults <= Owed + crashes' + faults',
             crashes' \in Nat, faults' \in Nat, Owed' = 0
      PROVE  OrphansInv'
  <2>1. Cardinality(Orphans') \in Nat /\ Cardinality(Orphans') <= Cardinality(Orphans) + 1
    BY <1>2, <1>4, CountSubset
  <2>2. Cardinality(Orphans) + Owed <= crashes + faults  BY <1>1 DEF OrphansInv
  <2>3. Cardinality(Orphans') + Owed' <= crashes' + faults'
    <3>1. Owed \in Nat  BY <1>2
    <3> QED  BY <1>2, <1>4, <2>1, <2>2, <3>1, CountMoves
  <2> QED  BY <2>3 DEF OrphansInv
<1>5. CASE ~IndexStep
  <2>1. Segs' = Segs  BY <1>5, OutsideIndex
  <2> HIDE DEF Segs
  <2>2. CASE WriteProgram \/ WriteData \/ WriteMeta \/ FinishWrite \/ FinishRead
    <3>1. crashes' = crashes /\ faults' = faults /\ Owed' = 0
      BY <1>1, <2>2
         DEF WriteProgram, WriteData, WriteMeta, FinishWrite, FinishRead, StartFind, Starts, Exit, Owed,
             index, bad
    <3>2. Orphans' \subseteq Orphans
      BY <1>1, <2>1, <2>2
         DEF WriteProgram, WriteData, WriteMeta, FinishWrite, FinishRead, StartFind, Starts, Exit,
             Orphans, InHand, Written, Answered, Returned, files, history
    <3>3. Owed' + crashes + faults <= Owed + crashes' + faults'  BY <1>2, <3>1
    <3> QED  BY <1>2, <1>3, <3>1, <3>2, <3>3
  <2>3. CASE WriteDataFails \/ FlushFails \/ ReadDataFails
    <3>1. crashes' = crashes /\ faults' = faults + 1 /\ Owed' = 0
      BY <1>1, <2>3 DEF WriteDataFails, FlushFails, ReadDataFails, Fault, Exit, Owed
    <3>2. Orphans' \subseteq Orphans \cup {file_id}
      BY <1>1, <2>1, <2>3
         DEF WriteDataFails, FlushFails, ReadDataFails, Exit, Orphans, InHand, files, history
    <3>3. 1 + crashes + faults <= Owed + crashes' + faults'  BY <1>2, <3>1
    <3> QED  BY <1>2, <1>4, <3>1, <3>2, <3>3
  <2>4. CASE Dies
    <3>1. crashes' = crashes + 1 /\ faults' = faults /\ Owed' = 0  BY <1>1, <2>4 DEF Dies, Exit, Owed
    <3>2. Orphans' \subseteq Orphans \cup {file_id}
      BY <1>1, <2>1, <2>4 DEF Dies, Exit, Orphans, InHand, files, history
    <3>3. 1 + crashes + faults <= Owed + crashes' + faults'  BY <1>2, <3>1
    <3> QED  BY <1>2, <1>4, <3>1, <3>2, <3>3
  <2>5. CASE FinishDelete
    <3>1. crashes' = crashes /\ faults' = faults /\ Owed' = 0
      BY <1>1, <2>5 DEF FinishDelete, Exit, Owed, index, bad
    <3>2. CASE ret.status = "DISK_ERROR"
      <4>1. Owed = 1  BY <2>5, <3>2 DEF Owed, FinishDelete, Answered, Returned
      <4>2. Orphans' \subseteq Orphans \cup {file_id}
        BY <1>1, <2>1, <2>5 DEF FinishDelete, Exit, Orphans, InHand
      <4>3. 1 + crashes + faults <= Owed + crashes' + faults'  BY <1>2, <3>1, <4>1
      <4> QED  BY <1>2, <1>4, <3>1, <4>2, <4>3
    <3>3. CASE ret.status # "DISK_ERROR"
      <4>1. file_id \notin DOMAIN Segs  BY <1>1, <2>5, <3>3 DEF KnownInv, FinishDelete, Answered, Returned
      <4>2. Orphans' \subseteq Orphans
        BY <1>1, <2>1, <2>5, <4>1 DEF FinishDelete, Exit, Orphans, InHand
      <4>3. Owed' + crashes + faults <= Owed + crashes' + faults'  BY <1>2, <3>1
      <4> QED  BY <1>2, <1>3, <3>1, <4>2, <4>3
    <3> QED  BY <3>2, <3>3
  <2>6. ASSUME NEW k \in Keys, ReadProgram(k) \/ DeleteProgram(k) PROVE OrphansInv'
    <3>1. crashes' = crashes /\ faults' = faults /\ Owed' = 0
      BY <1>1, <2>6
         DEF ReadProgram, DeleteProgram, BeginRead, BeginDelete, StartFind, Starts, Owed, Answered, bad
    <3>2. Orphans' \subseteq Orphans
      BY <1>1, <2>1, <2>6
         DEF ReadProgram, DeleteProgram, Starts, Orphans, InHand, Written, files, history
    <3>3. Owed' + crashes + faults <= Owed + crashes' + faults'  BY <1>2, <3>1
    <3> QED  BY <1>2, <1>3, <3>1, <3>2, <3>3
  <2>7. CASE UNCHANGED allvars
    <3>1. crashes' = crashes /\ faults' = faults /\ Owed' = Owed /\ Orphans' = Orphans
      BY <2>1, <2>7
         DEF allvars, index, bad, files, history, Owed, Answered, Orphans, InHand, Written, Succeeded
    <3> QED  BY <1>1, <3>1 DEF OrphansInv
  <2> QED  BY <1>5, <2>2, <2>3, <2>4, <2>5, <2>6, <2>7 DEF BlockNext
<1>6. CASE IndexStep
  <2>1. Step /\ UNCHANGED <<program, file_id, promised>>  BY <1>6 DEF IndexStep, files, history
  <2>2. /\ pc # "idle" /\ call.op = program /\ Key = file_id /\ program \in {"write", "read", "delete"}
    BY <1>1, <1>6, <2>1, StepHeader DEF CallOfProgram, IndexStep
  <2>3. crashes' = crashes /\ (faults' = faults \/ faults' = faults + 1)  BY <1>1, <2>1, StepHeader
  <2>4. Owed = 0 /\ Owed' \in {0, 1} /\ (Owed' = 1 => faults' = faults + 1)
    <3>1. Owed = 0 /\ Owed' \in {0, 1}  BY <2>2 DEF Owed, Answered
    <3>2. Owed' = 1 => pc' = "idle" /\ ret'.status = "DISK_ERROR"  BY DEF Owed, Answered
    <3> QED  BY <1>1, <2>1, <3>1, <3>2, StepAnswers
  <2>5. Owed' + crashes + faults <= Owed + crashes' + faults' /\ crashes' \in Nat /\ faults' \in Nat
    BY <1>2, <2>3, <2>4
  <2>6. LinkNode => program = "write" /\ Written' /\ pc' = "commit"
    BY <1>1, <2>1, <2>2 DEF LinkNode, CallKnown, Written, Goto
  <2>7. Written => Written'
    <3>1. CASE CommitDataOffset  BY <2>1, <3>1 DEF CommitDataOffset, Goto, Written
    <3>2. CASE AccountInsert
      BY <2>1, <3>2 DEF AccountInsert, Return, Leave, Answer, Written, Answered, Succeeded
    <3> QED  BY <2>1, <2>2, <3>1, <3>2, StepOrder DEF Written, Answered
  <2>8. Orphans' \subseteq Orphans
    <3>1. DOMAIN Segs' \subseteq DOMAIN Segs \cup (IF LinkNode THEN {file_id} ELSE {})
      <4> HIDE DEF Segs
      <4> QED  BY <1>1, <2>1, <2>2, StepStored
    <3>2. InHand \subseteq InHand'  BY <2>1, <2>7 DEF InHand
    <3>3. LinkNode => InHand' = {file_id}  BY <2>1, <2>6 DEF InHand
    <3> HIDE DEF Segs
    <3> QED  BY <2>1, <3>1, <3>2, <3>3 DEF Orphans
  <2> QED  BY <1>3, <2>4, <2>5, <2>8
<1> QED  BY <1>5, <1>6

LEMMA InitPromises == BlockInit => Promises
<1> SUFFICES ASSUME BlockInit PROVE Promises  OBVIOUS
<1>1. DOMAIN Segs = {} /\ promised = {} /\ doubtful = {}
  <2>1. Store!Init  BY InitImplements DEF BlockInit
  <2> QED  BY <2>1 DEF Store!Init, Segs, BlockInit
<1>2. program = "none" /\ pc = "idle" /\ crashes = 0 /\ faults = 0
  BY DEF BlockInit, Init
<1>3. SeqNoInv
  BY <1>1, <1>2 DEF BlockInit, Init, SeqNoInv, Answered, Written, Pending, Answer, NoAnswer
<1>4. DataInv /\ KnownInv  BY <1>1, <1>2 DEF DataInv, KnownInv, Written
<1>5. Orphans = {} /\ Owed = 0  BY <1>1, <1>2 DEF Orphans, Owed
<1>6. OrphansInv  BY <1>2, <1>5, FS_EmptySet DEF OrphansInv
<1> QED  BY <1>3, <1>4, <1>6 DEF Promises

LEMMA BlockStep == BlockInv /\ [BlockNext]_allvars => BlockInv'
<1> SUFFICES ASSUME BlockInv, [BlockNext]_allvars PROVE BlockInv'  OBVIOUS
<1>1. Quiet /\ Quiet'  BY QuietStep DEF BlockInv, Quiet
<1>2. ASSUME ~misrolled' PROVE Promises'
  <2>1. Promises  BY <1>1, <1>2, StillRight DEF BlockInv
  <2> QED  BY <1>1, <1>2, <2>1, SeqNoStep, DataStep, KnownStep, OrphansStep DEF Promises
<1> QED  BY <1>1, <1>2 DEF BlockInv, Quiet

(* The inductive invariant of the programs. *)
THEOREM BlockCorrect == BlockSpec => []BlockInv
<1>1. BlockInit => BlockInv  BY InitQuiet, InitPromises DEF BlockInv, Quiet
<1> QED  BY <1>1, BlockStep, PTL DEF BlockSpec

(* hash_insert refuses the id of block_write_test only if a program has    *)
(* died: the errors of a write or a delete leave seq_no_ past every id.    *)
THEOREM RefusedAfterDeath == BlockSpec => []RefusedOnlyAfterDeath
<1>1. BlockInv => RefusedOnlyAfterDeath
  BY BoundsAssumption
     DEF BlockInv, IndexInv, TypeInv, TypeOK, Promises, SeqNoInv, RefusedOnlyAfterDeath
<1> QED  BY <1>1, BlockCorrect, PTL

(* A file that is stored though nobody was told so is paid for by a death  *)
(* or a failed call, one by each. *)
THEOREM OrphansPaidFor == BlockSpec => []OrphansAccounted
<1>1. BlockInv => OrphansAccounted
  <2> SUFFICES ASSUME BlockInv, ~misrolled, program = "none"
               PROVE  Cardinality(StoredIds \ promised) <= crashes + faults
    BY DEF OrphansAccounted
  <2>1. Orphans = StoredIds \ promised /\ Owed = 0
    BY DEF Orphans, InHand, Written, Owed, Segs, SegmentsOf, StoredIds
  <2>2. Cardinality(Orphans) + Owed <= crashes + faults  BY DEF BlockInv, Promises, OrphansInv
  <2>3. IsFiniteSet(Orphans)  BY OrphansFinite DEF BlockInv, Promises
  <2>4. Cardinality(Orphans) \in Nat  BY <2>3, FS_CardinalityType
  <2> QED  BY <2>1, <2>2, <2>4
<1> QED  BY <1>1, BlockCorrect, PTL

-----------------------------------------------------------------------------
(* The programs implement BlockStore *)

(* A part of the main block, unit by unit. *)
LEMMA PartOf ==
  ASSUME NEW S, NEW s, NEW a \in Nat, NEW b \in Nat, a <= b + 1, \A i \in a .. b : s[i] \in S
  PROVE  SubSeq(s, a, b) = [i \in 1 .. b - a + 1 |-> s[a + i - 1]]
<1>1. /\ SubSeq(s, a, b) \in Seq(S)
      /\ Len(SubSeq(s, a, b)) = IF a <= b THEN b - a + 1 ELSE 0
      /\ \A i \in 1 .. b - a + 1 : SubSeq(s, a, b)[i] = s[a + i - 1]
  <2>1. a \in Int /\ b \in Int  OBVIOUS
  <2> QED  BY ONLY <2>1, SubSeqProperties, \A i \in a .. b : s[i] \in S
<1> DEFINE t == SubSeq(s, a, b)
           size == b - a + 1
<1>2. Len(t) = size  BY <1>1
<1>3. t \in Seq(S) /\ \A i \in 1 .. size : t[i] = s[a + i - 1]  BY <1>1
<1> HIDE DEF t, size
<1>4. t = [i \in 1 .. Len(t) |-> t[i]]  BY <1>3
<1>5. t = [i \in 1 .. size |-> s[a + i - 1]]  BY <1>2, <1>3, <1>4
<1> QED  BY <1>5 DEF t, size

LEMMA PartOfMain ==
  ASSUME NEW N \in Nat, NEW s \in Seq(0 .. N), NEW o \in Nat, NEW size \in Nat, o + size <= Len(s)
  PROVE  SubSeq(s, o + 1, o + size) = [i \in 1 .. size |-> s[o + i]]
<1>1. \A i \in o + 1 .. o + size : s[i] \in 0 .. N  OBVIOUS
<1>2. o + 1 \in Nat /\ o + size \in Nat /\ o + 1 <= (o + size) + 1  OBVIOUS
<1>3. SubSeq(s, o + 1, o + size)
        = [i \in 1 .. (o + size) - (o + 1) + 1 |-> s[(o + 1) + i - 1]]
  BY <1>1, <1>2, PartOf
<1>4. (o + size) - (o + 1) + 1 = size /\ \A i \in 1 .. size : (o + 1) + i - 1 = o + i  OBVIOUS
<1> QED  BY <1>3, <1>4

(* The data of a promised file. *)
DataAt(o) == [i \in 1 .. Size |-> mainblock[o + i]]

LEMMA StoredData ==
  ASSUME Quiet, NEW k \in DOMAIN Segs
  PROVE  /\ DataOf(k) = SubSeq(mainblock, Segs[k].offset + 1, Segs[k].offset + Segs[k].size)
         /\ InMain(Segs[k]) => DataOf(k) = DataAt(Segs[k].offset)
<1>1. DataOf(k) = SubSeq(mainblock, Segs[k].offset + 1, Segs[k].offset + Segs[k].size)
  BY DEF DataOf, StoredIds, Segs, SegmentsOf, RecordOf, Segment, Content
<1>2. Segs[k].offset \in Nat /\ mainblock \in Seq(0 .. MaxRuns) /\ MaxRuns \in Nat /\ Size \in Nat
  BY SegsTyped, SizeFacts DEF Quiet, ProgramTypes, IndexInv, TypeInv
<1> DEFINE g == Segs[k]
<1> HIDE DEF g
<1>3. ASSUME InMain(g), g.offset \in Nat
      PROVE  SubSeq(mainblock, g.offset + 1, g.offset + g.size) = DataAt(g.offset)
  <2>1. PICK o \in Nat : o = g.offset  BY <1>3
  <2>2. g.size = Size /\ o + Size <= Len(mainblock)  BY <1>3, <2>1 DEF InMain
  <2>3. SubSeq(mainblock, o + 1, o + Size) = [i \in 1 .. Size |-> mainblock[o + i]]
    BY <1>2, <2>2, PartOfMain
  <2> QED  BY <2>1, <2>2, <2>3 DEF DataAt
<1> QED  BY <1>1, <1>2, <1>3 DEF g

LEMMA PromisedData ==
  Quiet /\ DataInv => \A k \in promised : DataOf(k) = DataAt(Segs[k].offset)
BY StoredData DEF DataInv

LEMMA PromisedDataNext ==
  (Quiet /\ DataInv)' => (\A k \in promised : DataOf(k) = DataAt(Segs[k].offset))'
BY PromisedData, PTL

(* No step changes the data of a file that stays promised. *)
LEMMA PromisedKept ==
  ASSUME Quiet, Quiet', Promises, Promises', [BlockNext]_allvars, ~misrolled',
         NEW k \in promised, k \in promised'
  PROVE  DataOf(k)' = DataOf(k)
<1>1. IndexInv /\ TypeOK /\ ProgramTypes /\ CallOfProgram /\ DataInv /\ DataInv' /\ KnownInv
  BY DEF Quiet, IndexInv, TypeInv, Promises
<1>2. DataOf(k) = DataAt(Segs[k].offset) /\ DataOf(k)' = DataAt(Segs[k].offset)'
  BY <1>1, PromisedData, PromisedDataNext
<1>3. k \in DOMAIN Segs /\ InMain(Segs[k]) /\ Segs[k].offset \in Nat
  BY <1>1, SegsTyped DEF DataInv
<1>4. Segs'[k] = Segs[k]
  <2>1. CASE ~IndexStep
    <3>1. Segs' = Segs  BY <2>1, OutsideIndex
    <3> HIDE DEF Segs
    <3> QED  BY <3>1
  <2>2. CASE IndexStep
    <3>1. Step  BY <2>2 DEF IndexStep
    <3>2. Key = file_id /\ call.op = program /\ program \in {"write", "read", "delete"}
      BY <1>1, <2>2, <3>1, StepHeader DEF CallOfProgram, IndexStep
    <3>3. LinkNode => Key \notin DOMAIN Segs  BY <1>1, <3>1, StepStored
    <3>4. UnlinkNode => Key # k  BY <1>1, <3>2 DEF UnlinkNode, KnownInv
    <3> HIDE DEF Segs
    <3> QED  BY <1>1, <1>3, <3>1, <3>3, <3>4, StepStored
  <2> QED  BY <2>1, <2>2
<1> DEFINE o == Segs[k].offset
<1>5. o' = o /\ o \in Nat /\ o + Size <= data_file_offset /\ o + Size <= Len(mainblock)
  BY <1>3, <1>4 DEF InMain
<1>6. \A i \in 1 .. Size : mainblock'[o + i] = mainblock[o + i]
  <2>1. CASE WriteData
    <3> DEFINE d == data_file_offset + moved
    <3>1. mainblock' = Put(mainblock, d, run) /\ mainblock \in Seq(0 .. MaxRuns) /\ run \in 0 .. MaxRuns
          /\ d \in Nat /\ d >= data_file_offset /\ data_file_offset \in Nat /\ MaxRuns \in Nat
          /\ Size \in Nat /\ Len(mainblock) \in Nat
      BY <1>1, <2>1, SizeFacts DEF WriteData, DataOffset, TypeOK, ProgramTypes
    <3> HIDE DEF d, o
    <3>2. \A i \in 1 .. Len(mainblock) : i # d + 1 => mainblock'[i] = mainblock[i]
      BY SMTT(20), <3>1, PutWrites
    <3>3. \A i \in 1 .. Size : o + i \in 1 .. Len(mainblock) /\ o + i # d + 1
      BY <1>5, <3>1
    <3> QED  BY <3>2, <3>3
  <2>2. CASE ~WriteData
    <3>1. mainblock' = mainblock
      BY <2>2 DEF BlockNext, WriteProgram, WriteDataFails, WriteMeta, FinishWrite, FlushFails,
        ReadProgram, DeleteProgram, IndexStep, FinishRead, ReadDataFails, FinishDelete, Dies,
        files, allvars
    <3> QED  BY <3>1
  <2> QED  BY <2>1, <2>2
<1> HIDE DEF o
<1>7. DataAt(o)' = DataAt(o)  BY <1>5, <1>6 DEF DataAt
<1> QED  BY <1>2, <1>7 DEF o

PromisedFiles == [k \in promised |-> DataOf(k)]

LEMMA FilesKept ==
  ASSUME Quiet, Quiet', Promises, Promises', [BlockNext]_allvars, ~misrolled', promised' = promised
  PROVE  PromisedFiles' = PromisedFiles
<1>1. \A k \in promised : DataOf(k)' = DataOf(k)  BY PromisedKept
<1> QED  BY <1>1 DEF PromisedFiles

(* What the programs do to the data and to the index before they have said *)
(* how it went is not seen.                                                *)
LEMMA UnseenWork ==
  ASSUME Quiet, Quiet', Promises, Promises', [BlockNext]_allvars, ~misrolled',
         WriteData \/ WriteMeta \/ IndexStep \/ UNCHANGED allvars
  PROVE  UNCHANGED Abstract!vars
<1>1. /\ UNCHANGED <<promised, doubtful, file_id, run, printed>>
      /\ program' = program \/ (program = "data" /\ program' = "write")
  BY DEF WriteData, WriteMeta, IndexStep, allvars, files, history
<1>2. PromisedFiles' = PromisedFiles  BY <1>1, FilesKept
<1> QED  BY <1>1, <1>2 DEF Abstract!vars, PromisedFiles

LEMMA ProgramStarts ==
  ASSUME Quiet, Quiet', Promises, Promises', [BlockNext]_allvars, ~misrolled',
         WriteProgram \/ \E k \in Keys : ReadProgram(k) \/ DeleteProgram(k)
  PROVE  Abstract!Next
<1>1. CASE WriteProgram
  <2>1. FileNo \notin promised
    BY DEF Promises, SeqNoInv, FileNo, seq_no, Quiet, IndexInv, TypeInv, TypeOK
  <2>2. PromisedFiles' = PromisedFiles  BY <1>1, FilesKept DEF WriteProgram
  <2>3. Abstract!StartWrite
    BY <1>1, <2>1, <2>2 DEF WriteProgram, Starts, Abstract!StartWrite, Abstract!Ids, PromisedFiles
  <2> QED  BY <2>3 DEF Abstract!Next
<1>2. ASSUME NEW k \in Keys, ReadProgram(k) PROVE Abstract!Next
  <2>1. PromisedFiles' = PromisedFiles  BY <1>2, FilesKept DEF ReadProgram, files, history
  <2>2. Abstract!StartRead
    BY <1>2, <2>1 DEF ReadProgram, Starts, Abstract!StartRead, PromisedFiles, files, history
  <2> QED  BY <2>2 DEF Abstract!Next
<1>3. ASSUME NEW k \in Keys, DeleteProgram(k) PROVE Abstract!Next
  <2>1. promised' = promised \ {k}  BY <1>3 DEF DeleteProgram
  <2>2. \A j \in promised' : DataOf(j)' = DataOf(j)  BY <2>1, PromisedKept
  <2>3. PromisedFiles' = [j \in promised \ {k} |-> PromisedFiles[j]]
    BY <2>1, <2>2 DEF PromisedFiles
  <2>4. Abstract!StartDelete
    BY <1>3, <2>3 DEF DeleteProgram, Starts, Abstract!StartDelete, Abstract!Ids, PromisedFiles
  <2> QED  BY <2>4 DEF Abstract!Next
<1> QED  BY <1>1, <1>2, <1>3

(* A program that failed outside the index, or died. *)
LEMMA ProgramFails ==
  ASSUME Quiet, Quiet', Promises, Promises', [BlockNext]_allvars, ~misrolled',
         WriteDataFails \/ FlushFails \/ ReadDataFails \/ Dies
  PROVE  Abstract!Next
<1>1. UNCHANGED <<promised, doubtful>> /\ program' = "none"
  BY DEF WriteDataFails, FlushFails, ReadDataFails, Dies, Exit, files, history
<1>2. PromisedFiles' = PromisedFiles  BY <1>1, FilesKept
<1>3. CASE Dies
  <2>1. Abstract!Die  BY <1>1, <1>2, <1>3 DEF Dies, Abstract!Die, PromisedFiles
  <2> QED  BY <2>1 DEF Abstract!Next
<1>4. CASE ~Dies
  <2>1. /\ program \in {"data", "write", "read", "delete"}
        /\ printed'.id = file_id /\ printed'.claim = FALSE /\ printed'.status = "failed"
    BY <1>4 DEF WriteDataFails, FlushFails, ReadDataFails, Says
  <2> QED
    BY <1>1, <1>2, <2>1
       DEF Abstract!Next, Abstract!FinishWrite, Abstract!FinishRead, Abstract!FinishDelete,
           Abstract!Finish, Abstract!Errors, PromisedFiles
<1> QED  BY <1>3, <1>4

(* A program that tells what the index has answered. *)
LEMMA ProgramTells ==
  ASSUME Quiet, Quiet', Promises, Promises', [BlockNext]_allvars, ~misrolled',
         FinishWrite \/ FinishRead \/ FinishDelete
  PROVE  Abstract!Next
<1>1. TypeOK /\ ProgramTypes /\ DataInv /\ DataInv' /\ KnownInv
  BY DEF Quiet, IndexInv, TypeInv, Promises
<1>2. Segs' = Segs
  <2>1. ~IndexStep  BY DEF FinishWrite, FinishRead, FinishDelete, Exit, IndexStep
  <2> QED  BY <2>1, OutsideIndex
<1>3. CASE FinishWrite /\ Succeeded
  <2>1. /\ program = "write" /\ program' = "none" /\ printed'.id = file_id /\ printed'.claim
        /\ promised' = promised \cup {file_id} /\ doubtful' = doubtful \ {file_id}
        /\ UNCHANGED <<mainblock, run>>
    BY <1>3 DEF FinishWrite, Exit, Says
  <2>2. file_id \in DOMAIN Segs /\ Holds(Segs[file_id].offset, Size)
    BY <1>1, <1>3 DEF FinishWrite, Returned, Written, Answered, DataInv
  <2>3. \A k \in promised : DataOf(k)' = DataOf(k)  BY <2>1, PromisedKept
  <2>4. PICK j : j = file_id  OBVIOUS
  <2>5. j \in promised'  BY <2>1, <2>4
  <2>6. DataOf(j)' = DataAt(Segs[j].offset)'  BY <1>1, <2>5, PromisedDataNext
  <2>7. PICK o : o = Segs[j].offset  OBVIOUS
  <2>8. Segs'[j].offset = o
    <3> HIDE DEF Segs
    <3> QED  BY <1>2, <2>7
  <2>9. \A i \in 1 .. Size : mainblock'[o + i] = run
    <3> HIDE DEF Segs
    <3> QED  BY <2>1, <2>2, <2>4, <2>7 DEF Holds
  <2>10. DataOf(j)' = [i \in 1 .. Size |-> run]
    <3> HIDE DEF Segs
    <3> QED  BY <2>6, <2>8, <2>9 DEF DataAt
  <2>11. PromisedFiles' = [k \in promised \cup {j} |->
                             IF k = j THEN [i \in 1 .. Size |-> run] ELSE PromisedFiles[k]]
    <3>1. \A k \in promised' : k # j => k \in promised  BY <2>1, <2>4
    <3>2. promised' = promised \cup {j}  BY <2>1, <2>4
    <3>3. \A k \in promised' : DataOf(k)' = IF k = j THEN [i \in 1 .. Size |-> run] ELSE DataOf(k)
      BY <2>3, <2>10, <3>1
    <3>4. \A k \in promised' : DataOf(k)' = IF k = j THEN [i \in 1 .. Size |-> run] ELSE PromisedFiles[k]
      BY <3>1, <3>3 DEF PromisedFiles
    <3> HIDE DEF PromisedFiles
    <3>5. PromisedFiles' = [k \in promised' |-> DataOf(k)']  BY DEF PromisedFiles
    <3> QED  BY <3>2, <3>4, <3>5
  <2>12. Abstract!FinishWrite
    BY <2>1, <2>4, <2>11 DEF Abstract!FinishWrite, Abstract!Finish, Abstract!Ids, PromisedFiles
  <2> QED  BY <2>12 DEF Abstract!Next
<1>4. CASE FinishWrite /\ ~Succeeded
  <2>1. /\ program = "write" /\ program' = "none" /\ printed'.id = file_id /\ printed'.claim = FALSE
        /\ UNCHANGED <<promised, doubtful>>
    BY <1>4 DEF FinishWrite, Exit, Says, Succeeded
  <2>2. PromisedFiles' = PromisedFiles  BY <2>1, FilesKept
  <2>3. Abstract!FinishWrite
    BY <2>1, <2>2 DEF Abstract!FinishWrite, Abstract!Finish, PromisedFiles
  <2> QED  BY <2>3 DEF Abstract!Next
<1>5. CASE FinishRead
  <2>1. program = "read" /\ program' = "none" /\ printed'.id = file_id /\ UNCHANGED <<promised, doubtful>>
    BY <1>5 DEF FinishRead, Exit, Says, files, history
  <2>2. PromisedFiles' = PromisedFiles  BY <2>1, FilesKept
  <2>3. Answered  BY <1>5 DEF FinishRead, Answered, Returned
  <2>4. ASSUME Succeeded, ret.meta.offset + ret.meta.size <= Len(mainblock)
        PROVE  \/ file_id \in promised /\ printed'.claim /\ printed'.data = PromisedFiles[file_id]
               \/ file_id \in doubtful
    <3>1. printed'.claim = TRUE /\ printed'.data = Content(ret.meta)  BY <1>5, <2>4 DEF FinishRead, Says
    <3>2. file_id \in DOMAIN Segs /\ Segment(ret.meta) = Segs[file_id]
      BY <1>1, <2>1, <2>3, <2>4 DEF KnownInv
    <3>3. file_id \in promised \cup doubtful  BY <1>1, <3>2 DEF KnownInv
    <3>4. ret.meta.offset = Segs[file_id].offset /\ ret.meta.size = Segs[file_id].size
      BY <3>2 DEF Segment
    <3>5. Content(ret.meta) = DataOf(file_id)  BY <3>2, <3>4, StoredData DEF Content
    <3> QED  BY <3>1, <3>3, <3>5 DEF PromisedFiles
  <2>5. ASSUME ~(Succeeded /\ ret.meta.offset + ret.meta.size <= Len(mainblock))
        PROVE  \/ printed'.status \in {"failed", "DISK_ERROR"}
               \/ file_id \notin promised /\ printed'.status = "EXIT_META_NOT_FOUND_ERROR"
    <3>1. printed'.status = IF Succeeded THEN "failed" ELSE ret.status
      BY <1>5, <2>5 DEF FinishRead, Says
    <3>2. file_id \notin DOMAIN Segs => file_id \notin promised  BY <1>1 DEF DataInv
    <3> QED  BY <1>1, <2>1, <2>3, <3>1, <3>2 DEF KnownInv, Succeeded
  <2>6. Abstract!FinishRead
    BY <2>1, <2>2, <2>4, <2>5
       DEF Abstract!FinishRead, Abstract!Finish, Abstract!Ids, Abstract!Errors, Abstract!NotFound,
           PromisedFiles
  <2> QED  BY <2>6 DEF Abstract!Next
<1>6. CASE FinishDelete
  <2>1. /\ program = "delete" /\ program' = "none" /\ printed'.id = file_id /\ promised' = promised
        /\ printed'.status = ret.status
        /\ doubtful' = IF ret.status = "DISK_ERROR" THEN doubtful ELSE doubtful \ {file_id}
    BY <1>6 DEF FinishDelete, Exit, Says
  <2>2. PromisedFiles' = PromisedFiles  BY <2>1, FilesKept
  <2>3. ret.status # "failed"  BY <1>1 DEF TypeOK
  <2>4. Abstract!FinishDelete
    BY <2>1, <2>2, <2>3
       DEF Abstract!FinishDelete, Abstract!Finish, Abstract!Errors, PromisedFiles
  <2> QED  BY <2>4 DEF Abstract!Next
<1> QED  BY <1>3, <1>4, <1>5, <1>6

(* A file that block_write_test has said to be written is read back with   *)
(* its own data, whatever dies and fails, until it is deleted; this holds  *)
(* until a rollback of hash_insert goes wrong. *)
THEOREM ProgramsImplementStore == BlockSpec => ImplementsBlockStore
<1>1. BlockInit => Abstract!Init
  BY DEF BlockInit, Abstract!Init
<1>2. ASSUME BlockInv, BlockInv', [BlockNext]_allvars
      PROVE  [misrolled' \/ Abstract!Next]_(Abstract!vars)
  <2>1. Quiet /\ Quiet'  BY <1>2 DEF BlockInv, Quiet
  <2>2. CASE misrolled'  BY <2>2
  <2>3. CASE ~misrolled'
    <3>1. Promises /\ Promises'  BY <1>2, <2>1, <2>3, StillRight DEF BlockInv
    <3> QED
      BY <1>2, <2>1, <2>3, <3>1, UnseenWork, ProgramStarts, ProgramFails, ProgramTells DEF BlockNext
  <2> QED  BY <2>2, <2>3
<1> QED  BY <1>1, <1>2, BlockCorrect, PTL DEF BlockSpec, ImplementsBlockStore
=============================================================================
