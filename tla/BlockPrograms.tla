---------------------------- MODULE BlockPrograms ----------------------------
(***************************************************************************)
(* The programs block_write_test, block_read_test and block_delete_test on *)
(* one block that block_init_test has made: the index of IndexHandle and   *)
(* the main block with the data of the files.  One program runs at a time, *)
(* does one operation, says how it went, and may die anywhere in it.       *)
(*                                                                         *)
(* The data of a run of block_write_test is the number of the run.  Data   *)
(* goes to the main block a unit at a time; Size units make a file.        *)
(***************************************************************************)
EXTENDS IndexHandle

CONSTANTS
  Size,             \* sizeof(buffer)
  main_blocksize,   \* what block_init_test makes the main block
  MaxRuns           \* bound: runs of block_write_test

ASSUME BlockAssumption ==
  Size \in Sizes \ {0} /\ main_blocksize \in Nat /\ MaxRuns \in Nat /\ Keys \subseteq Nat \ {0}

VARIABLES
  program,     \* what is running
  file_id,     \* the id it works on
  moved,       \* units of data it has written
  run,         \* runs of block_write_test so far
  mainblock,   \* the run each unit of the main block comes from, 0 if none
  promised,    \* history: ids said to be written, and not deleted since
  doubtful,    \* history: ids of which no program has said what became of them
  printed      \* what the last program said

index   == <<image, header, pc, call, cursor, ret, bad, lists>>
history == <<promised, doubtful>>
files   == <<run, mainblock, history>>
allvars == <<index, program, file_id, moved, files, printed>>

-----------------------------------------------------------------------------
(* The answer of the index, or "failed", whether the program claims        *)
(* success, and the data it shows.                                         *)
NoAnswer == [op |-> "none", id |-> 0, status |-> "none", claim |-> FALSE, data |-> << >>]
Says(status, claim, data) ==
  printed' = [op |-> program, id |-> file_id, status |-> status, claim |-> claim, data |-> data]

Starts(name, id) == program = "none" /\ program' = name /\ file_id' = id /\ printed' = NoAnswer
Exit == program' = "none" /\ file_id' = 0 /\ moved' = 0

Fault ==
  /\ faults < MaxFaults /\ faults' = faults + 1
  /\ UNCHANGED <<image, header, pc, call, cursor, ret, crashes, misrolled, lists>>

(* pwrite64 of x at place k *)
Put(s, k, x) ==
  [i \in 1 .. IF k < Len(s) THEN Len(s) ELSE k + 1 |->
     IF i = k + 1 THEN x ELSE IF i <= Len(s) THEN s[i] ELSE 0]

(* block_init_test *)
BlockInit ==
  /\ Init
  /\ program = "none" /\ file_id = 0 /\ moved = 0 /\ run = 0
  /\ mainblock = [i \in 1 .. main_blocksize |-> 0]
  /\ promised = {} /\ doubtful = {}
  /\ printed = NoAnswer

-----------------------------------------------------------------------------
(* Variants with a bug each, which the properties have to notice.          *)
FileNoByCount == block_info.file_count + 1
DataOffsetReused == IF free_head_offset # Null THEN 0 ELSE data_file_offset
SucceededIfNonzero == ret.status # "TFS_SUCCESS"
WriteDataTruncates ==
  LET k == data_file_offset + moved
  IN  /\ program = "data" /\ moved < Size
      /\ mainblock' = Put(SubSeq(mainblock, 1, k), k, run)
      /\ moved' = moved + 1
      /\ UNCHANGED <<index, program, file_id, run, history, printed>>

-----------------------------------------------------------------------------
(* block_write_test: the id and the place come from the header. *)
FileNo == block_info.seq_no
DataOffset == data_file_offset

WriteProgram ==
  /\ run < MaxRuns /\ block_info.version < MaxVersion
  /\ free_head_offset # Null \/ index_file_size \in Nodes
  /\ Starts("data", FileNo)
  /\ run' = run + 1
  /\ doubtful' = doubtful \cup {FileNo}
  /\ UNCHANGED <<index, moved, mainblock, promised>>

WriteData ==
  /\ program = "data" /\ moved < Size
  /\ mainblock' = Put(mainblock, DataOffset + moved, run)
  /\ moved' = moved + 1
  /\ UNCHANGED <<index, program, file_id, run, history, printed>>

(* pwrite_file on the main block fails, with some units written or none. *)
WriteDataFails ==
  /\ program = "data" /\ moved < Size
  /\ Fault
  /\ Says("failed", FALSE, << >>) /\ Exit
  /\ UNCHANGED files

WriteMeta ==
  /\ program = "data" /\ moved = Size
  /\ StartFind("write", [key |-> file_id, offset |-> DataOffset, size |-> Size, next |-> Null])
  /\ program' = "write"
  /\ UNCHANGED <<file_id, moved, files, printed>>

(* A step of the index operation the program has called. *)
IndexStep ==
  /\ program \in {"write", "read", "delete"}
  /\ Step
  /\ UNCHANGED <<program, file_id, moved, files, printed>>

Returned == pc = "idle"
Succeeded == ret.status = "TFS_SUCCESS"

FinishWrite ==
  /\ program = "write" /\ Returned
  /\ Says(ret.status, Succeeded, << >>) /\ Exit
  /\ promised' = IF Succeeded THEN promised \cup {file_id} ELSE promised
  /\ doubtful' = IF Succeeded THEN doubtful \ {file_id} ELSE doubtful
  /\ UNCHANGED <<index, run, mainblock>>

(* flush is called after a write that went well, and after every delete. *)
FlushFails ==
  /\ Returned
  /\ program = "write" => Succeeded
  /\ program \in {"write", "delete"}
  /\ Fault
  /\ Says("failed", FALSE, << >>) /\ Exit
  /\ UNCHANGED files

-----------------------------------------------------------------------------
(* block_read_test *)
ReadProgram(k) ==
  /\ Starts("read", k)
  /\ BeginRead(k)
  /\ UNCHANGED <<moved, files>>

Content(meta) == SubSeq(mainblock, meta.offset + 1, meta.offset + meta.size)

(* pread_file on the main block fails on data that ends past its end. *)
FinishRead ==
  /\ program = "read" /\ Returned
  /\ IF Succeeded /\ ret.meta.offset + ret.meta.size <= Len(mainblock)
     THEN Says(ret.status, TRUE, Content(ret.meta))
     ELSE Says(IF Succeeded THEN "failed" ELSE ret.status, FALSE, << >>)
  /\ Exit
  /\ UNCHANGED <<index, files>>

ReadDataFails ==
  /\ program = "read" /\ Returned /\ Succeeded
  /\ Fault
  /\ Says("failed", FALSE, << >>) /\ Exit
  /\ UNCHANGED files

(* block_delete_test prints the answer of the index if it is an error, and *)
(* then "delete successfully!" whatever the answer was.  The file is not   *)
(* promised any more from the moment the program has its id.               *)
DeleteProgram(k) ==
  /\ Starts("delete", k)
  /\ BeginDelete(k)
  /\ promised' = promised \ {k} /\ doubtful' = doubtful \cup {k}
  /\ UNCHANGED <<moved, run, mainblock>>

FinishDelete ==
  /\ program = "delete" /\ Returned
  /\ Says(ret.status, TRUE, << >>) /\ Exit
  /\ doubtful' = IF ret.status = "DISK_ERROR" THEN doubtful ELSE doubtful \ {file_id}
  /\ UNCHANGED <<index, run, mainblock, promised>>

-----------------------------------------------------------------------------
(* The program dies; what it has stored stays in both files. *)
Dies ==
  /\ program # "none" /\ crashes < MaxCrashes /\ crashes' = crashes + 1
  /\ Leave /\ ret' = Pending /\ Exit
  /\ UNCHANGED <<image, header, faults, misrolled, lists, files, printed>>

BlockNext ==
  \/ WriteProgram \/ WriteData \/ WriteDataFails \/ WriteMeta \/ FinishWrite \/ FlushFails
  \/ \E k \in Keys : ReadProgram(k) \/ DeleteProgram(k)
  \/ IndexStep \/ FinishRead \/ ReadDataFails \/ FinishDelete \/ Dies

BlockSpec == BlockInit /\ [][BlockNext]_allvars
=============================================================================
