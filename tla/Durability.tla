------------------------------ MODULE Durability ------------------------------
(***************************************************************************)
(* The programs of BlockPrograms on a machine that may lose its power: of  *)
(* the index file and the main block, what is not yet on the disk is gone. *)
(*                                                                         *)
(* The kernel writes a dirty page whenever it likes.  flush is an msync    *)
(* with MS_ASYNC, which forces nothing; the destructor of MMapFile does an *)
(* msync with MS_SYNC of what is mapped, and nothing forces the records    *)
(* behind that, which pwrite64 has written, or the pages of the main       *)
(* block.  Page 0 of the index has the header, the buckets and the first   *)
(* records.                                                                *)
(***************************************************************************)
EXTENDS BlockPrograms

CONSTANT RecordsPerPage
ASSUME RecordsPerPageAssumption == RecordsPerPage \in Nat \ {0}

VARIABLES
  disk,        \* what is on the disk
  index_open,  \* the IndexHandle of the last program is not deleted yet
  synced,      \* history: the files an MS_SYNC has forced, and no delete since
  power

durable == <<disk, index_open, synced, power>>
machine == <<allvars, durable>>

Page(n) == n \div RecordsPerPage
Pages == {0} \cup {Page(n) : n \in Nodes}

(* What page 0 has besides records. *)
HeadPage == [bucket_slot |-> bucket_slot, index_file_size |-> index_file_size,
         free_head_offset |-> free_head_offset,
         data_file_offset |-> data_file_offset, block_info |-> block_info]

PowerInit ==
  /\ BlockInit
  /\ disk = [head |-> HeadPage, nodes |-> nodes, mainblock |-> mainblock]
  /\ index_open = FALSE /\ synced = {} /\ power = TRUE

(* What hash_find finds: the records that can be walked to from a bucket,  *)
(* of those in R.                                                          *)
Walked(s, R) ==
  LET at[i \in 0 .. MaxNodes] ==
        LET n == IF i = 0 THEN bucket_slot[s]
                 ELSE IF at[i - 1] = Null THEN Null ELSE nodes[at[i - 1]].next
        IN  IF n \in R THEN n ELSE Null
  IN  {at[i] : i \in 0 .. MaxNodes} \ {Null}

Entry(meta) == [meta EXCEPT !.next = Null]
EntriesIn(R) == {Entry(nodes[n]) : n \in UNION {Walked(s, R) : s \in Slots}}
Entries == EntriesIn(Nodes)

(* The pages up to last are mapped, and forced; the first MapLimit records *)
(* always lie in the mapping, others once it has grown.                    *)
Upto(last) == {n \in Nodes : Page(n) <= last}
Mappings == {last \in Pages : \A n \in Nodes : n <= MapLimit => Page(n) <= last}

-----------------------------------------------------------------------------
(* Variants with a bug each, which the properties have to notice.          *)
CloseAsync ==
  /\ power /\ index_open /\ index_open' = FALSE
  /\ \E last \in Mappings : synced' = synced \cup EntriesIn(Upto(last))
  /\ UNCHANGED <<allvars, disk, power>>

-----------------------------------------------------------------------------
(* Every program ends by deleting its IndexHandle, except block_read_test  *)
(* after an error of the index and block_delete_test after one of flush.   *)
Deletes ==
  ~(program = "read" /\ ~Succeeded) /\ ~(program = "delete" /\ printed'.status = "failed")

Works ==
  /\ power /\ ~index_open
  /\ BlockNext
  /\ index_open' = (program # "none" /\ program' = "none" /\ crashes' = crashes /\ Deletes)
  /\ synced' = IF program # "delete" /\ program' = "delete" THEN {} ELSE synced
  /\ UNCHANGED <<disk, power>>

(* ~IndexHandle, ~MMapFile: the msync of [data_, data_ + size_) *)
Close ==
  /\ power /\ index_open /\ index_open' = FALSE
  /\ \E last \in Mappings :
       /\ disk' = [disk EXCEPT !.head = HeadPage,
                               !.nodes = [n \in Nodes |-> IF Page(n) <= last THEN nodes[n] ELSE @[n]]]
       /\ synced' = synced \cup EntriesIn(Upto(last))
  /\ UNCHANGED <<allvars, power>>

(* The program dies after its report and before the destructor, or the     *)
(* msync fails, which the destructor does not notice.                      *)
DiesOpen ==
  /\ power /\ index_open /\ index_open' = FALSE
  /\ UNCHANGED <<allvars, disk, synced, power>>

WriteBack(p) ==
  /\ power
  /\ disk' = [disk EXCEPT
       !.head = IF p = 0 THEN HeadPage ELSE @,
       !.nodes = [n \in Nodes |-> IF Page(n) = p THEN nodes[n] ELSE @[n]]]
  /\ disk' # disk
  /\ UNCHANGED <<allvars, index_open, synced, power>>

WriteBackMain(i) ==
  /\ power
  /\ disk' = [disk EXCEPT !.mainblock =
       [j \in 1 .. Len(mainblock) |->
          IF j = i THEN mainblock[j] ELSE IF j <= Len(@) THEN @[j] ELSE 0]]
  /\ disk' # disk
  /\ UNCHANGED <<allvars, index_open, synced, power>>

(* The files are what the disk has of them. *)
PowerLoss ==
  /\ power /\ power' = FALSE
  /\ bucket_slot' = disk.head.bucket_slot /\ nodes' = disk.nodes
  /\ index_file_size' = disk.head.index_file_size
  /\ free_head_offset' = disk.head.free_head_offset
  /\ data_file_offset' = disk.head.data_file_offset
  /\ block_info' = disk.head.block_info
  /\ mainblock' = disk.mainblock
  /\ Leave /\ ret' = Pending /\ Exit
  /\ index_open' = FALSE
  /\ UNCHANGED <<bad, lists, run, history, printed, disk, synced>>

PowerNext ==
  \/ Works \/ Close \/ DiesOpen \/ PowerLoss
  \/ \E p \in Pages : WriteBack(p)
  \/ \E i \in 1 .. Len(mainblock) : WriteBackMain(i)

PowerSpec == PowerInit /\ [][PowerNext]_machine

-----------------------------------------------------------------------------
(* A file that a program's closing msync has forced, its record and all    *)
(* that lead to it from the bucket, with no delete since, is found where   *)
(* it was after the power has failed, however many writes were under way   *)
(* or left by programs that died: a write only adds to the end of a chain, *)
(* so a page that is missing cuts nothing off.  A file whose chain goes    *)
(* through a record behind the mapping has no such promise, nor has any    *)
(* when the msync fails.  A rollback that gives back the wrong record may  *)
(* cost a file too.                                                        *)
ClosedFilesSurvive ==
  ~power /\ ~misrolled => synced \subseteq Entries
=============================================================================
