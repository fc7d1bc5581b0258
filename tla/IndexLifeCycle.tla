---------------------------- MODULE IndexLifeCycle ----------------------------
(***************************************************************************)
(* The life of an index file and of the IndexHandle objects on it: create, *)
(* load, remove and the destructor, in several processes, one system call  *)
(* at a time.  Of what IndexHandle models in detail only that remains in   *)
(* which a process can come in the way of another: where a file is stored, *)
(* and the growth of mapping and file that goes with it.                   *)
(*                                                                         *)
(* An index file begins with Units units, written in this order by the     *)
(* pwrite_file of create: the block id, the bucket size, index_file_size   *)
(* and free_head_offset, and the buckets.  The record of a stored file has *)
(* a unit behind them, its place.  A file is as long as its length says,   *)
(* and reads as zeros behind what has been written.                        *)
(***************************************************************************)
EXTENDS Integers

CONSTANTS
  Procs,             \* processes
  first_map_size_,   \* in units, longer than the header and the buckets
  per_map_size_, max_map_size_,
  MaxHandles,        \* bound: IndexHandle objects made
  MaxInodes,         \* bound: index files made
  MaxFiles,          \* bound: files stored
  MaxFaults          \* bound: failing system calls

BlockIdUnit == 1
BucketSizeUnit == 2
HeaderUnits == 3
Units == 4

ASSUME LifeAssumption ==
  /\ {first_map_size_, per_map_size_, max_map_size_} \subseteq Nat
  /\ first_map_size_ > Units /\ max_map_size_ >= first_map_size_
  /\ {MaxHandles, MaxInodes, MaxFiles, MaxFaults} \subseteq Nat

VARIABLES
  dir,        \* the file ./index/<block> names, 0 if there is none
  made,       \* files made so far
  inodes,     \* their length, the units written, the places used, and the
              \* stored file that hash_find leads to in each of them
  handle,     \* the IndexHandle of each process
  handles,    \* how many there have been
  stores,     \* files stored so far
  reported,   \* history: ids said to be stored in the index that dir names
  aborted,    \* history: a create ended before it had written all units
  clash,      \* history: two processes were creating, lengthening, or
              \* storing into the same file at once
  faults

disk == <<dir, made, inodes>>
past == <<stores, reported, aborted, clash>>
lifevars == <<disk, handle, handles, past, faults>>

NoFile == 0
Inodes == 1 .. MaxInodes
Places == 1 .. MaxFiles
Empty == [length |-> 0, written |-> 0, used |-> 0, at |-> [n \in Places |-> NoFile]]

Files(i) == {inodes[i].at[n] : n \in Places} \ {NoFile}

Larger(a, b) == IF a < b THEN b ELSE a
Smaller(a, b) == IF a < b THEN a ELSE b

(* pc is the next system call of operation op; map_file_ is NULL, alive    *)
(* and map_size_ long, or a pointer to a deleted object; size is what      *)
(* get_file_size returned; place is where a file is being stored.          *)
NoHandle == [pc |-> "none", op |-> "none", is_load_ |-> FALSE, map_file_ |-> "null",
             map_size_ |-> 0, inode |-> NoFile, size |-> 0, done |-> 0, place |-> 0,
             verdict |-> "none"]

LifeInit ==
  /\ dir = NoFile /\ made = 0 /\ inodes = [i \in Inodes |-> Empty]
  /\ handle = [p \in Procs |-> NoHandle] /\ handles = 0
  /\ stores = 0 /\ reported = {} /\ aborted = FALSE /\ clash = FALSE /\ faults = 0

Becomes(p, h) == handle' = [handle EXCEPT ![p] = h]
Returns(p, h, verdict) ==
  Becomes(p, [h EXCEPT !.pc = "idle", !.op = "none", !.place = 0, !.verdict = verdict])

(* Another process is in the middle of create, of ensure_file_size, or of  *)
(* storing a file.                                                         *)
Creating(p, i) == \E q \in Procs \ {p} : handle[q].inode = i /\ handle[q].pc = "write"
Lengthening(p, i) == \E q \in Procs \ {p} : handle[q].inode = i /\ handle[q].pc = "truncate"
Storing(p, i) == \E q \in Procs \ {p} : handle[q].inode = i /\ handle[q].op = "store"

(* What a handle does after remove has left it a pointer to a deleted      *)
(* MMapFile is undefined: its process may only end without the destructor. *)
Usable(p) == handle[p].pc = "idle" /\ handle[p].map_file_ # "deleted"
Loaded(p) == Usable(p) /\ handle[p].is_load_

NewHandle(p) ==
  /\ handle[p].pc = "none" /\ handles < MaxHandles
  /\ Becomes(p, [NoHandle EXCEPT !.pc = "idle"]) /\ handles' = handles + 1
  /\ UNCHANGED <<disk, past, faults>>

-----------------------------------------------------------------------------
(* Variants with a bug each, which the properties have to notice.          *)
ShortNever(length, size) == FALSE
AfterSizeOfCreateAnyFile(h, size) == "write"
AfterSizeOfLoadAnyFile(h, size) == "stat"

VerdictWithoutSize(i, size) ==
  IF inodes[i].written < BlockIdUnit THEN "EXIT_INDEX_CORRUPT_ERROR"
  ELSE IF inodes[i].written < BucketSizeUnit THEN "EXIT_BUCKET_CONFIGURE_ERROR"
  ELSE "TFS_SUCCESS"

-----------------------------------------------------------------------------
(* create and load *)

Begins(p, op) ==
  LET h == handle[p]
  IN  /\ Usable(p)
      /\ IF h.is_load_
         THEN Returns(p, h, "EXIT_INDEX_ALREADY_LOADED_ERROR")
         ELSE Becomes(p, [h EXCEPT !.pc = IF h.inode = NoFile THEN "open" ELSE "size",
                                   !.op = op, !.done = 0, !.verdict = "none"])
      /\ UNCHANGED <<disk, handles, past, faults>>

Create(p) == Begins(p, "create")
Load(p) == Begins(p, "load")

(* get_file_size opens the file, with O_CREAT, unless it is open. *)
OpenFile(p) ==
  LET i == IF dir = NoFile THEN made + 1 ELSE dir
  IN  /\ handle[p].pc = "open" /\ (dir = NoFile => made < MaxInodes)
      /\ dir' = i /\ made' = IF dir = NoFile THEN i ELSE made
      /\ Becomes(p, [handle[p] EXCEPT !.inode = i, !.pc = "size"])
      /\ UNCHANGED <<inodes, handles, past, faults>>

(* create goes on only with an empty file, load only with another one,     *)
(* which it does not map a second time.                                    *)
AfterSizeOfCreate(h, size) == IF size = 0 THEN "write" ELSE "EXIT_META_UNEXPECT_FOUND_ERROR"
AfterSizeOfLoad(h, size) ==
  IF size = 0 THEN "EXIT_INDEX_CORRUPT_ERROR"
  ELSE IF h.map_file_ = "alive" THEN "check" ELSE "stat"

GetFileSize(p) ==
  LET h    == [handle[p] EXCEPT !.size = inodes[handle[p].inode].length]
      next == IF h.op = "create" THEN AfterSizeOfCreate(h, h.size) ELSE AfterSizeOfLoad(h, h.size)
  IN  /\ handle[p].pc = "size"
      /\ IF next \in {"write", "stat", "check"} THEN Becomes(p, [h EXCEPT !.pc = next])
         ELSE Returns(p, h, next)
      /\ clash' = (clash \/ Creating(p, h.inode))
      /\ UNCHANGED <<disk, handles, stores, reported, aborted, faults>>

(* The pwrite_file of create, a unit at a time; the last one empties the   *)
(* buckets.                                                                *)
WriteUnit(p) ==
  LET h == handle[p]  unit == h.done + 1
  IN  /\ h.pc = "write"
      /\ inodes' = [inodes EXCEPT ![h.inode] =
           [length |-> Larger(@.length, unit), written |-> Larger(@.written, unit),
            used |-> IF unit = HeaderUnits THEN 0 ELSE @.used,
            at |-> IF unit = Units THEN Empty.at ELSE @.at]]
      /\ Becomes(p, [h EXCEPT !.done = unit, !.pc = IF unit = Units THEN "sync" ELSE "write"])
      /\ UNCHANGED <<dir, made, handles, past, faults>>

(* flush_file of a file that is not mapped yet *)
Sync(p) ==
  /\ handle[p].pc = "sync"
  /\ Becomes(p, [handle[p] EXCEPT !.pc = "stat"])
  /\ UNCHANGED <<disk, handles, past, faults>>

(* What load makes of the mapped header, and of the size the file had.  A  *)
(* bucket size of 0 counts no buckets in the size the file should have.    *)
Verdict(i, size) ==
  LET written == inodes[i].written
      index_file_size == IF written >= BucketSizeUnit THEN Units ELSE HeaderUnits
  IN  IF written < BlockIdUnit \/ size < index_file_size THEN "EXIT_INDEX_CORRUPT_ERROR"
      ELSE IF written < BucketSizeUnit THEN "EXIT_BUCKET_CONFIGURE_ERROR"
      ELSE "TFS_SUCCESS"

CheckIndex(p) ==
  LET verdict == Verdict(handle[p].inode, handle[p].size)
  IN  /\ handle[p].pc = "check"
      /\ Returns(p, [handle[p] EXCEPT !.is_load_ = (verdict = "TFS_SUCCESS")], verdict)
      /\ UNCHANGED <<disk, handles, past, faults>>

-----------------------------------------------------------------------------
(* mmap_file and remap_file: fstat, ftruncate and mmap or mremap.  load    *)
(* maps the whole of a longer file if it may.                              *)
MapTarget(h) ==
  IF h.op \in {"store", "read"} THEN Smaller(h.map_size_ + per_map_size_, max_map_size_)
  ELSE IF h.op = "load" /\ first_map_size_ < h.size /\ h.size <= max_map_size_ THEN h.size
  ELSE first_map_size_

Short(length, size) == length < size

(* The fstat of ensure_file_size. *)
Stat(p) ==
  LET h == handle[p]  short == Short(inodes[h.inode].length, MapTarget(h))
  IN  /\ h.pc = "stat"
      /\ Becomes(p, [h EXCEPT !.pc = IF short THEN "truncate" ELSE "map"])
      /\ clash' = (clash \/ (short /\ Lengthening(p, h.inode)))
      /\ UNCHANGED <<disk, handles, stores, reported, aborted, faults>>

(* Its ftruncate gives the file the new length, also when it is longer by  *)
(* now: the records behind it are gone.                                    *)
Truncate(p) ==
  LET h == handle[p]  size == MapTarget(h)
  IN  /\ h.pc = "truncate"
      /\ inodes' = [inodes EXCEPT ![h.inode].length = size,
                                  ![h.inode].at = [n \in Places |-> IF Units + n <= size THEN @[n] ELSE NoFile]]
      /\ Becomes(p, [h EXCEPT !.pc = "map"])
      /\ UNCHANGED <<dir, made, handles, past, faults>>

(* A transfer of a record that lies in the mapping is a memcpy.  Another   *)
(* one calls remap_file, more than once even if it is inside after the     *)
(* first, and uses pwrite64 where it still is not.                         *)
Inside(h) == Units + h.place <= h.map_size_
Attempt(h) ==
  IF Inside(h) THEN "memcpy" ELSE IF h.map_size_ = max_map_size_ THEN "pwrite" ELSE "stat"
AfterRemap(h) ==
  {IF Inside(h) THEN "memcpy" ELSE "pwrite"} \cup IF h.map_size_ = max_map_size_ THEN {} ELSE {"stat"}

Map(p) ==
  LET h == [handle[p] EXCEPT !.map_file_ = "alive", !.map_size_ = MapTarget(handle[p])]
  IN  /\ h.pc = "map"
      /\ \/ h.op = "create" /\ Returns(p, [h EXCEPT !.is_load_ = TRUE], "TFS_SUCCESS")
         \/ h.op = "load" /\ Becomes(p, [h EXCEPT !.pc = "check"])
         \/ h.op = "read" /\ Returns(p, h, "none")
         \/ h.op = "store" /\ \E next \in AfterRemap(h) : Becomes(p, [h EXCEPT !.pc = next])
      /\ UNCHANGED <<disk, handles, past, faults>>

-----------------------------------------------------------------------------
(* block_write_test takes the id and looks for the end of the chain and of *)
(* the file; later the record is stored there, linked and reported.        *)
TakePlace(p) ==
  LET h == [handle[p] EXCEPT !.op = "store", !.place = inodes[handle[p].inode].used + 1,
                             !.verdict = "none"]
  IN  /\ Loaded(p) /\ stores < MaxFiles /\ h.place <= MaxFiles
      /\ Becomes(p, [h EXCEPT !.pc = Attempt(h)])
      /\ clash' = (clash \/ Storing(p, h.inode))
      /\ UNCHANGED <<disk, handles, stores, reported, aborted, faults>>

(* A file that was stored there meanwhile is cut off, unless hash_find     *)
(* comes late enough to find it (StoreRefused).  Where index_file_size is  *)
(* 0 the record gets the null offset and is in no chain.  A memcpy past    *)
(* the end of the file does not return.                                    *)
StoreFile(p) ==
  LET h == handle[p]  f == stores + 1  unit == Units + h.place
  IN  /\ stores < MaxFiles /\ stores' = f
      /\ h.pc = "pwrite" \/ (h.pc = "memcpy" /\ unit <= inodes[h.inode].length)
      /\ inodes' = [inodes EXCEPT ![h.inode] =
           [length |-> Larger(@.length, unit), written |-> @.written,
            used |-> IF @.written < HeaderUnits THEN @.used ELSE Larger(@.used, h.place),
            at |-> IF @.written < HeaderUnits THEN @.at ELSE [@.at EXCEPT ![h.place] = f]]]
      /\ reported' = IF h.inode = dir THEN reported \cup {f} ELSE reported
      /\ clash' = (clash \/ (h.pc = "pwrite" /\ Lengthening(p, h.inode)))
      /\ Returns(p, h, "none")
      /\ UNCHANGED <<dir, made, handles, aborted, faults>>

StoreRefused(p) ==
  /\ handle[p].op = "store" /\ handle[p].pc \in {"memcpy", "stat", "pwrite"}
  /\ inodes[handle[p].inode].used >= handle[p].place
  /\ Returns(p, handle[p], "none")
  /\ UNCHANGED <<disk, handles, past, faults>>

(* A reader whose record lies outside its mapping calls remap_file too. *)
ReadFile(p) ==
  LET h == handle[p]
  IN  /\ Loaded(p) /\ h.map_size_ < max_map_size_
      /\ \E n \in Places : inodes[h.inode].at[n] # NoFile /\ Units + n > h.map_size_
      /\ Becomes(p, [h EXCEPT !.pc = "stat", !.op = "read", !.verdict = "none"])
      /\ UNCHANGED <<disk, handles, past, faults>>

-----------------------------------------------------------------------------
(* munmap_file deletes the MMapFile and keeps the pointer.  remove reads   *)
(* the block id through the mapping before that, if the index is loaded.   *)
MunmapFile(p) == IF handle[p].map_file_ = "alive" THEN "deleted" ELSE handle[p].map_file_

Remove(p) ==
  /\ Usable(p)
  /\ Becomes(p, [handle[p] EXCEPT !.map_file_ = MunmapFile(p), !.map_size_ = 0,
                                  !.pc = "unlink", !.verdict = "none"])
  /\ UNCHANGED <<disk, handles, past, faults>>

(* unlink_file closes the file and removes the name, whatever it names. *)
UnlinkFile(p) ==
  /\ handle[p].pc = "unlink"
  /\ Returns(p, [handle[p] EXCEPT !.inode = NoFile], "none")
  /\ dir' = NoFile /\ reported' = {} /\ aborted' = FALSE
  /\ UNCHANGED <<made, inodes, handles, stores, clash, faults>>

(* ~IndexHandle, ~MMapFileOperation *)
Delete(p) ==
  /\ Usable(p)
  /\ Becomes(p, NoHandle)
  /\ UNCHANGED <<disk, handles, past, faults>>

(* The process ends without the destructor, or dies. *)
Dies(p) ==
  /\ handle[p].pc # "none"
  /\ aborted' = (aborted \/ handle[p].pc = "write")
  /\ Becomes(p, NoHandle)
  /\ UNCHANGED <<disk, handles, stores, reported, clash, faults>>

-----------------------------------------------------------------------------
(* Failing system calls *)

Fails == faults < MaxFaults /\ faults' = faults + 1

(* create gives the error of an index that is loaded when it does not get  *)
(* the size of its file.                                                   *)
FailureOf(h) ==
  IF h.op = "create" /\ h.pc \in {"open", "size"} THEN "EXIT_INDEX_ALREADY_LOADED_ERROR" ELSE "TFS_ERROR"

CallFails(p) ==
  LET h == handle[p]
  IN  /\ Fails /\ h.op \in {"create", "load"} /\ h.pc # "check"
      /\ aborted' = (aborted \/ h.pc = "write")
      /\ Returns(p, h, FailureOf(h))
      /\ UNCHANGED <<disk, handles, stores, reported, clash>>

(* What remap_file returns is ignored. *)
RemapFails(p) ==
  LET h == handle[p]
  IN  /\ Fails /\ h.pc \in {"stat", "truncate", "map"}
      /\ \/ h.op = "read" /\ Returns(p, h, "none")
         \/ h.op = "store" /\ \E next \in AfterRemap(h) : Becomes(p, [h EXCEPT !.pc = next])
      /\ UNCHANGED <<disk, handles, past>>

StoreFails(p) ==
  /\ Fails /\ handle[p].pc = "pwrite"
  /\ Returns(p, handle[p], "TFS_ERROR")
  /\ UNCHANGED <<disk, handles, past>>

UnlinkFails(p) ==
  /\ Fails /\ handle[p].pc = "unlink"
  /\ Returns(p, [handle[p] EXCEPT !.inode = NoFile], "TFS_ERROR")
  /\ UNCHANGED <<disk, handles, past>>

LifeNext ==
  \E p \in Procs :
    \/ NewHandle(p) \/ Create(p) \/ Load(p) \/ OpenFile(p) \/ GetFileSize(p)
    \/ WriteUnit(p) \/ Sync(p) \/ CheckIndex(p) \/ Stat(p) \/ Truncate(p) \/ Map(p)
    \/ TakePlace(p) \/ StoreFile(p) \/ StoreRefused(p) \/ ReadFile(p)
    \/ Remove(p) \/ UnlinkFile(p) \/ Delete(p) \/ Dies(p)
    \/ CallFails(p) \/ RemapFails(p) \/ StoreFails(p) \/ UnlinkFails(p)

LifeSpec == LifeInit /\ [][LifeNext]_lifevars
=============================================================================
