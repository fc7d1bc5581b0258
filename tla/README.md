# A model of the block index of the taobao large-file store

The repository is a small version of the storage engine of TFS: many small
files are packed into one large *main block*, and an *index file* per block says
where in the main block each file lies.  The code is in `src/mmap`.  This
directory holds TLA+ models of it, the TLC runs that check them and the TLAPS
proofs about them.

## 1. The system

### Components

| component | source | state | operations |
|---|---|---|---|
| `FileOperation` | `file_op.{h,cpp}` | `fd_`, `open_flags_`, `file_name_`; behind them the file and the descriptor table | `open_file`, `close_file`, `check_file`, `pread_file`, `pwrite_file`, `write_file`, `ftruncate_file`, `seek_file`, `get_file_size`, `flush_file`, `unlink_file`, destructor |
| `MMapFile` | `mmap_file.{h,cpp}` | `fd_`, `data_`, `size_`, the `MMapOption` | `map_file`, `remap_file`, `ensure_file_size`, `munmap_file`, `sync_file`, destructor |
| `MMapFileOperation` | `mmap_file_op.{h,cpp}` | a `FileOperation`, `map_file_`, `is_mapped_` | `mmap_file`, `munmap_file`, `pread_file`, `pwrite_file`, `flush_file`, `get_map_data` |
| `IndexHandle`, metadata | `index_handle.{h,cpp}`, `common.h` | in the index file: header with `BlockInfo`, `data_file_offset`, `index_file_size`, `free_head_offset`; the buckets; the `MetaInfo` records | `write_segment_meta`, `read_segment_meta`, `delete_segment_meta`, `hash_find`, `hash_insert`, `update_block_info`, `commit_block_data_offset` |
| `IndexHandle`, life cycle | `index_handle.cpp` | `is_load_`, the index file as a whole, its name in the directory | `create`, `load`, `remove`, `flush`, destructor |
| drivers | `block_init_test.cpp`, `block_write_test.cpp`, `block_read_test.cpp`, `block_delete_test.cpp`, `block_stat.cpp` | the main block, an `IndexHandle` | one operation per run of the program |
| demonstrations | `main.cpp`, `file_op_test.cpp`, `mmap_file_op_test.cpp` | - | call each operation once |

### How they interact

A driver opens an `IndexHandle`, which owns an `MMapFileOperation` on
`./index/<block>`, and a `FileOperation` on `./mainblock/<block>`.  The header and
the buckets of the index are touched through the mapping, by plain stores; the
records through `MMapFileOperation::pread_file` and `pwrite_file`, which copy from
and to the mapping when the record lies inside it and call `FileOperation`
otherwise.  To store a file, `block_write_test` writes the data to the main block at
`data_file_offset`, then the record to the index, then raises `data_file_offset`,
then the counters, then flushes.  Nothing is locked and nothing is logged: the
order of the stores is all that protects the index, and the mapping is
`MAP_SHARED`, so every store outlives the process that made it.

### What is hard

- *Crashes.*  Each operation is a handful of stores to a shared mapping; a process
  can die between any two and the next one finds what is there.
- *Partial failure.*  Records outside the mapping go through `pread64` and
  `pwrite64`, and each of those can fail in the middle of an operation that has
  already changed the index.  `hash_insert` has a rollback for that.
- *Reuse.*  A deleted record goes to a free list that shares the `next` field with
  the hash chains.  One wrong order and two lists share a tail.
- *Retries.*  Transfers repeat short, interrupted and refused system calls, and open
  the file again in the middle.
- *Growth.*  Mapping and file grow together while transfers go on, and another
  process may be doing the same.
- *Concurrency.*  Every program maps the index `MAP_SHARED` and none locks it: a
  reader can stand on a record that is deleted and used again, and two writers or
  two creates can both act on what both have seen.
- *Loss of power.*  Header, buckets, records and data lie on different pages, which
  reach the disk in any order; nothing forces the data there at all.
- *Failed creation.*  `create` and `load` are sequences of system calls on a file that
  `get_file_size` makes as a side effect and `mmap_file` makes longer as another.

### What makes each component correct

- *Index*: chains and free list are intact and disjoint at every step; a file is where
  `hash_find` looks for it, once; no record is lost or overwritten; the counters
  describe the files; the data of two files do not overlap; every call takes effect
  in one step or not at all; `hash_find` ends.
- *FileOperation*: bytes go where they were asked to go, success means all of them,
  every transfer ends, no descriptor is lost.
- *MMapFile and MMapFileOperation*: the mapping never extends past the file, growing
  loses no data, and which way a transfer went cannot be told from outside.
- *Life cycle*: `load` accepts exactly complete indexes of the right block and bucket
  count; no object is used after it was deleted.
- *Drivers*: a file that was reported as written can be read back, and one that was
  deleted cannot.

## 2. The modules

    SegmentStore     what the index promises     BlockStore    what the programs promise
        ^ refinement                                 ^ refinement
    IndexRefinement  IndexInvariant              BlockProperties
        ^                ^                           ^
    IndexProperties -----'---------------------> (BlockProperties)
        ^                                        BlockPrograms <---- Durability
        |                 .--------------------------'               pages, disk, power
    IndexHandle <---------+--- SharedIndex           several processes at once

    ByteFile         what a mapped file promises
        ^ refinement
    MappedProperties     <-- MappedFile
    FileProperties       <-- FileOperation
    LifeCycleProperties  <-- IndexLifeCycle          create, load, remove, delete

    IndexProofs <- IndexDataProofs <- BlockProofs <- DurabilityProofs
                         ^
                    SharedProofs          MappedProofs     FileProofs     LifeProofs

`BlockPrograms`, `SharedIndex` and `Durability` extend `IndexHandle` and use its
actions as they are: each adds what is around an operation.  `BlockPrograms` adds
the program and the main block, `SharedIndex` the other processes, and
`Durability` the machine below `BlockPrograms`.

### `IndexHandle`

The index of one block after `create`, one store at a time.  `pc` is the next step of
the running operation:

    find -> (hit)  found -> release -> push -> uncount          delete
                   found                                        read
         -> (miss) allocate -> write -> link -> commit -> account   write

| code | action |
|---|---|
| `hash_find` | `StartFind`, then `FindHit`, `FindNext`, `FindMiss` per turn of its loop; `FindFails` |
| `hash_insert`, where the record goes | `AllocateReused`, `AllocateNew`, `AllocateFails` |
| `hash_insert`, the record and the link | `WriteNode`, `LinkNode`; `WriteNodeFails` and `LinkNodeFails` with `Rollback` |
| what `block_write_test` does after success | `CommitDataOffset`, `AccountInsert` |
| `read_segment_meta` | `ReadNode`, `ReadNodeFails` |
| `delete_segment_meta` | `UnlinkNode`, `ReleaseNode`, `PushFree`, `AccountDelete`, and the two failures |
| death of the process | `Crash` |

An offset in the file is the number of the record that starts there; 0 is the null
offset.  `MapLimit` is the number of records that lie in the mapping whatever
happens: only the others can fail.  `lists` is auxiliary: the sequences of records that
the offsets stand for.  No guard reads it.  `misrolled` is a history variable, set by
the rollback that gives back a record it did not take (finding 1).

What is abstracted: a record is read or written as a whole, and a write that fails has
stored nothing.  For a new or released record it makes no difference what a failed pwrite has
stored, as it is in no chain.  For `LinkNodeFails` and `UnlinkNodeFails` it does: `pwrite64` may
store the whole record before it, which differs in `next` only, or enough of it to contain `next`, and
a repeated call then fails (file_op.cpp:176-203).  The call returns an error although the
record is linked, and `hash_insert` gives its place back; or although it is unlinked.  The
models leave this out, so what they say of a failed link or unlink holds when
the `next` field is not among the bytes that were stored.  The read and the write of that record in
`LinkNode` and `UnlinkNode` are one step, and so are the stores of
`update_block_info`, because no other process is modelled here and no property
speaks of the counters while an operation runs.  `int32_t` counters are unbounded integers.

`IndexProperties` states the properties, `IndexRefinement` maps the state to
`SegmentStore`, and `IndexInvariant` is the inductive invariant.

### `SegmentStore`

A map from file ids to segments of the main block with one call at a time.  A
write takes effect when its record is linked, a delete when it is unlinked.  A write
that reports a disk error has had no effect; a delete that reports one may have
had it (the second `pwrite_file` of `delete_segment_meta`), and so may a call the process died in.

### `FileOperation`

One object, one file, and the table of descriptors of its process.  A transfer is a
loop of `check` (the conditions at the head of the loop, and `check_file`) and `transfer`
(one system call, whose outcomes are those the code tells apart: some bytes, none,
`EINTR`/`EAGAIN`, `EBADF`, another error).  Bytes of a buffer are told apart by their
place in it.  `ClosedElsewhere` is the only way a descriptor goes bad: other code of the
process closed it.  The operations that are one system call after `check_file` are one
action each.  A failing call that changes nothing is left out.

### `MappedFile` and `ByteFile`

`MMapFileOperation` and `MMapFile` in each of several processes on one file.  A page
is the unit of sizes and transfers.  A transfer that does not fit the mapping calls
`remap_file` (`pwrite_file` twice: the call in the `if (debug)` block and the one
after it, `debug` being 1 in the source), then goes through memory if it fits
and through the descriptor if not.  `remap_file` and `map_file` are `Stat`, `Truncate` and
`Map`, each of which can fail (`GrowFails`).  `load` maps the whole of a file that is longer than
`first_map_size_` if it may.  A `memcpy` past the end of the file is `BusError`.
`ByteFile` is a file of zeros, changed page by page by transfers that
report success only when they have moved everything.

The transfers of `FileOperation` are reduced here to some pages moved, end of file, and
failure: that this is what they do is what `FileOperation` shows.

### `BlockPrograms` and `BlockStore`

`block_write_test`, `block_read_test` and `block_delete_test` on one block, one
program at a time, in the state `block_init_test` leaves.

| code | action |
|---|---|
| `block_write_test` up to the id and the offset it takes from the header | `WriteProgram` (`FileNo`, `DataOffset`) |
| its `pwrite_file` on the main block, a unit at a time | `WriteData`, `WriteDataFails` |
| `write_segment_meta`, `commit_block_data_offset`, `update_block_info` | `WriteMeta`, then `IndexStep`: the actions of `IndexHandle` |
| `flush` and the report | `FinishWrite`, `FlushFails` |
| `block_read_test` | `ReadProgram`, `IndexStep`, `FinishRead`, `ReadDataFails` |
| `block_delete_test` | `DeleteProgram`, `IndexStep`, `FinishDelete`, `FlushFails` |
| death of a program | `Dies` |

The buffer of `block_write_test` is full of `'6'`; here the data of each run is told
apart by the number of the run, as the data of any other caller would be, so that a
read that returns another file's data can be noticed.  `promised` and `doubtful` are
history variables: the ids said to be stored, and those of which nobody has said what became of them.
`load` at the start of each program is not repeated here; it changes nothing in a whole index.

`BlockStore` is what a user of the programs may count on.  A file that was said to
be written is there, with its data, until somebody deletes it, and no write takes
its id.  Of a write or a delete that died or failed nothing is known until a later
delete of the id has succeeded.  That the programs implement it (`ImplementsBlockStore`,
until a rollback has gone wrong) is not obvious: a write that died leaves `data_file_offset` and
`seq_no_` as they were, and the next write goes over its data, which is
harmless exactly because that file was not promised to anybody.

### `SharedIndex`

Several processes in `IndexHandle` at once.  The local variables of the process
that runs are the ones of `IndexHandle`; `Switch` puts them into the frame of the
process and takes those of another one out.  It may come between any two steps,
that is, between any two stores to the file.  `LinkNode` and `UnlinkNode` are one step here
too, so what two writers can do to each other is beyond this model: there is one writer
(section 5).  `stored` are the ids whose write has returned, `gone` those that somebody has ever begun to
delete, and `asked` is what each reader was called for and whether a delete came between.

### `Durability`

`disk` is what is on the disk of page 0 of the index (header, buckets, the first
records), of the pages with the other records, and of the main block.  `WriteBack`
and `WriteBackMain` are the kernel, whenever it likes; `Close` is the destructor of
`MMapFile` with its `MS_SYNC`, which forces the pages that are mapped: those with the first `MapLimit`
records, and as many more as the mapping has grown by.  The records behind it, which `pwrite64` has
written, are left to the kernel; an `msync` that fails, which nobody looks at, is `DiesOpen`.
`flush`, an `msync` with `MS_ASYNC`, changes nothing.
`PowerLoss` makes the files what the disk has of them, and is the last step: the
properties look at what is left.  `synced` remembers the files that a `Close` has forced, those to which a chain leads
within the forced pages; a delete that begins empties it, because a delete takes a record out of the middle of a chain, and a page
that is missing then may cut other files off.  A page is written as a whole.  The header and
1000 buckets take 4044 bytes and a record 24, so the third record straddles two
pages: a record torn in that way is not modelled.

### `IndexLifeCycle`

Processes with at most one `IndexHandle` each, and the index file below them.
Each step is one system call, or one lookup in the index:

| code | actions |
|---|---|
| `create` | `Create`, `OpenFile` and `GetFileSize` (`get_file_size`, which makes the file), `WriteUnit` four times, `Sync`, `Stat`, `Truncate`, `Map` |
| `load` | `Load`, `OpenFile`, `GetFileSize`, `Stat`, `Truncate`, `Map`, `CheckIndex` |
| `block_write_test` | `TakePlace` (the header is read and the chain searched), for a record outside the mapping the `remap_file` of `pwrite_file`, `StoreFile`; `StoreRefused` when `hash_find` comes late enough to find the id |
| `block_read_test` | `ReadFile` for a record outside the mapping: the `remap_file` of `pread_file` |
| `map_file`, `remap_file` | `Stat`, `Truncate` and `Map`: `fstat`, `ftruncate` and `mmap` or `mremap` |
| `remove` | `Remove` (`munmap_file`), `UnlinkFile` |
| destructor, death | `Delete`, `Dies` |
| failing calls | `CallFails` in `create` and `load`, `RemapFails`, `StoreFails`, `UnlinkFails` |

The units of the `pwrite_file` of `create` are the parts of the file that `load` tells apart: the
block id, the bucket size, the offsets, the buckets.  A stored file has a unit behind them, its place; `at`
is what `hash_find` leads to.  What an `ftruncate` cuts off is gone from `at`, and so is the file whose place
another writer has taken.  The rest of what `IndexHandle` models is left out here.  `block_init_test`
is `create`, `remove` if it cannot make the main block, and an exit with or without the destructor;
`block_stat` is `load` and the destructor.

Everything may run beside everything.  `clash` remembers that two processes were at the same file at once:
that a file was opened while another process was writing its header, that one found it short between
the `fstat` and the `ftruncate` of another or stored behind its end there, or that two took a place for a record.
`aborted` remembers that a `create` was cut off.  A handle whose `remove` has left `map_file_` pointing to a
deleted object does nothing more (section 5).  Every program gives the block id that is in the
path of the index, so that the check for a conflict of block ids always passes and is left out.

### MC modules

`MCIndexHandle`, `MCFileOperation`, `MCMappedFile`, `MCBlock`, `MCSharedIndex`, `MCDurability` and
`MCLifeCycle` give constants that are not numbers their values.  The processes of `MCLife` are symmetric.

## 3. The runs

| run | shows | bounds |
|---|---|---|
| `index_crash` | lists, keys, record ends, leaks, counters, data places, kept records; one crash anywhere | 4 ids in two buckets, 3 records, 2 lengths, 5 changes |
| `index_faults` | the inductive invariant, refinement of `SegmentStore`, and that every call returns | 3 ids in one bucket, 3 records of which 2 can fail, 5 changes, 2 errors, 1 crash |
| `mapped` | mapping within file, no pages lost, refinement of `ByteFile` | one process, mapping of 1 to 3 pages growing by 2, transfers of 1 or 2 pages ending at 4, 2 failures |
| `mapped_ends` | every transfer ends | two processes, mapping of 1 to 2 pages growing by 1, transfers ending at 3 |
| `file` | places, completeness, descriptors, and that every transfer returns | transfers of 3 bytes, file of 3, one descriptor going bad, descriptor 0 free |
| `block` | refinement of `BlockStore`; ids refused and files orphaned only by deaths and failures | 3 ids, files of 2 units, main block of 4, 3 records of which 1 can fail, 4 writes, 1 error, 1 crash |
| `shared` | reads beside a program that writes and deletes are right, and end | 1 writer and deleter, 1 reader, 3 ids of which two agree in the bits of the hash word, 5 changes, 1 crash |
| `power` | files that a closing `msync` has forced survive a loss of power | 2 ids, 3 records, the header and one of them on the first page and two on the second, 1 record always mapped, 3 writes, 1 crash |
| `life` | files stay in an index until two processes are at the same file at once; incomplete indexes are refused | 2 processes, 3 handles, 2 index files, 4 stored files, mapping of 5 to 7 units growing by 2, 1 failing call |

Why the bounds are enough.  A list operation looks at the record before, the record
and the record after, and at the heads of a chain and of the free list: three records
are the fewest with a first, a middle and a last one.  The ids 1, 3 and 5 share a
bucket and 1 and 5 agree in all the bits that choose it.  Five changes let a file be
written, deleted, its record reused, and deleted again.  Two errors and a crash
let a second failure meet what a first has left.  A mapping that grows from 1 to 3
pages is refused, clamped (after a `load` that mapped 2) and outgrown by a transfer that ends at 4.
A main block of two files is full at the third write, and four writes let an id that died
be deleted and taken again.  A reader changes no record and no offset, so that one stands for any number (its `remap_file` may
call `ftruncate`, which `IndexLifeCycle` and `MappedFile` model); a second
writer would break the index (section 5), so one is the most there can be in `shared`.
Three records on two pages let the header, the record before and the new record be on the disk
or not, each for itself, and with one record always mapped a closing program may have forced the second page or not.
In `life` the first mapping has room for one record and the largest for three of four.  The second makes writers and
readers grow their mapping, or goes through `pwrite64` when that fails, as the fourth always does; so a create, a load
or a reader that found the file short can cut records off if its `ftruncate` comes last.  Two inodes let an index be
removed and made again while a process still has the old one.

The runs that expect a violation are the findings of section 5.

Fairness.  The liveness runs assume weak fairness of the steps of a call that is
running, and of nothing else: that a process that is inside an operation goes
on executing it.  No operation has to be called, and failures and interrupts may
come as often as the bounds of a run let them; `EINTR` has no bound at all.
`shared` assumes weak fairness of `Switch` to each process, which is that the
scheduler lets none starve, and strong fairness of a step of a process while it
runs: strong, because the process is enabled only in its own turns.
`power` and `life` do not check deadlock: a machine without power stops, and so do the
processes when the bounds on handles are used up.

## 4. The proofs

The theorems hold for every set of ids, number of buckets, records, processes and bytes, every
width of the hash word, and any number of crashes and errors.  They assume the ASSUMEs of the modules and
nothing else: constants are natural numbers, bucket count and word width are positive, the block id is not 0.

| component | module | proved |
|---|---|---|
| index | `IndexProofs` | `TypeOK`, `IndexInv`, `ListsIntact`, `RecordsBelowEnd`, `KeysPlaced` |
| | `IndexDataProofs` | `LiveRecordsKept`, `NothingLeaks`, `DataDisjoint`, `Accounts`; `ImplementsStore`: the index implements `SegmentStore`; a bound on the steps of a call |
| programs | `BlockProofs` | `BlockTypeOK`, `RefusedOnlyAfterDeath`, `OrphansAccounted`, `ImplementsBlockStore`: the programs implement `BlockStore` |
| | `SharedProofs` | of one process that changes the index and any number of readers `ReadOwnRecord`, `NotFoundMeansAbsent`, `ListsIntact` |
| | `DurabilityProofs` | `ClosedFilesSurvive`: what a closing `msync` has forced is found after a loss of power |
| mapped file | `MappedProofs` | `TypeOK`; of one process `MappedWithinFile`, `FileNeverShrinks`, and `ImplementsByteFile`: it implements `ByteFile`; of any number, a bound on the steps of a call |
| file | `FileProofs` | `TypeOK`, `PwriteInPlace`, `WriteInPlace`, `PreadInPlace`, `OneDescriptor`, `SuccessIsComplete`; a bound on the steps of a transfer |
| life cycle | `LifeProofs` | `LifeTypeOK`, `ReportedIsStored`, `RefusedOnlyIfBegun`, `IncompleteIsRefused`, `FilesStay` |

### The index

`TypeOK` is not inductive: that a write finds a record to use when it comes to `allocate` depends on a
condition of its beginning, which `OffsetsUsable` carries along.  `IndexInv` adds what a step knows of
its call (`CallKnown`: which operation it is, and that the data of a write goes where the header said)
and, as long as no rollback has gone wrong:

- `FileInv`: the offsets in the file represent `lists` (`Represented`), no record has two
  places (`Disjoint`), all lie below `index_file_size` (`BelowEnd`), and every file is in the chain of
  its bucket, once (`Placed`);
- `HandFree`: the record an operation has in hand is in no list, so that storing into it
  harms none, and linking it keeps them disjoint;
- `Searched`: where the cursor of `hash_find` stands in the chain.  Without it
  `LinkNode` might store into the middle of the chain and cut off its tail, and `UnlinkNode`
  into a record that is not the one before;
- `Prepared`: a record has its contents before an offset to it is stored.

Each action has a lemma of its own.  The hard ones are the two that change a chain,
`LinkNode` and `UnlinkNode`.  `Crash` is easy, and that is the point: `FileInv` speaks of the file
alone and holds between any two stores, so a process that finds the file after a
crash finds it intact.

`IndexDataProofs` first says which records each step adds to the files of the index or takes from them
(`LinkNodeSets`, `UnlinkNodeSets`, `AllocateReusedSets`, `PushFreeSets`), and that no other step than `WriteNode`
changes the id, place or length in a record (`EntriesKept`).  With these, `LiveRecordsKept`
follows from `HandFree`, and `DataDisjoint` is inductive beside `IndexInv`.  `NothingLeaks` has to
know that without faults no rollback comes.

The counters describe the files only between operations.  `CountInv`, the inductive form of `Accounts`, says what
holds at each step: a file is linked before it is counted, and unlinked before it is taken off (`Uncounted`,
`Unsized`, `Unweighed`).  What a sum over a set becomes when the set changes by one is proved without
induction over sets.  `SizesOf` chooses a function on the subsets of a set by an equation; the number of
bytes of the records, the cardinality of a set of pairs (`Bytes`), is one solution, and a second one
would have a smallest set on which it differs (`SizesCounted`, `SmallestSubset`).

The last sections of the module show that the two linking stores are the steps at which the map of
`SegmentStore` changes, by one entry each (`LinkInserts`, `UnlinkRemoves`), that no other
step changes it, and that what a call answers is what the map says: `Searched` again, because
an id that is nowhere in its chain is nowhere.

### The programs

`BlockInv` adds to `IndexInv`, which every step of a program keeps because the calls it makes are calls of the index:

- `SeqNoInv`: `seq_no_` is past every promised id, and past every stored id unless a program has died;
- `DataInv`: what was promised lies whole in the main block and below `data_file_offset`, and what
  the running program has written lies from there on, so that no write goes over promised data;
- `KnownInv`: what is stored is promised or doubtful, and a program works on a doubtful id;
- `OrphansInv`: an account of the stored files that nobody was told of, among them at most the one
  a program has in hand.

Their proofs look at no chain and no offset.  They use that a step of the index is a step of `SegmentStore`,
as proved before, and know of `IndexHandle` only when it changes the header.  The refinement of
`BlockStore` follows: `WriteData` changes the main block past all promised files, `FinishWrite`
finds the file just linked, and a delete that reports an error leaves its id doubtful.

### Readers beside a writer

`SharedProofs` has one assumption of its own, `OneChanger`: one process writes and deletes (section 5), the
others read.  `SharedInv` says four things.

- Types and `CallKnown` hold of every frame (`Framed`): what the step of another process may change is no part of
  what a frame of a reader relies on.
- `ListInv` holds of the frame of the one that changes the index, wherever that frame is (`ListsOf`).  While it runs this is
  `ListInv` itself (`MineLists`), so that all the lemmas about the index serve again.
- `MeantBy` and `Told` tie the ids to the records: a stored id is below `seq_no_` and has a record, a reusable record
  has an id in `gone`, and the id a write works on is `seq_no_`, hence not stored.
- `Reads` is about the cursor of a reader.  While no delete has come, it stands in the chain of its id and the id is not before
  it; chains only grow at the end (`ChainGrows`), so that it stays there.  After a delete it may be anywhere, in another chain, in the free
  list, or on a record that is in the writer's hand.  What still holds is that it walks in a set of records closed under
  `next` in which only the file itself has the id it looks for (`Safe`).  Such a set begins as all the records in lists, and
  each record that is linked or pushed joins it (`SafeKept`).  It cannot bring in another record of that id, because the ids of
  linked records are new and those of pushed ones in `gone`.

### After a loss of power

`PowerInv` has `OnDisk`: each file of `synced` has a place in its chain, and the disk has the bucket, every link
up to there and the record, as memory has.  `Close` brings that about for the files that can be walked to within
the pages it forces, whichever these are; a record behind the mapping, and those only it leads to, are not in `synced`.  A step of a program keeps it because a write changes a chain only at its
end (`ChainGrows`), behind all that is on the disk, and no record of a chain but in its `next` (`LiveEntriesKept`); a page
that is written back brings the links of memory, which are the same up to the file.  A delete begins with nothing in `synced`.

What can be walked to (`Walked`) is a recursive function of the number of steps.  That there is such a
function (`WalkExists`), and that it follows a chain as far as the chain goes (`WalksAsFar`), is shown by a least number
for which it would not hold (`LeastNat`, from the library's theorem on well-founded relations), as the library's
induction theorems are out of reach.

The `power` run has no I/O errors.  The theorem has any number of them, and with them the one exception, `misrolled`.

### The files

`FileInv` says, next to where the bytes of the running transfer are, what its loop relies on: after each
system call the descriptor of `write_file` stands behind the bytes it has written, unless it is a new one
(`StandsBehind`), and the rest of a write has its place (`Room`).  Both are needed: a descriptor
may go bad between any two system calls and is opened again in the middle.

In `MappedProofs` the invariant behind `MappedWithinFile` is that the file is at least as
long as the new size once `ensure_file_size` has returned, which is where the
second process of finding 2 breaks in; so this holds of a process that has the file to itself
(`Procs = {p}`), and so does the refinement.  There `CallInv` says which variables a transfer owns; that a file made longer reads
the same as before (its pages past the end read as zeros already) makes growing a stutter.

`LifeInv` says of every handle what it knows of its file before each of its system calls (`Sound`: after a `Stat` and
a `Truncate`, for instance, header and buckets are in the file, whatever others do).  Until two processes have been at the same file
(`clash`), it adds what each can count on (`Peace`): a create that is writing has its file to itself; a process about to call
`ftruncate` is the only one, and the file is still shorter than its new length, so that nothing is cut off; a process that
stores a file has a place of its own.  `FilesStay` follows from `Peace` step by step (`FileStep`).  For `ReportedIsStored` the
file the directory names must be whole once it has been written (`Whole`), with `aborted` as a second exception.

### How long calls take

That a call returns (`CallReturns`, `TransferReturns`, `TransferEnds`) is a liveness property, and the provers know neither ENABLED nor
fairness.  What they can show is the variant: `StepsLeft`, a natural number with a bound (`CallsAreShort`, `TransfersAreShort`)
that every step of the call makes smaller (`CallsGoOn`, `TransfersGoOn`).  For the index it is the distance of the cursor from the
end of its chain and the labels to come, which takes `Searched` and that no record is in a chain twice; for `FileOperation` the attempts
left; for a mapped file the calls of `remap_file` and the pages left, whatever other processes do to the file.
TLC adds that a call which has not returned always has a next step, as these runs check for deadlock too.

### Model-checked only

- The liveness properties, of which the variants above are the part that is proved.  `ReadEnds` has none: a writer may
  lead a reader on to other records, so that the length of its walk depends on what is stored and deleted meanwhile.

## 5. Findings

1. `index_end`: the rollback of `hash_insert` (index_handle.cpp:559, 575, 585) lowers
   `index_file_size` also when the record came from the free list.  A record in use then lies
   past the end, and the next new record overwrites it.  After that a chain may become
   circular, and `hash_find` does not end; this is why several properties are stated up to
   `misrolled`.
2. `mapped_shrinks`: `ensure_file_size` (mmap_file.cpp:184-192) acts on a length that another
   process may have changed: the file shrinks under a mapping.  Of an index this cuts off the records
   behind the new end (see `FilesStay` below).
3. `block_next_id`: `seq_no_` and `data_file_offset` are raised after the id is stored
   (block_write_test.cpp:109-119).  A program that dies in between leaves an index no
   `block_write_test` can write to any more: each takes the same id, overwrites the data of the
   stored file and is refused.  Deleting that file by hand helps.

What the properties of the passing runs have to except is as much a result as what they say.
Each of these exceptions is needed; without it TLC finds the behaviour described.

- *`ReadOwnRecord`, ids ever deleted (`gone`).*  `read_segment_meta` reads the record again at the
  offset `hash_find` has found (index_handle.cpp:358) and does not look at the id again: the record
  may be another file's by then.  That the id was deleted before the read and then stored again is
  enough, if another delete comes meanwhile: the old record still has the id, and the reader may be led to it by way of the
  list of reusable records.  This takes a program that died before it raised `seq_no_`, and seven changes, two more than
  `shared` has; it came up in the search for the inductive invariant, with a run made for it.
- *`NotFoundMeansAbsent`, anything deleted meanwhile.*  A reader that stands on a record when it is
  deleted goes on through the list of reusable records (:506) and misses the files behind it,
  which nobody has touched.  It always ends, though: `ReadEnds`.
- *One writer.*  Two read the same `seq_no_`, both find it absent and both store it.  In `SharedIndex` there is
  one; `IndexLifeCycle` has any number, and two that take a place at once are a `clash`.
- *`FilesStay`, `ReportedIsStored`, `clash`.*  Two processes at the same file lose stored files in three ways.
  Two creates may both find the file empty (index_handle.cpp:89); the slower
  one then empties the buckets of the index the other has made (:115), and a load beside a create
  may accept the file before its buckets are written.  A process may find the file short (mmap_file.cpp:190), in a
  create, a load, or as a mere reader whose record lies outside its mapping, and call `ftruncate` (:192)
  when another has made it longer and stored records behind that length: they are cut off.  And the second of two
  writers at once cuts the record of the first off.  With any of the three left out of `clash`, TLC finds the loss.
- *`ReportedIsStored`, `aborted`; `IncompleteIsRefused`, the size of the file.*  `load` makes a short index
  longer (index_handle.cpp:197) before it checks the size it had (:223), so that it refuses an incomplete
  index once and accepts it the second time, with an `index_file_size` of 0.
- *`Usable`, after `remove`.*  `munmap_file` deletes the MMapFile and keeps the pointer (mmap_file_op.cpp:106);
  the destructor deletes it again, and a second `remove` reads the block id through a null pointer.
- *`ClosedFilesSurvive`, files not forced.*  `flush` is an `msync` with `MS_ASYNC` (mmap_file.cpp:55), so that a file said to
  be written may be gone after a loss of power, until the destructor has run.  And even then, if its record, or one before
  it in the chain, lies behind the mapping and went through `pwrite64`: the destructor forces `[data_, data_ + size_)`
  and no more (:39), and ignores the result.  The main block
  is never synced, so that even a file that survives may lack its data.  And `index_file_size` may lag behind the records in the chains: the next insert would
  overwrite one and make it its own successor.  A write that fails may give back a record
  that is in use (finding 1), which the next write then takes from a closed file: hence `misrolled`.
- *`OneDescriptor`, descriptor 0.*  `open_file` and the destructor do not close it, because they ask for `fd_ > 0`.
- *`printed.claim` of a delete.*  `block_delete_test` says "delete successfully!" whatever the index has answered
  (block_delete_test.cpp:88-98); `BlockStore` goes by the status it has printed before.
- *`main_blocksize`.*  It is where the main block begins, not where it ends: nothing keeps a full one from growing.

Two comments differ from the code: transfers make four attempts and not five (file_op.h:61, file_op.cpp:167), and a
`create` that does not get the size of its file returns the error of an index that is loaded (index_handle.cpp:92).

## 6. Not modelled

- *Programs after a loss of power*: `PowerLoss` is the last step.  What an index with missing pages does to the operations
  after it has no end of cases, and no code deals with any of them.
- *Torn records*: a record that straddles two pages, and the 24 bytes of a record written by two
  processes at once.
- *Objects after `remove`*: what follows is undefined.
- *Left out*: text that is printed; the demonstrations, straight-line programs without logic of
  their own (what they call is modelled); wrap-around of 32-bit counters (bounded runs cannot reach it and the code
  has no case for it); the missing return of `set_file_id`, which does nothing in the build the sources document.
