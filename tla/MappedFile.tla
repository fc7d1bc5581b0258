----------------------------- MODULE MappedFile -----------------------------
(***************************************************************************)
(* MMapFileOperation and the MMapFile it owns (mmap/mmap_file_op.cpp and   *)
(* mmap/mmap_file.cpp), one object in each of several processes that work  *)
(* on the same file.  A transfer that does not fit the mapping first makes *)
(* mapping and file grow, then goes through memory if it fits now and      *)
(* through FileOperation if it does not.                                   *)
(*                                                                         *)
(* The unit is a page: of sizes, and of what is moved at a time.  The      *)
(* mapping is MAP_SHARED, so that a store to it and a pwrite64 change the  *)
(* same file.  Each system call of ensure_file_size is a step of its own.  *)
(***************************************************************************)
EXTENDS Integers, Sequences

CONSTANTS
  Procs,            \* the processes
  max_map_size_,    \* the MMapOption they pass
  first_map_size_,
  per_map_size_,
  Bytes,            \* what a caller may write
  MaxLength,        \* bound: length of a transfer
  MaxEnd,           \* bound: where a transfer may end
  MaxFaults         \* bound: failing system calls, and deaths of processes

ASSUME OptionAssumption ==
  /\ max_map_size_ \in Nat \ {0} /\ first_map_size_ \in Nat \ {0} /\ per_map_size_ \in Nat \ {0}
  /\ first_map_size_ <= max_map_size_
ASSUME MappedBoundsAssumption == MaxLength \in Nat /\ MaxEnd \in Nat /\ MaxFaults \in Nat

VARIABLES
  file,      \* the pages of the file
  mapped,    \* is_mapped_
  size,      \* size_ of the MMapFile
  pc,        \* the next step of each process
  target,    \* new_size in remap_file, size_ in map_file
  remaps,    \* calls of remap_file the transfer has yet to make
  call,      \* the transfer, with what it writes
  buf,       \* what a read has found so far
  moved,     \* how much of it has moved
  ret,       \* what the last transfer returned
  faults

vars == <<file, mapped, size, pc, target, remaps, call, buf, moved, ret, faults>>
transfer == <<call, buf, moved, ret>>

-----------------------------------------------------------------------------
Zero == <<0, 0>>
Page == {Zero} \cup Bytes \X (1 .. MaxLength)

Data(b, n) == [i \in 1 .. n |-> <<b, i>>]
NoCall == [op |-> "none", offset |-> 0, data |-> << >>]

Length(p) == Len(call[p].data)
End(p) == call[p].offset + Length(p)
Place(p) == call[p].offset + moved[p]

Smaller(m, n) == IF m < n THEN m ELSE n

(* ftruncate to n pages, whether that makes the file longer or shorter. *)
Resized(f, n) == [i \in 1 .. n |-> IF i <= Len(f) THEN f[i] ELSE Zero]

(* pwrite64 of page x at place k; a gap reads as zeros. *)
Stored(f, k, x) ==
  [i \in 1 .. IF k < Len(f) THEN Len(f) ELSE k + 1 |->
     IF i = k + 1 THEN x ELSE IF i <= Len(f) THEN f[i] ELSE Zero]

Init ==
  /\ file = << >>
  /\ mapped = [p \in Procs |-> FALSE]
  /\ size = [p \in Procs |-> 0] /\ target = size /\ remaps = size /\ moved = size
  /\ pc = [p \in Procs |-> "ready"]
  /\ call = [p \in Procs |-> NoCall]
  /\ buf = [p \in Procs |-> << >>]
  /\ ret = [p \in Procs |-> [status |-> "none", found |-> << >>]]
  /\ faults = 0

Goto(p, label) == pc' = [pc EXCEPT ![p] = label]

Fault == faults < MaxFaults /\ faults' = faults + 1

(* The local variables of an operation are gone once it has returned. *)
Leave(p) ==
  /\ Goto(p, "ready")
  /\ target' = [target EXCEPT ![p] = 0] /\ remaps' = [remaps EXCEPT ![p] = 0]
  /\ call' = [call EXCEPT ![p] = NoCall]
  /\ buf' = [buf EXCEPT ![p] = << >>] /\ moved' = [moved EXCEPT ![p] = 0]

Return(p, status) ==
  /\ Leave(p)
  /\ ret' = [ret EXCEPT ![p] = [status |-> status, found |-> buf[p]]]

-----------------------------------------------------------------------------
(* Variants with a bug each, which the properties have to notice.          *)

RemapFileUnlimited(p) ==
  /\ pc[p] = "remap" /\ remaps[p] > 0
  /\ remaps' = [remaps EXCEPT ![p] = @ - 1]
  /\ \/ /\ size[p] = max_map_size_
        /\ UNCHANGED <<pc, target>>
     \/ /\ size[p] # max_map_size_
        /\ target' = [target EXCEPT ![p] = size[p] + per_map_size_]
        /\ Goto(p, "stat")
  /\ UNCHANGED <<file, mapped, size, transfer, faults>>

RemapFileUntilItFits(p) ==
  /\ pc[p] = "remap" /\ remaps[p] > 0
  /\ remaps' = [remaps EXCEPT ![p] = IF End(p) <= size[p] THEN 0 ELSE @]
  /\ \/ /\ size[p] = max_map_size_
        /\ UNCHANGED <<pc, target>>
     \/ /\ size[p] # max_map_size_
        /\ target' = [target EXCEPT ![p] = Smaller(size[p] + per_map_size_, max_map_size_)]
        /\ Goto(p, "stat")
  /\ UNCHANGED <<file, mapped, size, transfer, faults>>

StatNeverGrows(p) ==
  /\ pc[p] = "stat"
  /\ Goto(p, "map")
  /\ UNCHANGED <<file, mapped, size, target, remaps, transfer, faults>>

StatAlwaysGrows(p) ==
  /\ pc[p] = "stat"
  /\ Goto(p, "truncate")
  /\ UNCHANGED <<file, mapped, size, target, remaps, transfer, faults>>

TransferKeepsOffset(p) ==
  /\ pc[p] = "transfer" /\ moved[p] < Length(p)
  /\ \/ /\ call[p].op = "write"
        /\ file' = Stored(file, call[p].offset, call[p].data[moved[p] + 1])
        /\ UNCHANGED buf
     \/ /\ call[p].op = "read" /\ Place(p) < Len(file)
        /\ buf' = [buf EXCEPT ![p] = Append(@, file[Place(p) + 1])]
        /\ UNCHANGED file
  /\ moved' = [moved EXCEPT ![p] = @ + 1]
  /\ UNCHANGED <<mapped, size, pc, target, remaps, call, ret, faults>>

-----------------------------------------------------------------------------
(* mmap_file.  IndexHandle::load passes the size of the file instead of    *)
(* first_map_size_ when the file is longer than that and may be mapped.    *)
MmapFile(p) ==
  /\ pc[p] = "ready" /\ ~mapped[p]
  /\ \E first \in {first_map_size_} \cup ({Len(file)} \cap (first_map_size_ .. max_map_size_)) :
       target' = [target EXCEPT ![p] = first]
  /\ Goto(p, "stat")
  /\ UNCHANGED <<file, mapped, size, remaps, transfer, faults>>

(* pread_file and pwrite_file.  When the transfer does not fit the mapping *)
(* pread_file calls remap_file once and pwrite_file twice.                 *)
Begin(p, op, offset, data) ==
  /\ pc[p] = "ready"
  /\ call' = [call EXCEPT ![p] = [op |-> op, offset |-> offset, data |-> data]]
  /\ remaps' = [remaps EXCEPT ![p] =
                  IF mapped[p] /\ offset + Len(data) > size[p]
                  THEN IF op = "write" THEN 2 ELSE 1
                  ELSE 0]
  /\ Goto(p, "remap")
  /\ UNCHANGED <<file, mapped, size, target, buf, moved, ret, faults>>

(* The data of a read stands for its length only. *)
PreadFile(p) ==
  \E offset \in 0 .. MaxEnd, n \in 1 .. MaxLength :
    offset + n <= MaxEnd /\ Begin(p, "read", offset, [i \in 1 .. n |-> Zero])

PwriteFile(p) ==
  \E offset \in 0 .. MaxEnd, n \in 1 .. MaxLength, b \in Bytes :
    offset + n <= MaxEnd /\ Begin(p, "write", offset, Data(b, n))

(* remap_file up to ensure_file_size *)
RemapFile(p) ==
  /\ pc[p] = "remap" /\ remaps[p] > 0
  /\ remaps' = [remaps EXCEPT ![p] = @ - 1]
  /\ \/ /\ size[p] = max_map_size_
        /\ UNCHANGED <<pc, target>>
     \/ /\ size[p] # max_map_size_
        /\ target' = [target EXCEPT ![p] = Smaller(size[p] + per_map_size_, max_map_size_)]
        /\ Goto(p, "stat")
  /\ UNCHANGED <<file, mapped, size, transfer, faults>>

(* ensure_file_size: fstat, and ftruncate if the file was found too short. *)
Stat(p) ==
  /\ pc[p] = "stat"
  /\ Goto(p, IF Len(file) < target[p] THEN "truncate" ELSE "map")
  /\ UNCHANGED <<file, mapped, size, target, remaps, transfer, faults>>

Truncate(p) ==
  /\ pc[p] = "truncate"
  /\ file' = Resized(file, target[p])
  /\ Goto(p, "map")
  /\ UNCHANGED <<mapped, size, target, remaps, transfer, faults>>

(* mmap in map_file, mremap in remap_file *)
Map(p) ==
  /\ pc[p] = "map"
  /\ size' = [size EXCEPT ![p] = target[p]]
  /\ mapped' = [mapped EXCEPT ![p] = TRUE]
  /\ target' = [target EXCEPT ![p] = 0]
  /\ Goto(p, IF mapped[p] THEN "remap" ELSE "ready")
  /\ UNCHANGED <<file, remaps, transfer, faults>>

(* A failing remap_file leaves the mapping as it was, and the transfer     *)
(* goes on; after a failing map_file there is none.                        *)
GrowFails(p) ==
  /\ pc[p] \in {"stat", "truncate", "map"} /\ Fault
  /\ target' = [target EXCEPT ![p] = 0]
  /\ Goto(p, IF mapped[p] THEN "remap" ELSE "ready")
  /\ UNCHANGED <<file, mapped, size, remaps, transfer>>

Route(p) ==
  /\ pc[p] = "remap" /\ remaps[p] = 0
  /\ Goto(p, IF mapped[p] /\ End(p) <= size[p] THEN "copy" ELSE "transfer")
  /\ UNCHANGED <<file, mapped, size, target, remaps, transfer, faults>>

(* memcpy from or to the mapping *)
Copy(p) ==
  /\ pc[p] = "copy" /\ moved[p] < Length(p) /\ Place(p) < Len(file)
  /\ \/ /\ call[p].op = "write"
        /\ file' = [file EXCEPT ![Place(p) + 1] = call[p].data[moved[p] + 1]]
        /\ UNCHANGED buf
     \/ /\ call[p].op = "read"
        /\ buf' = [buf EXCEPT ![p] = Append(@, file[Place(p) + 1])]
        /\ UNCHANGED file
  /\ moved' = [moved EXCEPT ![p] = @ + 1]
  /\ UNCHANGED <<mapped, size, pc, target, remaps, call, ret, faults>>

(* FileOperation::pread_file and FileOperation::pwrite_file *)
Transfer(p) ==
  /\ pc[p] = "transfer" /\ moved[p] < Length(p)
  /\ \/ /\ call[p].op = "write"
        /\ file' = Stored(file, Place(p), call[p].data[moved[p] + 1])
        /\ UNCHANGED buf
     \/ /\ call[p].op = "read" /\ Place(p) < Len(file)
        /\ buf' = [buf EXCEPT ![p] = Append(@, file[Place(p) + 1])]
        /\ UNCHANGED file
  /\ moved' = [moved EXCEPT ![p] = @ + 1]
  /\ UNCHANGED <<mapped, size, pc, target, remaps, call, ret, faults>>

EndOfFile(p) ==
  /\ pc[p] = "transfer" /\ call[p].op = "read" /\ moved[p] < Length(p)
  /\ Place(p) >= Len(file)
  /\ Return(p, "error")
  /\ UNCHANGED <<file, mapped, size, faults>>

TransferFails(p) ==
  /\ pc[p] = "transfer" /\ moved[p] < Length(p) /\ Fault
  /\ Return(p, "error")
  /\ UNCHANGED <<file, mapped, size>>

Done(p) ==
  /\ pc[p] \in {"copy", "transfer"} /\ moved[p] = Length(p)
  /\ Return(p, "TFS_SUCCESS")
  /\ UNCHANGED <<file, mapped, size, faults>>

(* munmap_file, after which the callers do not use the object again: the   *)
(* next mapping is that of a new object.                                   *)
MunmapFile(p) ==
  /\ pc[p] = "ready" /\ mapped[p]
  /\ mapped' = [mapped EXCEPT ![p] = FALSE] /\ size' = [size EXCEPT ![p] = 0]
  /\ UNCHANGED <<file, pc, target, remaps, transfer, faults>>

-----------------------------------------------------------------------------
(* A dead process has lost its mapping; the file is the kernel's. *)
Dies(p) ==
  /\ Leave(p)
  /\ mapped' = [mapped EXCEPT ![p] = FALSE] /\ size' = [size EXCEPT ![p] = 0]
  /\ UNCHANGED <<file, ret>>

Crash(p) == pc[p] # "ready" /\ Fault /\ Dies(p)

(* SIGBUS: the mapping extends past the end of the file. *)
BusError(p) ==
  /\ pc[p] = "copy" /\ moved[p] < Length(p) /\ Place(p) >= Len(file)
  /\ Dies(p)
  /\ UNCHANGED faults

Step(p) ==
  \/ RemapFile(p) \/ Stat(p) \/ Truncate(p) \/ Map(p) \/ GrowFails(p) \/ Route(p)
  \/ Copy(p) \/ Transfer(p) \/ EndOfFile(p) \/ TransferFails(p) \/ Done(p) \/ BusError(p)

Next ==
  \E p \in Procs :
    MmapFile(p) \/ PreadFile(p) \/ PwriteFile(p) \/ MunmapFile(p) \/ Step(p) \/ Crash(p)

Spec == Init /\ [][Next]_vars
FairSpec == Spec /\ \A p \in Procs : WF_vars(Step(p))
=============================================================================
