----------------------------- MODULE LifeProofs -----------------------------
(***************************************************************************)
(* The life cycle of an index keeps its promises for any number of         *)
(* processes, files, failing calls and deaths.                             *)
(***************************************************************************)
EXTENDS LifeCycleProperties, TLAPS

(* The handles that are between get_file_size and the end of create or     *)
(* load, or have the file mapped; those that have looked at it, or can.    *)
Holds(h) ==
  \/ h.pc \in {"write", "sync", "stat", "truncate", "map", "check", "memcpy", "pwrite"}
  \/ h.map_file_ = "alive"
Sees(h) ==
  \/ h.op = "load" /\ h.pc \in {"stat", "truncate", "map", "check"}
  \/ h.map_file_ = "alive"

HandleType(m) ==
  [pc : {"none", "idle", "open", "size", "write", "sync", "stat", "truncate", "map",
         "check", "memcpy", "pwrite", "unlink"},
   op : {"none", "create", "load", "store", "read"},
   is_load_ : BOOLEAN, map_file_ : {"null", "alive", "deleted"},
   map_size_ : 0 .. max_map_size_, inode : 0 .. m, size : 0 .. MaxLength,
   done : 0 .. Units, place : 0 .. MaxFiles,
   verdict : {"none", "TFS_SUCCESS", "TFS_ERROR", "EXIT_INDEX_ALREADY_LOADED_ERROR",
              "EXIT_META_UNEXPECT_FOUND_ERROR", "EXIT_INDEX_CORRUPT_ERROR",
              "EXIT_BUCKET_CONFIGURE_ERROR"}]

InodeType == [length : 0 .. MaxLength, written : 0 .. Units, used : 0 .. MaxFiles,
              at : [Places -> 0 .. MaxFiles]]

Typed ==
  /\ made \in 0 .. MaxInodes /\ dir \in 0 .. made
  /\ inodes \in [Inodes -> InodeType]
  /\ handle \in [Procs -> HandleType(made)]
  /\ handles \in 0 .. MaxHandles /\ stores \in 0 .. MaxFiles /\ faults \in 0 .. MaxFaults
  /\ reported \subseteq 1 .. MaxFiles /\ aborted \in BOOLEAN /\ clash \in BOOLEAN

(* A file is as long as what was written to it, until it is mapped; it is  *)
(* not mapped before something was written, and its records are in it.     *)
LengthInv ==
  \A i \in Inodes :
    /\ inodes[i].length = inodes[i].written \/ inodes[i].length >= first_map_size_
    /\ inodes[i].length > 0 => inodes[i].written > 0
    /\ i > made => inodes[i].length = 0
    /\ \A n \in Places : inodes[i].at[n] # NoFile => Units + n <= inodes[i].length

(* What a handle is before each system call, and what it knows of its file. *)
Sound(h) ==
  /\ Holds(h) \/ h.pc = "size" => h.inode # NoFile
  /\ h.pc = "open" => h.inode = NoFile
  /\ h.is_load_ => h.map_file_ # "null"
  /\ h.map_file_ = "alive" =>
       h.map_size_ >= first_map_size_ /\ inodes[h.inode].length >= first_map_size_
  /\ h.op = "none" => h.pc \in {"none", "idle", "unlink"}
  /\ h.op \in {"create", "load"} =>
       /\ h.pc \in {"open", "size", "write", "sync", "stat", "truncate", "map", "check"}
       /\ ~h.is_load_ /\ h.map_file_ # "deleted" /\ h.verdict = "none"
  /\ h.op \in {"store", "read"} =>
       /\ h.pc \in {"stat", "truncate", "map", "memcpy", "pwrite"}
       /\ h.is_load_ /\ h.map_file_ = "alive" /\ h.verdict = "none"
  /\ h.op = "store" => h.place # 0
  /\ h.op = "read" => h.pc \notin {"memcpy", "pwrite"}
  /\ h.pc \in {"open", "size"} => h.done = 0
  /\ h.pc \in {"write", "sync"} => h.op = "create"
  /\ h.pc = "write" => h.done < Units
  /\ h.op = "create" /\ h.pc \in {"sync", "stat", "truncate", "map"} =>
       inodes[h.inode].written = Units
  /\ h.op = "load" /\ h.pc \in {"stat", "truncate", "map", "check"} =>
       h.size <= inodes[h.inode].written \/ h.size >= first_map_size_
  /\ h.op = "load" /\ h.pc \in {"stat", "truncate", "map"} => inodes[h.inode].length > 0
  /\ h.pc = "map" => inodes[h.inode].length >= first_map_size_
  /\ h.pc = "check" => h.op = "load" /\ h.map_file_ = "alive"
  /\ h.pc = "unlink" => h.map_file_ # "alive"
  /\ h.verdict = "EXIT_META_UNEXPECT_FOUND_ERROR" =>
       h.inode # NoFile /\ inodes[h.inode].written > 0
  /\ h.is_load_ /\ h.inode # NoFile /\ inodes[h.inode].written < HeaderUnits =>
       h.size >= first_map_size_

AllSound == \A p \in Procs : Sound(handle[p])

(* What process p with handle h can count on until two processes are at    *)
(* the same file: that it has the file it creates to itself, and its       *)
(* ftruncate and the place of its record too; and that what it has mapped, *)
(* or is about to map, is in the file.                                     *)
Peace(p, h) ==
  /\ h.pc = "write" =>
       /\ \A n \in Places : inodes[h.inode].at[n] = NoFile
       /\ \A q \in Procs \ {p} : handle[q].inode = h.inode => ~Holds(handle[q])
  /\ h.pc = "truncate" =>
       /\ inodes[h.inode].length < MapTarget(h)
       /\ \A q \in Procs \ {p} : handle[q].inode = h.inode => handle[q].pc # "truncate"
  /\ h.op = "store" =>
       /\ inodes[h.inode].used + 1 = h.place
       /\ \A q \in Procs \ {p} : handle[q].inode = h.inode => handle[q].op # "store"
  /\ h.pc = "map" => inodes[h.inode].length >= MapTarget(h)
  /\ h.map_file_ = "alive" => inodes[h.inode].length >= h.map_size_

Undisturbed ==
  ~clash =>
    /\ \A p \in Procs : Peace(p, handle[p])
    /\ \A i \in Inodes : \A n \in Places : n > inodes[i].used => inodes[i].at[n] = NoFile

(* The file the directory names is whole once create has written it, and   *)
(* whoever has looked at it knows.                                         *)
Whole ==
  /\ ~aborted /\ dir # NoFile /\ inodes[dir].length > 0 =>
       \/ inodes[dir].written = Units
       \/ \E p \in Procs : handle[p].pc = "write" /\ handle[p].inode = dir
  /\ ~aborted /\ ~clash =>
       \A p \in Procs :
         handle[p].inode = dir /\ dir # NoFile /\ Sees(handle[p]) => inodes[dir].written = Units
  /\ reported # {} => dir # NoFile

(* The inductive invariant. *)
LifeInv == Typed /\ LengthInv /\ AllSound /\ Undisturbed /\ Whole /\ ReportedIsStored

-----------------------------------------------------------------------------
(* What the invariant says of the properties, and of a file and a handle. *)
LEMMA LifeInvSays == LifeInv => LifeTypeOK /\ RefusedOnlyIfBegun /\ IncompleteIsRefused
<1> SUFFICES ASSUME LifeInv PROVE LifeTypeOK /\ RefusedOnlyIfBegun /\ IncompleteIsRefused  OBVIOUS
<1>1. RefusedOnlyIfBegun /\ IncompleteIsRefused
  BY DEF LifeInv, AllSound, Sound, RefusedOnlyIfBegun, IncompleteIsRefused
<1>2. \A i \in Inodes : /\ inodes[i].written <= inodes[i].length
                        /\ \A n \in Places : inodes[i].at[n] # NoFile => Units + n <= inodes[i].length
  BY LifeAssumption DEF LifeInv, Typed, InodeType, LengthInv, Units
<1>3. \A p \in Procs : handle[p].map_file_ = "alive" =>
        /\ inodes[handle[p].inode].length >= first_map_size_
        /\ ~clash => inodes[handle[p].inode].length >= handle[p].map_size_
  BY DEF LifeInv, AllSound, Sound, Undisturbed, Peace
<1> QED  BY <1>1, <1>2, <1>3 DEF LifeInv, Typed, LifeTypeOK, HandleType, InodeType

LEMMA InitLife == LifeInit => LifeInv
<1> SUFFICES ASSUME LifeInit PROVE LifeInv  OBVIOUS
<1> USE LifeAssumption DEF LifeInit, NoHandle, Empty, NoFile, Inodes, Places
<1>0. aborted \in BOOLEAN /\ clash \in BOOLEAN  OBVIOUS
<1>1. inodes \in [Inodes -> InodeType]  BY DEF InodeType, Units, MaxLength
<1>2. handle \in [Procs -> HandleType(made)]  BY DEF HandleType, Units, MaxLength
<1>3. /\ made \in 0 .. MaxInodes /\ dir \in 0 .. made /\ handles \in 0 .. MaxHandles
      /\ stores \in 0 .. MaxFiles /\ faults \in 0 .. MaxFaults
  OBVIOUS
<1>8. reported \subseteq 1 .. MaxFiles  OBVIOUS
<1>4. LengthInv  BY DEF LengthInv
<1>5. AllSound  BY DEF AllSound, Sound, Holds
<1>6. Undisturbed  BY DEF Undisturbed, Peace
<1>7. Whole /\ ReportedIsStored  BY DEF Whole, ReportedIsStored
<1> QED  BY ONLY <1>0, <1>1, <1>2, <1>3, <1>8, <1>4, <1>5, <1>6, <1>7 DEF LifeInv, Typed

LEMMA InodeFacts ==
  ASSUME LifeInv, NEW i \in Inodes
  PROVE  /\ inodes[i] \in InodeType /\ inodes[i].length \in Nat /\ inodes[i].length <= MaxLength
         /\ inodes[i].written \in Nat /\ inodes[i].written <= Units
         /\ inodes[i].used \in Nat /\ inodes[i].used <= MaxFiles
         /\ inodes[i].at \in [Places -> 0 .. MaxFiles]
         /\ inodes[i].length = inodes[i].written \/ inodes[i].length >= first_map_size_
         /\ inodes[i].length > 0 => inodes[i].written > 0
         /\ \A n \in Places : inodes[i].at[n] # NoFile => Units + n <= inodes[i].length
BY LifeAssumption DEF LifeInv, Typed, InodeType, LengthInv, Units, MaxLength

LEMMA HandleFacts ==
  ASSUME LifeInv, NEW p \in Procs
  PROVE  /\ handle[p] \in HandleType(made) /\ Sound(handle[p])
         /\ ~clash => Peace(p, handle[p])
         /\ made \in 0 .. MaxInodes /\ dir \in 0 .. made /\ MaxInodes \in Nat
         /\ handle[p].inode # NoFile => handle[p].inode \in Inodes
BY LifeAssumption DEF LifeInv, Typed, AllSound, Undisturbed, HandleType, Inodes, NoFile

(* What ensure_file_size and the mapping aim at. *)
LEMMA TargetFacts ==
  ASSUME NEW m \in Nat, NEW h \in HandleType(m),
         h.op \in {"store", "read"} => h.map_size_ >= first_map_size_
  PROVE  MapTarget(h) \in Nat /\ MapTarget(h) >= first_map_size_ /\ MapTarget(h) <= max_map_size_
<1>1. h.map_size_ \in Nat /\ h.map_size_ <= max_map_size_ /\ h.size \in Nat
  BY LifeAssumption DEF HandleType, MaxLength
<1> QED  BY <1>1, LifeAssumption DEF MapTarget, Smaller

-----------------------------------------------------------------------------
(* A step changes the handle of one process. *)
LEMMA OneHandle ==
  ASSUME LifeInv, NEW p \in Procs, NEW h \in HandleType(made'), Becomes(p, h),
         made' \in Nat, made <= made'
  PROVE  /\ handle' \in [Procs -> HandleType(made')]
         /\ handle'[p] = h
         /\ \A q \in Procs : q # p => handle'[q] = handle[q]
<1>1. HandleType(made) \subseteq HandleType(made')  BY DEF LifeInv, Typed, HandleType
<1> QED  BY <1>1 DEF LifeInv, Typed, Becomes

(* A file is written on, and once it has been mapped stays as long as a    *)
(* mapping is at first: what a handle knows of it stays true.              *)
Grows ==
  \A i \in Inodes :
    /\ inodes[i].written <= inodes'[i].written
    /\ inodes[i].length <= inodes'[i].length \/ first_map_size_ <= inodes'[i].length

LEMMA SoundStays ==
  ASSUME LifeInv, Grows, inodes' \in [Inodes -> InodeType], NEW h \in HandleType(made), Sound(h)
  PROVE  Sound(h)'
<1>1. h.inode \in 0 .. made /\ made \in 0 .. MaxInodes /\ h.size \in Nat
  BY LifeAssumption DEF LifeInv, Typed, HandleType, MaxLength
<1>2. CASE h.inode = NoFile
  BY <1>2 DEF Sound, Holds, NoFile
<1>3. CASE h.inode # NoFile
  <2>1. h.inode \in Inodes  BY <1>1, <1>3, LifeAssumption DEF Inodes, NoFile
  <2> DEFINE i == h.inode
  <2>2. /\ inodes[i].length \in Nat /\ inodes[i].written \in 0 .. Units
        /\ inodes'[i].length \in Nat /\ inodes'[i].written \in 0 .. Units
        /\ inodes[i].length <= inodes'[i].length \/ first_map_size_ <= inodes'[i].length
        /\ inodes[i].written <= inodes'[i].written
    BY <2>1, LifeAssumption DEF LifeInv, Typed, InodeType, Grows, MaxLength
  <2> QED  BY <1>1, <1>3, <2>2, LifeAssumption DEF Sound, Holds, Units, HeaderUnits
<1> QED  BY <1>2, <1>3

(* A system call that changes no file: it keeps the invariant if the       *)
(* handle it leaves is sound, at peace, and takes nobody's peace.          *)
LEMMA HandleStep ==
  ASSUME LifeInv, NEW p \in Procs, NEW h \in HandleType(made), Becomes(p, h), Sound(h),
         UNCHANGED <<disk, stores, reported>>, aborted' = (aborted \/ handle[p].pc = "write"),
         handles' \in 0 .. MaxHandles, faults' \in 0 .. MaxFaults,
         clash' \in BOOLEAN, clash => clash',
         ~clash' => Peace(p, h),
         ~clash' /\ Holds(h) =>
           \A q \in Procs \ {p} : handle[q].inode = h.inode => handle[q].pc # "write",
         ~aborted /\ ~clash' /\ h.inode = dir /\ dir # NoFile /\ Sees(h) => inodes[dir].written = Units
  PROVE  LifeInv'
<1>1. /\ handle' \in [Procs -> HandleType(made')] /\ handle'[p] = h
      /\ \A q \in Procs : q # p => handle'[q] = handle[q]
  BY OneHandle, LifeAssumption DEF disk, LifeInv, Typed
<1>2. UNCHANGED <<dir, made, inodes, stores, reported>>  BY DEF disk
<1>0. aborted' \in BOOLEAN /\ (~aborted' => ~aborted /\ handle[p].pc # "write")
  BY DEF LifeInv, Typed
<1>3. Typed'  BY <1>0, <1>1, <1>2 DEF LifeInv, Typed
<1>4. LengthInv'  BY <1>2 DEF LifeInv, LengthInv
<1>6. AllSound'
  <2> SUFFICES ASSUME NEW q \in Procs PROVE Sound(handle[q])'  BY DEF AllSound
  <2>1. CASE q = p
    <3>1. Sound(h)'  BY <1>2 DEF Sound, Holds
    <3> QED  BY <2>1, <1>1, <3>1 DEF Sound, Holds
  <2>2. CASE q # p  BY <2>2, <1>1, <1>2 DEF LifeInv, AllSound, Sound, Holds
  <2> QED  BY <2>1, <2>2
<1>7. Undisturbed'
  <2> SUFFICES ASSUME ~clash', NEW q \in Procs PROVE Peace(q, handle[q])'
    BY <1>2 DEF LifeInv, Undisturbed
  <2>1. ~clash  OBVIOUS
  <2>2. CASE q = p
    BY <2>2, <1>1, <1>2 DEF Peace, Holds, MapTarget
  <2>3. CASE q # p
    <3>1. Peace(q, handle[q]) /\ handle'[q] = handle[q]  BY <2>1, <2>3, <1>1 DEF LifeInv, Undisturbed
    <3>2. h.inode = handle[q].inode =>
            /\ handle[q].pc = "write" => ~Holds(h)
            /\ handle[q].pc = "truncate" => h.pc # "truncate"
            /\ handle[q].op = "store" => h.op # "store"
      BY <2>3 DEF Peace
    <3>3. \A r \in Procs \ {q} : handle'[r].inode = handle[q].inode =>
            /\ handle[q].pc = "write" => ~Holds(handle'[r])
            /\ handle[q].pc = "truncate" => handle'[r].pc # "truncate"
            /\ handle[q].op = "store" => handle'[r].op # "store"
      BY <3>1, <3>2, <1>1 DEF Peace
    <3> QED  BY <3>1, <3>3, <1>2 DEF Peace, Holds, MapTarget
  <2> QED  BY <2>2, <2>3
<1>8. Whole'
  <2>1. ~aborted' /\ dir # NoFile /\ inodes[dir].length > 0 =>
          \/ inodes[dir].written = Units
          \/ \E q \in Procs : handle'[q].pc = "write" /\ handle'[q].inode = dir
    BY <1>0, <1>1 DEF LifeInv, Whole
  <2>2. ASSUME ~aborted', ~clash', NEW q \in Procs, handle'[q].inode = dir, dir # NoFile, Sees(handle'[q])
        PROVE  inodes[dir].written = Units
    BY <2>2, <1>0, <1>1 DEF LifeInv, Whole
  <2> QED  BY <1>2, <2>1, <2>2 DEF LifeInv, Whole, Sees
<1>9. ReportedIsStored'  BY <1>0, <1>2 DEF LifeInv, ReportedIsStored, Files
<1> QED  BY <1>3, <1>4, <1>6, <1>7, <1>8, <1>9 DEF LifeInv

(* One that also starts nothing that another process could come in the     *)
(* way of. *)
LEMMA CalmStep ==
  ASSUME LifeInv, NEW p \in Procs, NEW h \in HandleType(made), Becomes(p, h), Sound(h),
         UNCHANGED <<disk, stores, reported, clash>>, aborted' = (aborted \/ handle[p].pc = "write"),
         handles' \in 0 .. MaxHandles, faults' \in 0 .. MaxFaults,
         h.pc \notin {"write", "truncate", "map"},
         Holds(h) => Holds(handle[p]) /\ h.inode = handle[p].inode,
         Sees(h) => Sees(handle[p]),
         h.map_file_ = "alive" => handle[p].map_file_ = "alive" /\ h.map_size_ = handle[p].map_size_,
         h.op = "store" => handle[p].op = "store" /\ h.place = handle[p].place
  PROVE  LifeInv'
<1>1. Sound(handle[p]) /\ (~clash => Peace(p, handle[p])) /\ clash \in BOOLEAN
  BY HandleFacts DEF LifeInv, Typed
<1>2. (Sees(h) => Holds(h)) /\ (h.op = "store" => Holds(h))
  BY DEF Sees, Holds, Sound
<1>3. ~clash => Peace(p, h)
  BY <1>1, <1>2 DEF Peace, Holds
<1>4. ~clash /\ Holds(h) =>
        \A q \in Procs \ {p} : handle[q].inode = h.inode => handle[q].pc # "write"
  BY DEF LifeInv, Undisturbed, Peace
<1>5. ~aborted /\ ~clash /\ h.inode = dir /\ dir # NoFile /\ Sees(h) => inodes[dir].written = Units
  BY <1>2 DEF LifeInv, Whole
<1>6. UNCHANGED <<disk, stores, reported>> /\ clash' = clash  OBVIOUS
<1> QED  BY <1>1, <1>3, <1>4, <1>5, <1>6, HandleStep

-----------------------------------------------------------------------------
(* A system call that changes the file of its handle, and no other. *)
LEMMA FileStep ==
  ASSUME LifeInv, NEW p \in Procs, NEW h \in HandleType(made), Becomes(p, h),
         Holds(handle[p]), h.inode = handle[p].inode,
         NEW file \in InodeType, inodes' = [inodes EXCEPT ![handle[p].inode] = file],
         UNCHANGED <<dir, made, handles, aborted, faults>>,
         stores' \in 0 .. MaxFiles, reported' \subseteq 1 .. MaxFiles,
         clash' \in BOOLEAN, clash => clash',
         (* the file *)
         file.length = file.written \/ file.length >= first_map_size_,
         file.length > 0 => file.written > 0,
         \A n \in Places : file.at[n] # NoFile => Units + n <= file.length,
         inodes[h.inode].written <= file.written,
         inodes[h.inode].length <= file.length \/ first_map_size_ <= file.length,
         file.written = Units \/ h.pc = "write" \/ (inodes[h.inode].length > 0 /\ handle[p].pc # "write"),
         (* its handle *)
         Sound(h)', Sees(h) => Sees(handle[p]), h.pc = "write" => handle[p].pc = "write",
         ~clash' => Peace(p, h)',
         (* the other handles *)
         ~clash' =>
           /\ inodes[h.inode].length <= file.length
           /\ Lengthening(p, h.inode) => file.length = inodes[h.inode].length
           /\ Storing(p, h.inode) => file.used = inodes[h.inode].used
           /\ \A n \in Places : n > file.used => file.at[n] = NoFile
           /\ \A n \in Places : inodes[h.inode].at[n] # NoFile => file.at[n] = inodes[h.inode].at[n],
         (* what is reported *)
         reported' # reported => h.inode = dir,
         ~aborted /\ ~clash' => \A f \in reported' : f \in reported \/ \E n \in Places : f = file.at[n]
  PROVE  LifeInv'
<1> DEFINE i == handle[p].inode
<1>1. /\ handle[p] \in HandleType(made) /\ Sound(handle[p]) /\ (~clash => Peace(p, handle[p]))
      /\ made \in 0 .. MaxInodes /\ dir \in 0 .. made /\ MaxInodes \in Nat
      /\ i \in Inodes /\ i \in 1 .. made
  <2>1. i # NoFile  BY HandleFacts DEF Sound
  <2>2. i \in 0 .. made /\ made \in Nat  BY HandleFacts DEF HandleType
  <2> QED  BY <2>1, <2>2, HandleFacts DEF NoFile
<1>2. /\ handle' \in [Procs -> HandleType(made')] /\ handle'[p] = h
      /\ \A q \in Procs : q # p => handle'[q] = handle[q]
  BY OneHandle, <1>1
<1>3. /\ inodes' \in [Inodes -> InodeType] /\ inodes'[i] = file
      /\ \A j \in Inodes : j # i => inodes'[j] = inodes[j]
  BY <1>1 DEF LifeInv, Typed
<1>4. Typed'  BY <1>2, <1>3 DEF LifeInv, Typed
<1>5. LengthInv'
  <2> SUFFICES ASSUME NEW j \in Inodes
               PROVE  /\ inodes'[j].length = inodes'[j].written \/ inodes'[j].length >= first_map_size_
                      /\ inodes'[j].length > 0 => inodes'[j].written > 0
                      /\ j > made => inodes'[j].length = 0
                      /\ \A n \in Places : inodes'[j].at[n] # NoFile => Units + n <= inodes'[j].length
    BY DEF LengthInv
  <2>1. CASE j = i  BY <2>1, <1>1, <1>3
  <2>2. CASE j # i  BY <2>2, <1>3 DEF LifeInv, LengthInv
  <2> QED  BY <2>1, <2>2
<1>6. Grows
  <2>1. \A j \in Inodes : inodes[j].length \in Int /\ inodes[j].written \in Int
    BY LifeAssumption DEF LifeInv, Typed, InodeType, MaxLength
  <2> QED  BY <1>3, <2>1 DEF Grows
<1>7. AllSound'
  <2> SUFFICES ASSUME NEW q \in Procs PROVE Sound(handle[q])'  BY DEF AllSound
  <2>1. CASE q = p  BY <2>1, <1>2 DEF Sound, Holds
  <2>2. CASE q # p
    <3>1. PICK k \in HandleType(made) : k = handle[q] /\ Sound(k)  BY HandleFacts
    <3>2. Sound(k)'  BY <3>1, <1>3, <1>6, SoundStays
    <3> QED  BY <2>2, <3>1, <3>2, <1>2 DEF Sound, Holds
  <2> QED  BY <2>1, <2>2
<1>8. Undisturbed'
  <2> SUFFICES ASSUME ~clash'
               PROVE  /\ \A q \in Procs : Peace(q, handle[q])'
                      /\ \A j \in Inodes : \A n \in Places :
                            n > inodes'[j].used => inodes'[j].at[n] = NoFile
    BY DEF Undisturbed
  <2>1. \A j \in Inodes : \A n \in Places : n > inodes'[j].used => inodes'[j].at[n] = NoFile
    BY <1>3 DEF LifeInv, Undisturbed
  <2>2. ASSUME NEW q \in Procs, q # p PROVE Peace(q, handle[q])'
    <3>1. Peace(q, handle[q]) /\ handle'[q] = handle[q]  BY <1>2, <2>2 DEF LifeInv, Undisturbed
    <3>2. handle[q] \in HandleType(made) /\ Sound(handle[q])  BY HandleFacts
    <3>3. CASE handle[q].inode # i
      <4>1. \A r \in Procs \ {q} : handle'[r].inode = handle[q].inode =>
              r # p /\ handle'[r] = handle[r]
        BY <1>2, <3>3
      <4>2. handle[q].inode # NoFile => inodes'[handle[q].inode] = inodes[handle[q].inode]
        BY <1>3, <3>3, HandleFacts
      <4>3. handle[q].pc \in {"write", "truncate", "map"} \/ handle[q].op = "store" \/ handle[q].map_file_ = "alive"
              => handle[q].inode # NoFile
        BY <3>2 DEF Sound, Holds
      <4> QED  BY <3>1, <4>1, <4>2, <4>3 DEF Peace, Holds, MapTarget
    <3>4. CASE handle[q].inode = i
      <4>1. handle[q].pc # "write"  BY <2>2, <3>1, <3>4 DEF Peace
      <4>2. handle[q].pc = "truncate" => Lengthening(p, i)  BY <2>2, <3>4 DEF Lengthening
      <4>3. handle[q].op = "store" => Storing(p, i)  BY <2>2, <3>4 DEF Storing
      <4>4. inodes[i].length \in Int /\ file.length \in Int /\ MapTarget(handle[q]) \in Int
            /\ handle[q].map_size_ \in Int
        BY <1>1, <3>2, InodeFacts, TargetFacts, LifeAssumption DEF InodeType, MaxLength, HandleType, Sound
      <4>5. \A r \in Procs \ {q} : handle'[r].inode = i =>
              /\ handle[q].pc = "truncate" => handle'[r].pc # "truncate"
              /\ handle[q].op = "store" => handle'[r].op # "store"
        <5>1. \A r \in Procs \ {q} : r # p => handle'[r] = handle[r]  BY <1>2
        <5>2. /\ handle[q].pc = "truncate" => h.pc # "truncate"
              /\ handle[q].op = "store" => h.op # "store"
          BY <1>2, <2>2, <3>1, <3>4 DEF Peace
        <5> QED  BY <5>1, <5>2, <1>2, <3>1, <3>4 DEF Peace
      <4> QED  BY <1>3, <3>1, <3>4, <4>1, <4>2, <4>3, <4>4, <4>5 DEF Peace, Holds, MapTarget
    <3> QED  BY <3>3, <3>4
  <2>3. Peace(p, handle[p])'  BY <1>2 DEF Peace, Holds, MapTarget
  <2> QED  BY <2>1, <2>2, <2>3
<1>9. dir # NoFile => dir \in Inodes  BY <1>1, LifeAssumption DEF Inodes, NoFile
<1>10. Whole'
  <2>1. ASSUME ~aborted, dir # NoFile, inodes'[dir].length > 0
        PROVE  inodes'[dir].written = Units \/ \E q \in Procs : handle'[q].pc = "write" /\ handle'[q].inode = dir
    <3>1. CASE dir # i
      BY <3>1, <2>1, <1>2, <1>3, <1>9 DEF LifeInv, Whole
    <3>2. CASE dir = i
      <4>1. CASE file.written = Units \/ h.pc = "write"  BY <4>1, <3>2, <1>2, <1>3
      <4>2. CASE inodes[i].length > 0 /\ handle[p].pc # "write"
        <5>1. CASE inodes[i].written = Units
          <6>1. file.written \in 0 .. Units  BY DEF InodeType
          <6> QED  BY <5>1, <6>1, <3>2, <1>3 DEF Units
        <5>2. CASE \E q \in Procs : handle[q].pc = "write" /\ handle[q].inode = dir
          BY <5>2, <4>2, <1>2
        <5> QED  BY <4>2, <5>1, <5>2, <3>2, <2>1 DEF LifeInv, Whole
      <4> QED  BY <4>1, <4>2
    <3> QED  BY <3>1, <3>2
  <2>2. ASSUME ~aborted, ~clash', NEW q \in Procs, handle'[q].inode = dir, dir # NoFile, Sees(handle'[q])
        PROVE  inodes'[dir].written = Units
    <3>1. handle[q].inode = dir /\ Sees(handle[q])  BY <2>2, <1>2
    <3>2. inodes[dir].written = Units  BY <3>1, <2>2 DEF LifeInv, Whole
    <3>3. inodes'[dir].written \in 0 .. Units  BY <1>3, <1>9, <2>2 DEF InodeType
    <3> QED  BY <3>2, <3>3, <1>6, <1>9, <2>2 DEF Grows, Units
  <2>3. reported' # {} => dir # NoFile  BY <1>1 DEF LifeInv, Whole, NoFile
  <2> QED  BY <2>1, <2>2, <2>3 DEF Whole, Sees
<1>11. ReportedIsStored'
  <2> SUFFICES ASSUME ~aborted, ~clash', NEW f \in reported'
               PROVE  dir # NoFile /\ \E n \in Places : f = inodes'[dir].at[n] /\ f # NoFile
    BY DEF ReportedIsStored, Files
  <2>1. f # NoFile  BY LifeAssumption DEF NoFile
  <2>2. CASE f \in reported
    <3>1. dir # NoFile /\ \E n \in Places : f = inodes[dir].at[n]
      BY <2>2 DEF LifeInv, ReportedIsStored, Files
    <3> QED  BY <3>1, <2>1, <1>3, <1>9
  <2>3. CASE f \notin reported
    <3>1. i = dir /\ \E n \in Places : f = file.at[n]  BY <2>3
    <3> QED  BY <3>1, <2>1, <1>1, <1>3 DEF NoFile
  <2> QED  BY <2>2, <2>3
<1> QED  BY <1>4, <1>5, <1>7, <1>8, <1>10, <1>11 DEF LifeInv

-----------------------------------------------------------------------------
(* The system calls that leave everything calm. *)
LEMMA NewHandleKeeps ==
  ASSUME LifeInv, NEW p \in Procs, NewHandle(p)
  PROVE  LifeInv'
<1> DEFINE h == [NoHandle EXCEPT !.pc = "idle"]
<1>1. h \in HandleType(made)
  <2>1. 0 \in 0 .. max_map_size_ /\ 0 \in 0 .. made /\ 0 \in 0 .. MaxLength
        /\ 0 \in 0 .. Units /\ 0 \in 0 .. MaxFiles
    BY HandleFacts, LifeAssumption DEF Units, MaxLength
  <2> QED  BY <2>1 DEF NoHandle, HandleType, NoFile
<1>2. Sound(h) /\ ~Holds(h) /\ ~Sees(h) /\ h.map_file_ = "null" /\ h.pc = "idle" /\ h.op = "none"
  BY DEF NoHandle, Sound, Holds, Sees, NoFile
<1>3. Becomes(p, h) /\ UNCHANGED <<disk, past, faults>> /\ handles' \in 0 .. MaxHandles
      /\ handle[p].pc = "none"
  BY LifeAssumption DEF NewHandle, LifeInv, Typed
<1>4. UNCHANGED <<disk, stores, reported, clash, aborted, faults>>  BY <1>3 DEF past
<1>5. aborted' = (aborted \/ handle[p].pc = "write") /\ faults' \in 0 .. MaxFaults
  BY <1>3, <1>4 DEF LifeInv, Typed
<1> HIDE DEF h
<1> QED  BY <1>1, <1>2, <1>3, <1>4, <1>5, CalmStep

(* A call that returns: the handle is idle. *)
LEMMA ReturnKeeps ==
  ASSUME LifeInv, NEW p \in Procs, NEW g \in HandleType(made), NEW v, Returns(p, g, v),
         v \in {"none", "TFS_SUCCESS", "TFS_ERROR", "EXIT_INDEX_ALREADY_LOADED_ERROR",
                "EXIT_META_UNEXPECT_FOUND_ERROR", "EXIT_INDEX_CORRUPT_ERROR",
                "EXIT_BUCKET_CONFIGURE_ERROR"},
         \A f \in {"map_file_", "map_size_"} : g[f] = handle[p][f],
         g.map_file_ = "alive" => g.inode = handle[p].inode,
         v = "EXIT_META_UNEXPECT_FOUND_ERROR" => g.inode # NoFile /\ inodes[g.inode].written > 0,
         g.is_load_ => g.map_file_ # "null",
         g.is_load_ /\ g.inode # NoFile /\ inodes[g.inode].written < HeaderUnits => g.size >= first_map_size_,
         UNCHANGED <<disk, stores, reported, clash>>, aborted' = (aborted \/ handle[p].pc = "write"),
         handles' \in 0 .. MaxHandles, faults' \in 0 .. MaxFaults
  PROVE  LifeInv'
<1> DEFINE h == [g EXCEPT !.pc = "idle", !.op = "none", !.place = 0, !.verdict = v]
<1>1. Becomes(p, h)  BY DEF Returns
<1>2. /\ h.pc = "idle" /\ h.op = "none" /\ h.place = 0 /\ h.verdict = v
      /\ \A f \in {"is_load_", "map_file_", "map_size_", "inode", "size", "done"} : h[f] = g[f]
  BY DEF HandleType
<1>3. h \in HandleType(made)
  <2>1. 0 \in 0 .. MaxFiles  BY LifeAssumption
  <2> QED  BY <2>1 DEF HandleType
<1> HIDE DEF h
<1>4. Sound(handle[p])  BY HandleFacts
<1>5. Sound(h)  BY <1>2, <1>4 DEF Sound, Holds
<1>6. /\ Holds(h) => Holds(handle[p]) /\ h.inode = handle[p].inode
      /\ Sees(h) => Sees(handle[p])
      /\ h.map_file_ = "alive" => handle[p].map_file_ = "alive" /\ h.map_size_ = handle[p].map_size_
  BY <1>2 DEF Holds, Sees
<1>7. h.pc \notin {"write", "truncate", "map"} /\ h.op # "store"  BY <1>2
<1> QED  BY <1>1, <1>3, <1>5, <1>6, <1>7, CalmStep

LEMMA BeginsKeeps ==
  ASSUME LifeInv, NEW p \in Procs, NEW op \in {"create", "load"}, Begins(p, op)
  PROVE  LifeInv'
<1>1. /\ Usable(p) /\ UNCHANGED <<disk, handles, past, faults>>
      /\ handle[p] \in HandleType(made) /\ Sound(handle[p])
  BY HandleFacts DEF Begins
<1>2. UNCHANGED <<disk, stores, reported, clash, aborted>>  BY <1>1 DEF past
<1>3. aborted' = (aborted \/ handle[p].pc = "write") /\ handles' \in 0 .. MaxHandles /\ faults' \in 0 .. MaxFaults
  BY <1>1, <1>2 DEF Usable, LifeInv, Typed
<1>4. CASE handle[p].is_load_
  <2>1. Returns(p, handle[p], "EXIT_INDEX_ALREADY_LOADED_ERROR")  BY <1>4 DEF Begins
  <2> QED  BY <2>1, <1>1, <1>2, <1>3, ReturnKeeps DEF Sound
<1>5. CASE ~handle[p].is_load_
  <2> DEFINE pc == IF handle[p].inode = NoFile THEN "open" ELSE "size"
             h == [handle[p] EXCEPT !.pc = pc, !.op = op, !.done = 0, !.verdict = "none"]
  <2>1. Becomes(p, h)  BY <1>5 DEF Begins
  <2>5. pc \in {"open", "size"} /\ 0 \in 0 .. Units /\ (pc = "open" <=> handle[p].inode = NoFile)
    BY DEF Units
  <2> HIDE DEF pc
  <2>2. h \in HandleType(made)  BY <1>1, <2>5 DEF HandleType
  <2>3. /\ h.pc = pc
        /\ h.op = op /\ h.done = 0 /\ h.verdict = "none"
        /\ \A f \in {"is_load_", "map_file_", "map_size_", "inode", "size", "place"} : h[f] = handle[p][f]
    BY <1>1 DEF HandleType
  <2> HIDE DEF h
  <2>4. Sound(h) /\ (Holds(h) => Holds(handle[p])) /\ (Sees(h) => Sees(handle[p]))
    BY <1>1, <1>5, <2>3, <2>5 DEF Sound, Holds, Sees, Usable
  <2> QED  BY <2>1, <2>2, <2>3, <2>4, <2>5, <1>2, <1>3, CalmStep
<1> QED  BY <1>4, <1>5

LEMMA SyncKeeps ==
  ASSUME LifeInv, NEW p \in Procs, Sync(p)
  PROVE  LifeInv'
<1> DEFINE h == [handle[p] EXCEPT !.pc = "stat"]
<1>1. /\ handle[p].pc = "sync" /\ UNCHANGED <<disk, handles, past, faults>> /\ Becomes(p, h)
      /\ handle[p] \in HandleType(made) /\ Sound(handle[p])
  BY HandleFacts DEF Sync
<1>2. UNCHANGED <<disk, stores, reported, clash, aborted>>  BY <1>1 DEF past
<1>3. aborted' = (aborted \/ handle[p].pc = "write") /\ handles' \in 0 .. MaxHandles /\ faults' \in 0 .. MaxFaults
  BY <1>1, <1>2 DEF LifeInv, Typed
<1>4. h \in HandleType(made)  BY <1>1 DEF HandleType
<1>5. /\ h.pc = "stat"
      /\ \A f \in {"op", "is_load_", "map_file_", "map_size_", "inode", "size", "done", "place", "verdict"} :
            h[f] = handle[p][f]
  BY <1>1 DEF HandleType
<1> HIDE DEF h
<1>6. Sound(h) /\ Holds(handle[p]) /\ (Sees(h) => Sees(handle[p]))
  BY <1>1, <1>5 DEF Sound, Holds, Sees
<1> QED  BY <1>1, <1>2, <1>3, <1>4, <1>5, <1>6, CalmStep

(* A header that load accepts is whole, or was made as long by a load. *)
LEMMA CheckIndexKeeps ==
  ASSUME LifeInv, NEW p \in Procs, CheckIndex(p)
  PROVE  LifeInv'
<1> DEFINE v == Verdict(handle[p].inode, handle[p].size)
           g == [handle[p] EXCEPT !.is_load_ = (v = "TFS_SUCCESS")]
<1>1. /\ handle[p].pc = "check" /\ UNCHANGED <<disk, handles, past, faults>> /\ Returns(p, g, v)
      /\ handle[p] \in HandleType(made) /\ Sound(handle[p])
  BY HandleFacts DEF CheckIndex
<1>2. UNCHANGED <<disk, stores, reported, clash, aborted>>  BY <1>1 DEF past
<1>3. aborted' = (aborted \/ handle[p].pc = "write") /\ handles' \in 0 .. MaxHandles /\ faults' \in 0 .. MaxFaults
  BY <1>1, <1>2 DEF LifeInv, Typed
<1>4. v \in {"TFS_SUCCESS", "EXIT_INDEX_CORRUPT_ERROR", "EXIT_BUCKET_CONFIGURE_ERROR"}
  BY DEF Verdict
<1>5. handle[p].inode \in Inodes /\ handle[p].op = "load"  BY <1>1, HandleFacts DEF Sound, Holds
<1>6. v = "TFS_SUCCESS" /\ inodes[handle[p].inode].written < HeaderUnits => handle[p].size >= first_map_size_
  <2>1. inodes[handle[p].inode].written \in Nat /\ handle[p].size \in Nat
    BY <1>1, <1>5, InodeFacts, LifeAssumption DEF HandleType, MaxLength
  <2>2. handle[p].size <= inodes[handle[p].inode].written \/ handle[p].size >= first_map_size_
    BY <1>1, <1>5 DEF Sound
  <2>3. v = "TFS_SUCCESS" => handle[p].size >= HeaderUnits
    BY <2>1 DEF Verdict, Units, HeaderUnits, BlockIdUnit, BucketSizeUnit
  <2> QED  BY <2>1, <2>2, <2>3, LifeAssumption DEF HeaderUnits
<1> HIDE DEF v
<1>7. /\ g \in HandleType(made) /\ g.is_load_ = (v = "TFS_SUCCESS")
      /\ \A f \in {"map_file_", "map_size_", "inode", "size"} : g[f] = handle[p][f]
  BY <1>1 DEF HandleType
<1> HIDE DEF g
<1>8. g.map_file_ = "alive"  BY <1>1, <1>7 DEF Sound
<1> QED  BY <1>1, <1>2, <1>3, <1>4, <1>6, <1>7, <1>8, ReturnKeeps

LEMMA ReadFileKeeps ==
  ASSUME LifeInv, NEW p \in Procs, ReadFile(p)
  PROVE  LifeInv'
<1> DEFINE h == [handle[p] EXCEPT !.pc = "stat", !.op = "read", !.verdict = "none"]
<1>1. /\ Loaded(p) /\ UNCHANGED <<disk, handles, past, faults>> /\ Becomes(p, h)
      /\ handle[p] \in HandleType(made) /\ Sound(handle[p])
  BY HandleFacts DEF ReadFile
<1>2. UNCHANGED <<disk, stores, reported, clash, aborted>>  BY <1>1 DEF past
<1>3. aborted' = (aborted \/ handle[p].pc = "write") /\ handles' \in 0 .. MaxHandles /\ faults' \in 0 .. MaxFaults
  BY <1>1, <1>2 DEF LifeInv, Typed, Loaded, Usable
<1>4. h \in HandleType(made)  BY <1>1 DEF HandleType
<1>5. /\ h.pc = "stat" /\ h.op = "read" /\ h.verdict = "none"
      /\ \A f \in {"is_load_", "map_file_", "map_size_", "inode", "size", "done", "place"} :
            h[f] = handle[p][f]
  BY <1>1 DEF HandleType
<1> HIDE DEF h
<1>6. handle[p].map_file_ = "alive"  BY <1>1 DEF Loaded, Usable, HandleType, Sound
<1>7. Sound(h) /\ Holds(handle[p]) /\ Sees(handle[p])
  BY <1>1, <1>5, <1>6 DEF Sound, Holds, Sees, Loaded
<1> QED  BY <1>1, <1>2, <1>3, <1>4, <1>5, <1>6, <1>7, CalmStep

LEMMA StoreRefusedKeeps ==
  ASSUME LifeInv, NEW p \in Procs, StoreRefused(p) \/ StoreFails(p)
  PROVE  LifeInv'
<1>1. /\ handle[p].op = "store" \/ handle[p].pc = "pwrite"
      /\ UNCHANGED <<disk, handles, past>> /\ faults' \in 0 .. MaxFaults
      /\ handle[p] \in HandleType(made) /\ Sound(handle[p])
  BY HandleFacts, LifeAssumption DEF StoreRefused, StoreFails, Fails, LifeInv, Typed
<1>2. UNCHANGED <<disk, stores, reported, clash, aborted>>  BY <1>1 DEF past
<1>3. aborted' = (aborted \/ handle[p].pc = "write") /\ handles' \in 0 .. MaxHandles
  BY <1>1, <1>2 DEF LifeInv, Typed, Sound
<1>4. CASE StoreRefused(p)
  <2>1. Returns(p, handle[p], "none")  BY <1>4 DEF StoreRefused
  <2> QED  BY <2>1, <1>1, <1>2, <1>3, ReturnKeeps DEF Sound
<1>5. CASE StoreFails(p)
  <2>1. Returns(p, handle[p], "TFS_ERROR")  BY <1>5 DEF StoreFails
  <2> QED  BY <2>1, <1>1, <1>2, <1>3, ReturnKeeps DEF Sound
<1> QED  BY <1>4, <1>5

LEMMA CallFailsKeeps ==
  ASSUME LifeInv, NEW p \in Procs, CallFails(p)
  PROVE  LifeInv'
<1>1. /\ UNCHANGED <<disk, handles, stores, reported, clash>> /\ faults' \in 0 .. MaxFaults
      /\ aborted' = (aborted \/ handle[p].pc = "write") /\ handles' \in 0 .. MaxHandles
      /\ Returns(p, handle[p], FailureOf(handle[p])) /\ handle[p].op \in {"create", "load"}
      /\ handle[p] \in HandleType(made) /\ Sound(handle[p])
  BY HandleFacts, LifeAssumption DEF CallFails, Fails, LifeInv, Typed
<1>2. FailureOf(handle[p]) \in {"EXIT_INDEX_ALREADY_LOADED_ERROR", "TFS_ERROR"}  BY DEF FailureOf
<1>3. ~handle[p].is_load_  BY <1>1 DEF Sound
<1> QED  BY <1>1, <1>2, <1>3, ReturnKeeps

LEMMA RemapFailsKeeps ==
  ASSUME LifeInv, NEW p \in Procs, RemapFails(p)
  PROVE  LifeInv'
<1>1. /\ handle[p].pc \in {"stat", "truncate", "map"} /\ handle[p].op \in {"read", "store"}
      /\ UNCHANGED <<disk, handles, past>> /\ faults' \in 0 .. MaxFaults
      /\ handle[p] \in HandleType(made) /\ Sound(handle[p])
  BY HandleFacts, LifeAssumption DEF RemapFails, Fails, LifeInv, Typed
<1>2. UNCHANGED <<disk, stores, reported, clash, aborted>>  BY <1>1 DEF past
<1>3. aborted' = (aborted \/ handle[p].pc = "write") /\ handles' \in 0 .. MaxHandles
  BY <1>1, <1>2 DEF LifeInv, Typed
<1>4. CASE handle[p].op = "read"
  <2>1. Returns(p, handle[p], "none")  BY <1>4 DEF RemapFails
  <2> QED  BY <2>1, <1>1, <1>2, <1>3, ReturnKeeps DEF Sound
<1>5. CASE handle[p].op = "store"
  <2>1. PICK next \in AfterRemap(handle[p]) : Becomes(p, [handle[p] EXCEPT !.pc = next])
    BY <1>5 DEF RemapFails
  <2>2. next \in {"memcpy", "pwrite", "stat"}  BY DEF AfterRemap, Attempt
  <2> DEFINE h == [handle[p] EXCEPT !.pc = next]
  <2>3. h \in HandleType(made)  BY <1>1, <2>2 DEF HandleType
  <2>4. /\ h.pc = next
        /\ \A f \in {"op", "is_load_", "map_file_", "map_size_", "inode", "size", "done", "place", "verdict"} :
              h[f] = handle[p][f]
    BY <1>1 DEF HandleType
  <2>5. Becomes(p, h)  BY <2>1
  <2> HIDE DEF h
  <2>6. Sound(h) /\ Holds(handle[p]) /\ Sees(handle[p])
    BY <1>1, <1>5, <2>2, <2>4 DEF Sound, Holds, Sees
  <2> QED  BY <1>2, <1>3, <1>1, <2>2, <2>3, <2>4, <2>5, <2>6, CalmStep
<1> QED  BY <1>1, <1>4, <1>5

LEMMA UnlinkFailsKeeps ==
  ASSUME LifeInv, NEW p \in Procs, UnlinkFails(p)
  PROVE  LifeInv'
<1> DEFINE g == [handle[p] EXCEPT !.inode = NoFile]
<1>1. /\ handle[p].pc = "unlink" /\ Returns(p, g, "TFS_ERROR")
      /\ UNCHANGED <<disk, handles, past>> /\ faults' \in 0 .. MaxFaults
      /\ handle[p] \in HandleType(made) /\ Sound(handle[p]) /\ NoFile \in 0 .. made
  BY HandleFacts, LifeAssumption DEF UnlinkFails, Fails, LifeInv, Typed, NoFile
<1>2. UNCHANGED <<disk, stores, reported, clash, aborted>>  BY <1>1 DEF past
<1>3. aborted' = (aborted \/ handle[p].pc = "write") /\ handles' \in 0 .. MaxHandles
  BY <1>1, <1>2 DEF LifeInv, Typed
<1>4. /\ g \in HandleType(made) /\ g.inode = NoFile
      /\ \A f \in {"is_load_", "map_file_", "map_size_"} : g[f] = handle[p][f]
  BY <1>1 DEF HandleType
<1> HIDE DEF g
<1>5. g.map_file_ # "alive" /\ (g.is_load_ => g.map_file_ # "null")  BY <1>1, <1>4 DEF Sound
<1> QED  BY <1>1, <1>2, <1>3, <1>4, <1>5, ReturnKeeps

LEMMA RemoveKeeps ==
  ASSUME LifeInv, NEW p \in Procs, Remove(p)
  PROVE  LifeInv'
<1> DEFINE h == [handle[p] EXCEPT !.map_file_ = MunmapFile(p), !.map_size_ = 0,
                                  !.pc = "unlink", !.verdict = "none"]
<1>1. /\ Usable(p) /\ UNCHANGED <<disk, handles, past, faults>> /\ Becomes(p, h)
      /\ handle[p] \in HandleType(made) /\ Sound(handle[p])
  BY HandleFacts DEF Remove
<1>2. UNCHANGED <<disk, stores, reported, clash, aborted>>  BY <1>1 DEF past
<1>3. aborted' = (aborted \/ handle[p].pc = "write") /\ handles' \in 0 .. MaxHandles /\ faults' \in 0 .. MaxFaults
  BY <1>1, <1>2 DEF LifeInv, Typed, Usable
<1>4. /\ MunmapFile(p) \in {"null", "deleted"} /\ 0 \in 0 .. max_map_size_
      /\ handle[p].is_load_ => MunmapFile(p) # "null"
  BY <1>1, LifeAssumption DEF MunmapFile, HandleType, Sound
<1>5. h \in HandleType(made)  BY <1>1, <1>4 DEF HandleType
<1>6. /\ h.pc = "unlink" /\ h.verdict = "none" /\ h.map_file_ = MunmapFile(p)
      /\ \A f \in {"op", "is_load_", "inode", "size", "done", "place"} : h[f] = handle[p][f]
  BY <1>1 DEF HandleType
<1> HIDE DEF h
<1>7. handle[p].op = "none"  BY <1>1 DEF HandleType, Sound, Usable
<1>8. Sound(h) /\ ~Holds(h) /\ ~Sees(h) /\ h.map_file_ # "alive"
  BY <1>1, <1>4, <1>6, <1>7 DEF Sound, Holds, Sees
<1> QED  BY <1>1, <1>2, <1>3, <1>5, <1>6, <1>7, <1>8, CalmStep

(* ~IndexHandle, and the end of a process *)
LEMMA EndsKeeps ==
  ASSUME LifeInv, NEW p \in Procs, Delete(p) \/ Dies(p)
  PROVE  LifeInv'
<1>1. NoHandle \in HandleType(made)
  <2>1. 0 \in 0 .. max_map_size_ /\ 0 \in 0 .. made /\ 0 \in 0 .. MaxLength
        /\ 0 \in 0 .. Units /\ 0 \in 0 .. MaxFiles
    BY HandleFacts, LifeAssumption DEF Units, MaxLength
  <2> QED  BY <2>1 DEF NoHandle, HandleType, NoFile
<1>2. /\ Sound(NoHandle) /\ ~Holds(NoHandle) /\ ~Sees(NoHandle)
      /\ NoHandle.map_file_ = "null" /\ NoHandle.pc = "none" /\ NoHandle.op = "none"
  BY DEF NoHandle, Sound, Holds, Sees, NoFile
<1>3. /\ Becomes(p, NoHandle) /\ UNCHANGED <<disk, handles, stores, reported, clash, faults>>
      /\ aborted' = (aborted \/ handle[p].pc = "write")
  BY DEF Delete, Dies, past, Usable, LifeInv, Typed
<1>4. handles' \in 0 .. MaxHandles /\ faults' \in 0 .. MaxFaults
  BY <1>3 DEF LifeInv, Typed
<1> QED  BY <1>1, <1>2, <1>3, <1>4, CalmStep

-----------------------------------------------------------------------------
(* Whoever works on a file, or has mapped it, but is not writing its       *)
(* header, knows that something is in it. *)
LEMMA HeldIsBegun ==
  ASSUME LifeInv, NEW q \in Procs, Holds(handle[q]), handle[q].pc # "write"
  PROVE  handle[q].inode \in Inodes /\ inodes[handle[q].inode].length > 0
<1>1. handle[q] \in HandleType(made) /\ Sound(handle[q])  BY HandleFacts
<1>2. handle[q].inode \in Inodes  BY <1>1, HandleFacts DEF Sound
<1> DEFINE i == handle[q].inode
<1>3. /\ inodes[i].length \in Nat /\ inodes[i].written \in Nat
      /\ inodes[i].length = inodes[i].written \/ inodes[i].length >= first_map_size_
  BY <1>2, InodeFacts
<1>4. handle[q].map_file_ = "alive" => inodes[i].length > 0
  BY <1>1, <1>3, LifeAssumption DEF Sound, Units
<1>5. handle[q].op = "create" /\ handle[q].map_file_ # "alive" => inodes[i].length > 0
  BY <1>1, <1>3, LifeAssumption DEF Holds, Sound, Units
<1>6. handle[q].op = "load" /\ handle[q].map_file_ # "alive" => inodes[i].length > 0
  BY <1>1, <1>3 DEF Holds, Sound
<1>7. handle[q].op \in {"none", "store", "read"} => handle[q].map_file_ = "alive"
  BY <1>1 DEF Holds, Sound
<1> QED  BY <1>1, <1>2, <1>4, <1>5, <1>6, <1>7 DEF HandleType

(* The size tells whether somebody has begun to write the header, and an   *)
(* empty file is nobody else's. *)
LEMMA GetFileSizeKeeps ==
  ASSUME LifeInv, NEW p \in Procs, GetFileSize(p)
  PROVE  LifeInv'
<1> DEFINE i == handle[p].inode
           size == inodes[i].length
           g == [handle[p] EXCEPT !.size = size]
           next == IF g.op = "create" THEN AfterSizeOfCreate(g, g.size) ELSE AfterSizeOfLoad(g, g.size)
           goes == next \in {"write", "stat", "check"}
           h == IF goes THEN [g EXCEPT !.pc = next]
                ELSE [g EXCEPT !.pc = "idle", !.op = "none", !.place = 0, !.verdict = next]
<1>1. /\ handle[p].pc = "size" /\ UNCHANGED <<disk, handles, stores, reported, aborted, faults>>
      /\ handle[p] \in HandleType(made) /\ Sound(handle[p]) /\ (~clash => Peace(p, handle[p]))
      /\ clash' = (clash \/ Creating(p, i)) /\ Becomes(p, h)
  <2>1. g.inode = i  BY HandleFacts DEF HandleType
  <2> QED  BY <2>1, HandleFacts DEF GetFileSize, Returns
<1>2. i \in Inodes /\ ~handle[p].is_load_ /\ handle[p].verdict = "none" /\ handle[p].map_file_ # "deleted"
      /\ handle[p].op \in {"create", "load"} /\ handle[p].done = 0
  BY <1>1, HandleFacts DEF Sound, HandleType
<1>3. /\ size \in 0 .. MaxLength /\ size \in Nat
      /\ inodes[i].written \in Nat
      /\ size = inodes[i].written \/ size >= first_map_size_
      /\ size > 0 => inodes[i].written > 0
      /\ \A n \in Places : inodes[i].at[n] # NoFile => Units + n <= size
  BY <1>2, InodeFacts, LifeAssumption DEF MaxLength, Units
<1>4. /\ g \in HandleType(made) /\ g.size = size
      /\ \A f \in {"pc", "op", "is_load_", "map_file_", "map_size_", "inode", "done", "place", "verdict"} :
            g[f] = handle[p][f]
  BY <1>1, <1>3 DEF HandleType
<1>5. /\ handle[p].op = "create" =>
           \/ next = "write" /\ size = 0
           \/ next = "EXIT_META_UNEXPECT_FOUND_ERROR" /\ size # 0
      /\ handle[p].op = "load" =>
           \/ next = "EXIT_INDEX_CORRUPT_ERROR"
           \/ next = "check" /\ size # 0 /\ handle[p].map_file_ = "alive"
           \/ next = "stat" /\ size # 0
  BY <1>4 DEF AfterSizeOfCreate, AfterSizeOfLoad
<1> HIDE DEF size, g, next
<1>6. h \in HandleType(made)
  <2>1. 0 \in 0 .. MaxFiles  BY LifeAssumption
  <2>2. CASE goes
    <3>1. [g EXCEPT !.pc = next] \in HandleType(made)  BY <2>2, <1>4 DEF HandleType
    <3> QED  BY <2>2, <3>1
  <2>3. CASE ~goes
    <3>1. next \in {"EXIT_META_UNEXPECT_FOUND_ERROR", "EXIT_INDEX_CORRUPT_ERROR"}
      BY <2>3, <1>2, <1>5
    <3>2. [g EXCEPT !.pc = "idle", !.op = "none", !.place = 0, !.verdict = next] \in HandleType(made)
      BY <2>1, <3>1, <1>4 DEF HandleType
    <3> QED  BY <2>3, <3>2
  <2> QED  BY <2>2, <2>3
<1>7. /\ goes => h.pc = next /\ h.op = handle[p].op /\ h.place = handle[p].place /\ h.verdict = "none"
      /\ ~goes => h.pc = "idle" /\ h.op = "none" /\ h.place = 0 /\ h.verdict = next
      /\ h.size = size
      /\ \A f \in {"is_load_", "map_file_", "map_size_", "inode", "done"} : h[f] = handle[p][f]
  <2>1. \A f \in {"is_load_", "map_file_", "map_size_", "inode", "size", "done"} : h[f] = g[f]
    BY <1>4 DEF HandleType
  <2> QED  BY <2>1, <1>2, <1>4 DEF HandleType
<1> HIDE DEF h
<1>8. Sound(h)
  BY <1>1, <1>2, <1>3, <1>5, <1>7 DEF Sound, Holds, i, size, NoFile, Units
<1>9. ~clash' => \A q \in Procs \ {p} : handle[q].inode = h.inode => handle[q].pc # "write"
  BY <1>1, <1>7 DEF Creating
<1>10. ~clash' => Peace(p, h)
  <2> SUFFICES ASSUME ~clash' PROVE Peace(p, h)  OBVIOUS
  <2>1. ~clash  BY <1>1
  <2>2. ASSUME h.pc = "write"
        PROVE  /\ \A n \in Places : inodes[h.inode].at[n] = NoFile
               /\ \A q \in Procs \ {p} : handle[q].inode = h.inode => ~Holds(handle[q])
    <3>1. size = 0  BY <2>2, <1>2, <1>5, <1>7
    <3>2. \A n \in Places : inodes[i].at[n] = NoFile
      BY <3>1, <1>3, LifeAssumption DEF Places, Units
    <3>3. \A q \in Procs \ {p} : handle[q].inode = i => ~Holds(handle[q])
      BY <3>1, <1>7, <1>9, HeldIsBegun DEF size
    <3> QED  BY <3>2, <3>3, <1>7
  <2>3. h.pc \notin {"truncate", "map"} /\ h.op # "store"  BY <1>2, <1>5, <1>7
  <2>4. h.map_file_ = "alive" => inodes[h.inode].length >= h.map_size_
    BY <2>1, <1>1, <1>7 DEF Peace
  <2> QED  BY <2>2, <2>3, <2>4 DEF Peace
<1>11. ASSUME ~aborted, ~clash', h.inode = dir, dir # NoFile, Sees(h)
       PROVE  inodes[dir].written = Units
  <2>1. ~clash  BY <1>1, <1>11
  <2>2. CASE handle[p].map_file_ = "alive"
    BY <2>1, <2>2, <1>7, <1>11 DEF LifeInv, Whole, Sees
  <2>3. CASE handle[p].map_file_ # "alive"
    <3>1. h.op = "load" /\ h.pc \in {"stat", "check"}  BY <2>3, <1>2, <1>5, <1>7, <1>11 DEF Sees
    <3>2. size > 0  BY <3>1, <1>3, <1>5, <1>7
    <3>3. \A q \in Procs : ~(handle[q].pc = "write" /\ handle[q].inode = dir)  BY <1>1, <1>9, <1>11
    <3> QED  BY <3>2, <3>3, <1>7, <1>11 DEF LifeInv, Whole, size
  <2> QED  BY <2>2, <2>3
<1>12. /\ UNCHANGED <<disk, stores, reported>> /\ aborted' = (aborted \/ handle[p].pc = "write")
       /\ handles' \in 0 .. MaxHandles /\ faults' \in 0 .. MaxFaults
       /\ clash' \in BOOLEAN /\ (clash => clash')
  BY <1>1 DEF LifeInv, Typed
<1> QED  BY <1>1, <1>6, <1>8, <1>9, <1>10, <1>11, <1>12, HandleStep

(* ensure_file_size finds the file long enough, or is the only one that    *)
(* does not. *)
LEMMA StatKeeps ==
  ASSUME LifeInv, NEW p \in Procs, Stat(p)
  PROVE  LifeInv'
<1> DEFINE i == handle[p].inode
           T == MapTarget(handle[p])
           short == Short(inodes[i].length, T)
           h == [handle[p] EXCEPT !.pc = IF short THEN "truncate" ELSE "map"]
<1>1. /\ handle[p].pc = "stat" /\ UNCHANGED <<disk, handles, stores, reported, aborted, faults>>
      /\ handle[p] \in HandleType(made) /\ Sound(handle[p]) /\ (~clash => Peace(p, handle[p]))
      /\ clash' = (clash \/ (short /\ Lengthening(p, i))) /\ Becomes(p, h)
  BY HandleFacts DEF Stat
<1>2. i \in Inodes /\ inodes[i].length \in Nat  BY <1>1, HandleFacts, InodeFacts DEF Sound, Holds
<1>3. T \in Nat /\ T >= first_map_size_  BY <1>1, HandleFacts, TargetFacts DEF Sound
<1>4. (short /\ inodes[i].length < T) \/ (~short /\ inodes[i].length >= T)
  BY <1>2, <1>3 DEF Short
<1> HIDE DEF short, T
<1>5. /\ h \in HandleType(made) /\ h.pc = IF short THEN "truncate" ELSE "map"
      /\ \A f \in {"op", "is_load_", "map_file_", "map_size_", "inode", "size", "done", "place", "verdict"} :
            h[f] = handle[p][f]
  BY <1>1 DEF HandleType
<1> HIDE DEF h
<1>6. MapTarget(h) = T  BY <1>5 DEF MapTarget, T
<1>7. Sound(h)
  <2>1. h.pc = "map" => inodes[i].length >= first_map_size_
    BY <1>2, <1>3, <1>4, <1>5, LifeAssumption
  <2> QED  BY <2>1, <1>1, <1>5 DEF Sound, Holds
<1>8. ~clash' => Peace(p, h)
  <2> SUFFICES ASSUME ~clash' PROVE Peace(p, h)  OBVIOUS
  <2>1. Peace(p, handle[p])  BY <1>1
  <2>2. h.pc = "truncate" => \A q \in Procs \ {p} : handle[q].inode = i => handle[q].pc # "truncate"
    BY <1>1, <1>5 DEF Lengthening
  <2> QED  BY <2>1, <2>2, <1>2, <1>3, <1>4, <1>5, <1>6 DEF Peace
<1>9. ~clash' => \A q \in Procs \ {p} : handle[q].inode = h.inode => handle[q].pc # "write"
  BY <1>1, <1>5 DEF LifeInv, Undisturbed, Peace, Holds
<1>10. ~aborted /\ ~clash' /\ h.inode = dir /\ dir # NoFile /\ Sees(h) => inodes[dir].written = Units
  BY <1>1, <1>5 DEF LifeInv, Whole, Sees
<1>11. /\ UNCHANGED <<disk, stores, reported>> /\ aborted' = (aborted \/ handle[p].pc = "write")
       /\ handles' \in 0 .. MaxHandles /\ faults' \in 0 .. MaxFaults
       /\ clash' \in BOOLEAN /\ (clash => clash')
  BY <1>1 DEF LifeInv, Typed
<1> QED  BY <1>1, <1>5, <1>7, <1>8, <1>9, <1>10, <1>11, HandleStep

(* What is mapped is in the file. *)
LEMMA MapKeeps ==
  ASSUME LifeInv, NEW p \in Procs, Map(p)
  PROVE  LifeInv'
<1> DEFINE i == handle[p].inode
           T == MapTarget(handle[p])
           g == [handle[p] EXCEPT !.map_file_ = "alive", !.map_size_ = T]
<1>1. /\ handle[p].pc = "map" /\ UNCHANGED <<disk, handles, past, faults>>
      /\ handle[p] \in HandleType(made) /\ Sound(handle[p]) /\ (~clash => Peace(p, handle[p]))
      /\ i \in Inodes
  <2>1. handle[p].pc = "map" /\ UNCHANGED <<disk, handles, past, faults>>
    BY HandleFacts DEF Map, HandleType
  <2>2. i # NoFile  BY <2>1, HandleFacts DEF Sound, Holds
  <2> QED  BY <2>1, <2>2, HandleFacts
<1>2. UNCHANGED <<disk, stores, reported, clash, aborted>>  BY <1>1 DEF past
<1>3. T \in Nat /\ T >= first_map_size_ /\ T <= max_map_size_
  BY <1>1, HandleFacts, TargetFacts DEF Sound
<1>4. /\ g \in HandleType(made) /\ g.map_file_ = "alive" /\ g.map_size_ = T
      /\ \A f \in {"pc", "op", "is_load_", "inode", "size", "done", "place", "verdict"} : g[f] = handle[p][f]
  <2>1. T \in 0 .. max_map_size_  BY <1>3, LifeAssumption
  <2> HIDE DEF T
  <2> QED  BY <1>1, <2>1 DEF HandleType
<1>5. PICK h \in HandleType(made) :
        /\ Becomes(p, h) /\ h.map_file_ = "alive" /\ h.map_size_ = T
        /\ \A f \in {"inode", "size", "done"} : h[f] = handle[p][f]
        /\ \/ /\ handle[p].op = "create" /\ h.pc = "idle" /\ h.op = "none" /\ h.is_load_
              /\ h.verdict = "TFS_SUCCESS"
           \/ /\ handle[p].op = "load" /\ h.pc = "check" /\ h.op = "load" /\ ~h.is_load_
              /\ h.verdict = "none"
           \/ /\ handle[p].op = "read" /\ h.pc = "idle" /\ h.op = "none" /\ h.is_load_
              /\ h.verdict = "none"
           \/ /\ handle[p].op = "store" /\ h.pc \in {"memcpy", "pwrite", "stat"} /\ h.op = "store"
              /\ h.is_load_ /\ h.verdict = "none" /\ h.place = handle[p].place
  <2>0. g = [handle[p] EXCEPT !.map_file_ = "alive", !.map_size_ = MapTarget(handle[p])]  OBVIOUS
  <2>1. \/ handle[p].op = "create" /\ Returns(p, [g EXCEPT !.is_load_ = TRUE], "TFS_SUCCESS")
        \/ handle[p].op = "load" /\ Becomes(p, [g EXCEPT !.pc = "check"])
        \/ handle[p].op = "read" /\ Returns(p, g, "none")
        \/ handle[p].op = "store" /\ \E next \in AfterRemap(g) : Becomes(p, [g EXCEPT !.pc = next])
    BY <2>0, <1>4 DEF Map
  <2>2. 0 \in 0 .. MaxFiles  BY LifeAssumption
  <2> HIDE DEF g, T
  <2>3. CASE handle[p].op = "create" /\ Returns(p, [g EXCEPT !.is_load_ = TRUE], "TFS_SUCCESS")
    <3> DEFINE h == [[g EXCEPT !.is_load_ = TRUE] EXCEPT !.pc = "idle", !.op = "none", !.place = 0,
                                                         !.verdict = "TFS_SUCCESS"]
    <3>1. h \in HandleType(made)  BY <1>4, <2>2 DEF HandleType
    <3>2. Becomes(p, h)  BY <2>3 DEF Returns
    <3>3. /\ h.pc = "idle" /\ h.op = "none" /\ h.is_load_ /\ h.verdict = "TFS_SUCCESS"
          /\ \A f \in {"map_file_", "map_size_", "inode", "size", "done"} : h[f] = g[f]
      BY <1>4 DEF HandleType
    <3> HIDE DEF h
    <3> QED  BY <1>4, <2>3, <3>1, <3>2, <3>3
  <2>4. CASE handle[p].op = "load" /\ Becomes(p, [g EXCEPT !.pc = "check"])
    <3>1. [g EXCEPT !.pc = "check"] \in HandleType(made)  BY <1>4 DEF HandleType
    <3>2. ~handle[p].is_load_ /\ handle[p].verdict = "none"  BY <1>1, <2>4 DEF Sound
    <3> QED  BY <1>4, <2>4, <3>1, <3>2 DEF HandleType
  <2>5. CASE handle[p].op = "read" /\ Returns(p, g, "none")
    <3> DEFINE h == [g EXCEPT !.pc = "idle", !.op = "none", !.place = 0, !.verdict = "none"]
    <3>1. h \in HandleType(made)  BY <1>4, <2>2 DEF HandleType
    <3>2. Becomes(p, h) /\ handle[p].is_load_  BY <1>1, <2>5 DEF Returns, Sound
    <3>3. /\ h.pc = "idle" /\ h.op = "none" /\ h.verdict = "none"
          /\ \A f \in {"is_load_", "map_file_", "map_size_", "inode", "size", "done"} : h[f] = g[f]
      BY <1>4 DEF HandleType
    <3> HIDE DEF h
    <3> QED  BY <1>4, <2>5, <3>1, <3>2, <3>3
  <2>6. CASE handle[p].op = "store" /\ \E next \in AfterRemap(g) : Becomes(p, [g EXCEPT !.pc = next])
    <3>1. PICK next \in AfterRemap(g) : Becomes(p, [g EXCEPT !.pc = next])  BY <2>6
    <3>2. next \in {"memcpy", "pwrite", "stat"}  BY DEF AfterRemap, Attempt
    <3>3. [g EXCEPT !.pc = next] \in HandleType(made)  BY <1>4, <3>2 DEF HandleType
    <3>4. handle[p].is_load_ /\ handle[p].verdict = "none"  BY <1>1, <2>6 DEF Sound
    <3> QED  BY <1>4, <2>6, <3>1, <3>2, <3>3, <3>4 DEF HandleType
  <2> QED  BY <2>1, <2>3, <2>4, <2>5, <2>6
<1>6. Sound(h)
  <2>1. inodes[i].length >= first_map_size_  BY <1>1 DEF Sound
  <2>2. handle[p].op = "create" => inodes[i].written = Units  BY <1>1 DEF Sound
  <2>3. handle[p].op = "store" => handle[p].place # 0  BY <1>1 DEF Sound
  <2> HIDE DEF T
  <2> QED  BY <1>1, <1>3, <1>5, <2>1, <2>2, <2>3 DEF Sound, Holds, Units, HeaderUnits, Inodes, NoFile
<1>7. ~clash => Peace(p, h)
  <2> SUFFICES ASSUME ~clash PROVE Peace(p, h)  OBVIOUS
  <2>1. inodes[i].length >= T  BY <1>1 DEF Peace
  <2>2. h.op = "store" => handle[p].op = "store" /\ h.place = handle[p].place  BY <1>5
  <2> HIDE DEF T
  <2> QED  BY <1>1, <1>5, <2>1, <2>2 DEF Peace
<1>8. ~clash => \A q \in Procs \ {p} : handle[q].inode = h.inode => handle[q].pc # "write"
  BY <1>1, <1>5 DEF LifeInv, Undisturbed, Peace, Holds
<1>9. ~aborted /\ ~clash /\ h.inode = dir /\ dir # NoFile => inodes[dir].written = Units
  <2>1. handle[p].op = "create" => inodes[i].written = Units  BY <1>1 DEF Sound
  <2>2. handle[p].op # "create" => Sees(handle[p])  BY <1>1, <1>5 DEF Sees, Sound
  <2> QED  BY <2>1, <2>2, <1>5 DEF LifeInv, Whole
<1>10. /\ aborted' = (aborted \/ handle[p].pc = "write") /\ clash' = clash /\ clash \in BOOLEAN
       /\ handles' \in 0 .. MaxHandles /\ faults' \in 0 .. MaxFaults
  BY <1>1, <1>2 DEF LifeInv, Typed
<1> QED  BY <1>2, <1>5, <1>6, <1>7, <1>8, <1>9, <1>10, HandleStep

(* The only process that stores a file has the place behind the last one. *)
LEMMA TakePlaceKeeps ==
  ASSUME LifeInv, NEW p \in Procs, TakePlace(p)
  PROVE  LifeInv'
<1> DEFINE i == handle[p].inode
           g == [handle[p] EXCEPT !.op = "store", !.place = inodes[i].used + 1, !.verdict = "none"]
           h == [g EXCEPT !.pc = Attempt(g)]
<1>1. /\ Loaded(p) /\ UNCHANGED <<disk, handles, stores, reported, aborted, faults>>
      /\ handle[p] \in HandleType(made) /\ Sound(handle[p]) /\ (~clash => Peace(p, handle[p]))
      /\ g.place <= MaxFiles /\ clash' = (clash \/ Storing(p, g.inode)) /\ Becomes(p, h)
  BY HandleFacts DEF TakePlace
<1>2. handle[p].map_file_ = "alive"  BY <1>1 DEF Loaded, Usable, HandleType, Sound
<1>3. i \in Inodes /\ inodes[i].used \in Nat  BY <1>1, <1>2, HandleFacts, InodeFacts DEF Sound, Holds
<1>4. /\ g.place = inodes[i].used + 1 /\ g.op = "store" /\ g.verdict = "none"
      /\ \A f \in {"pc", "is_load_", "map_file_", "map_size_", "inode", "size", "done"} : g[f] = handle[p][f]
  BY <1>1 DEF HandleType
<1>5. g \in HandleType(made)
  <2>1. inodes[i].used + 1 \in 0 .. MaxFiles  BY <1>1, <1>3, <1>4, LifeAssumption
  <2> QED  BY <1>1, <2>1 DEF HandleType
<1>6. Attempt(g) \in {"memcpy", "pwrite", "stat"}  BY DEF Attempt
<1> HIDE DEF g
<1>7. /\ h \in HandleType(made) /\ h.pc \in {"memcpy", "pwrite", "stat"}
      /\ h.place = inodes[i].used + 1 /\ h.op = "store" /\ h.verdict = "none"
      /\ \A f \in {"is_load_", "map_file_", "map_size_", "inode", "size", "done"} : h[f] = handle[p][f]
  BY <1>4, <1>5, <1>6 DEF HandleType
<1> HIDE DEF h
<1>8. Sound(h)
  BY <1>1, <1>2, <1>3, <1>7 DEF Sound, Holds, Loaded
<1>9. ~clash' => Peace(p, h)
  <2> SUFFICES ASSUME ~clash' PROVE Peace(p, h)  OBVIOUS
  <2>1. Peace(p, handle[p])  BY <1>1
  <2>2. \A q \in Procs \ {p} : handle[q].inode = i => handle[q].op # "store"
    BY <1>1, <1>4 DEF Storing
  <2> QED  BY <2>1, <2>2, <1>2, <1>7 DEF Peace
<1>10. ~clash' => \A q \in Procs \ {p} : handle[q].inode = h.inode => handle[q].pc # "write"
  BY <1>1, <1>2, <1>7 DEF LifeInv, Undisturbed, Peace, Holds
<1>11. ~aborted /\ ~clash' /\ h.inode = dir /\ dir # NoFile /\ Sees(h) => inodes[dir].written = Units
  BY <1>1, <1>2, <1>7 DEF LifeInv, Whole, Sees
<1>12. /\ UNCHANGED <<disk, stores, reported>> /\ aborted' = (aborted \/ handle[p].pc = "write")
       /\ handles' \in 0 .. MaxHandles /\ faults' \in 0 .. MaxFaults
       /\ clash' \in BOOLEAN /\ (clash => clash')
  BY <1>1 DEF LifeInv, Typed, Loaded, Usable
<1> QED  BY <1>1, <1>7, <1>8, <1>9, <1>10, <1>11, <1>12, HandleStep

-----------------------------------------------------------------------------
(* The file that open makes is empty, and nobody has seen it. *)
LEMMA OpenFileKeeps ==
  ASSUME LifeInv, NEW p \in Procs, OpenFile(p)
  PROVE  LifeInv'
<1> DEFINE i == IF dir = NoFile THEN made + 1 ELSE dir
           h == [handle[p] EXCEPT !.inode = i, !.pc = "size"]
<1>1. /\ handle[p].pc = "open" /\ UNCHANGED <<inodes, handles, past, faults>> /\ Becomes(p, h)
      /\ (dir = NoFile => made < MaxInodes) /\ dir' = i /\ made' = IF dir = NoFile THEN i ELSE made
      /\ handle[p] \in HandleType(made) /\ Sound(handle[p]) /\ (~clash => Peace(p, handle[p]))
      /\ made \in 0 .. MaxInodes /\ dir \in 0 .. made /\ MaxInodes \in Nat
  BY HandleFacts DEF OpenFile
<1>2. UNCHANGED <<inodes, stores, reported, clash, aborted, handles, faults>>  BY <1>1 DEF past
<1>3. /\ i \in 1 .. made' /\ made' \in 0 .. MaxInodes /\ made <= made' /\ made' \in Nat
      /\ dir' \in 0 .. made' /\ i # NoFile /\ i \in Inodes
      /\ dir = NoFile => i > made
      /\ dir # NoFile => i = dir
  BY <1>1 DEF NoFile, Inodes
<1>4. handle[p] \in HandleType(made')  BY <1>1, <1>3 DEF HandleType
<1> HIDE DEF i
<1>5. h \in HandleType(made')
  <2>1. i \in 0 .. made'  BY <1>3
  <2> QED  BY <1>4, <2>1 DEF HandleType
<1>6. /\ h.pc = "size" /\ h.inode = i
      /\ \A f \in {"op", "is_load_", "map_file_", "map_size_", "size", "done", "place", "verdict"} :
            h[f] = handle[p][f]
  BY <1>1 DEF HandleType
<1> HIDE DEF h
<1>7. /\ handle' \in [Procs -> HandleType(made')] /\ handle'[p] = h
      /\ \A q \in Procs : q # p => handle'[q] = handle[q]
  BY <1>1, <1>3, <1>5, OneHandle
<1>8. /\ ~handle[p].is_load_ /\ handle[p].verdict = "none" /\ handle[p].map_file_ = "null"
      /\ handle[p].op \in {"create", "load"} /\ handle[p].done = 0
  BY <1>1 DEF Sound, Holds, HandleType
<1>9. Sound(h) /\ ~Holds(h) /\ ~Sees(h)  BY <1>3, <1>6, <1>8 DEF Sound, Holds, Sees
<1>10. Typed'  BY <1>2, <1>3, <1>7 DEF LifeInv, Typed
<1>11. LengthInv'
  BY <1>1, <1>2, <1>3 DEF LifeInv, LengthInv, Inodes
<1>12. AllSound'
  <2> SUFFICES ASSUME NEW q \in Procs PROVE Sound(handle[q])'  BY DEF AllSound
  <2>1. CASE q = p  BY <2>1, <1>2, <1>7, <1>9 DEF Sound, Holds
  <2>2. CASE q # p  BY <2>2, <1>2, <1>7 DEF LifeInv, AllSound, Sound, Holds
  <2> QED  BY <2>1, <2>2
<1>13. Undisturbed'
  <2> SUFFICES ASSUME ~clash, NEW q \in Procs PROVE Peace(q, handle[q])'
    BY <1>2 DEF LifeInv, Undisturbed
  <2>1. CASE q = p
    BY <2>1, <1>2, <1>6, <1>7, <1>8, <1>9 DEF Peace, Holds, MapTarget
  <2>2. CASE q # p
    <3>1. Peace(q, handle[q]) /\ handle'[q] = handle[q]  BY <2>2, <1>7 DEF LifeInv, Undisturbed
    <3>2. \A r \in Procs \ {q} : handle'[r].inode = handle[q].inode =>
            /\ handle[q].pc = "write" => ~Holds(handle'[r])
            /\ handle[q].pc = "truncate" => handle'[r].pc # "truncate"
            /\ handle[q].op = "store" => handle'[r].op # "store"
      BY <3>1, <1>6, <1>7, <1>8, <1>9 DEF Peace
    <3> QED  BY <3>1, <3>2, <1>2 DEF Peace, Holds, MapTarget
  <2> QED  BY <2>1, <2>2
<1>14. Whole'
  <2>1. CASE dir = NoFile
    <3>1. inodes[i].length = 0 /\ reported = {}  BY <2>1, <1>3 DEF LifeInv, LengthInv, Whole
    <3>2. \A q \in Procs : handle'[q].inode = i => ~Sees(handle'[q])
      <4> SUFFICES ASSUME NEW q \in Procs, handle'[q].inode = i PROVE ~Sees(handle'[q])  OBVIOUS
      <4>1. CASE q = p  BY <4>1, <1>7, <1>9
      <4>2. CASE q # p
        <5>1. handle[q] \in HandleType(made)  BY HandleFacts
        <5> QED  BY <5>1, <4>2, <2>1, <1>1, <1>3, <1>7 DEF HandleType
      <4> QED  BY <4>1, <4>2
    <3> QED  BY <3>1, <3>2, <1>1, <1>2 DEF Whole, Sees, i
  <2>2. CASE dir # NoFile
    <3>1. dir' = dir  BY <2>2, <1>1 DEF i
    <3>2. \A q \in Procs : /\ handle'[q].pc = "write" <=> handle[q].pc = "write"
                           /\ handle[q].pc = "write" => handle'[q].inode = handle[q].inode
                           /\ Sees(handle'[q]) => Sees(handle[q]) /\ handle'[q].inode = handle[q].inode
      BY <1>1, <1>6, <1>7, <1>9
    <3> QED  BY <3>1, <3>2, <1>2 DEF LifeInv, Whole, Sees
  <2> QED  BY <2>1, <2>2
<1>15. ReportedIsStored'
  BY <1>1, <1>2 DEF LifeInv, Whole, ReportedIsStored, Files, i
<1> QED  BY <1>10, <1>11, <1>12, <1>13, <1>14, <1>15 DEF LifeInv

(* remove leaves the other handles the file; the directory forgets it. *)
LEMMA UnlinkFileKeeps ==
  ASSUME LifeInv, NEW p \in Procs, UnlinkFile(p)
  PROVE  LifeInv'
<1> DEFINE g == [handle[p] EXCEPT !.inode = NoFile]
           h == [g EXCEPT !.pc = "idle", !.op = "none", !.place = 0, !.verdict = "none"]
<1>1. /\ handle[p].pc = "unlink" /\ UNCHANGED <<made, inodes, handles, stores, clash, faults>>
      /\ dir' = NoFile /\ reported' = {} /\ aborted' = FALSE /\ Becomes(p, h)
      /\ handle[p] \in HandleType(made) /\ Sound(handle[p])
      /\ made \in 0 .. MaxInodes /\ MaxInodes \in Nat
  BY HandleFacts DEF UnlinkFile, Returns
<1>2. h \in HandleType(made)
  <2>1. 0 \in 0 .. MaxFiles /\ NoFile \in 0 .. made  BY <1>1, LifeAssumption DEF NoFile
  <2> QED  BY <1>1, <2>1 DEF HandleType
<1>3. /\ h.pc = "idle" /\ h.op = "none" /\ h.place = 0 /\ h.verdict = "none" /\ h.inode = NoFile
      /\ \A f \in {"is_load_", "map_file_", "map_size_", "size", "done"} : h[f] = handle[p][f]
  BY <1>1 DEF HandleType
<1> HIDE DEF h
<1>4. /\ handle' \in [Procs -> HandleType(made')] /\ handle'[p] = h
      /\ \A q \in Procs : q # p => handle'[q] = handle[q]
  BY <1>1, <1>2, OneHandle
<1>5. Typed'
  <2>1. aborted' \in BOOLEAN  BY <1>1
  <2> QED  BY <1>1, <1>4, <2>1 DEF LifeInv, Typed, NoFile
<1>6. LengthInv'  BY <1>1 DEF LifeInv, LengthInv
<1>7. Sound(h) /\ ~Holds(h)  BY <1>1, <1>3 DEF Sound, Holds
<1>8. AllSound'
  <2> SUFFICES ASSUME NEW q \in Procs PROVE Sound(handle[q])'  BY DEF AllSound
  <2>1. CASE q = p  BY <2>1, <1>1, <1>4, <1>7 DEF Sound, Holds
  <2>2. CASE q # p  BY <2>2, <1>1, <1>4 DEF LifeInv, AllSound, Sound, Holds
  <2> QED  BY <2>1, <2>2
<1>9. Undisturbed'
  <2> SUFFICES ASSUME ~clash, NEW q \in Procs PROVE Peace(q, handle[q])'
    BY <1>1 DEF LifeInv, Undisturbed
  <2>1. CASE q = p
    BY <2>1, <1>1, <1>3, <1>4, <1>7 DEF Peace, Holds, MapTarget
  <2>2. CASE q # p
    <3>1. Peace(q, handle[q]) /\ handle'[q] = handle[q]  BY <2>2, <1>4 DEF LifeInv, Undisturbed
    <3>2. \A r \in Procs \ {q} : handle'[r].inode = handle[q].inode =>
            /\ handle[q].pc = "write" => ~Holds(handle'[r])
            /\ handle[q].pc = "truncate" => handle'[r].pc # "truncate"
            /\ handle[q].op = "store" => handle'[r].op # "store"
      BY <3>1, <1>3, <1>4, <1>7 DEF Peace
    <3> QED  BY <3>1, <3>2, <1>1 DEF Peace, Holds, MapTarget
  <2> QED  BY <2>1, <2>2
<1>10. Whole' /\ ReportedIsStored'  BY <1>1 DEF Whole, ReportedIsStored
<1> QED  BY <1>5, <1>6, <1>8, <1>9, <1>10 DEF LifeInv

-----------------------------------------------------------------------------
(* The system calls that change a file, and what they keep in it. *)
Kept ==
  \A i \in Inodes : \A n \in Places :
    inodes[i].at[n] # NoFile => inodes'[i].at[n] = inodes[i].at[n]

(* create writes where nothing is stored, unless it was disturbed. *)
LEMMA WriteUnitKeeps ==
  ASSUME LifeInv, NEW p \in Procs, WriteUnit(p)
  PROVE  LifeInv' /\ (~clash' => Kept)
<1> DEFINE i == handle[p].inode
           unit == handle[p].done + 1
           file == [length |-> Larger(inodes[i].length, unit), written |-> Larger(inodes[i].written, unit),
                    used |-> IF unit = HeaderUnits THEN 0 ELSE inodes[i].used,
                    at |-> IF unit = Units THEN Empty.at ELSE inodes[i].at]
           pc == IF unit = Units THEN "sync" ELSE "write"
           g == [handle[p] EXCEPT !.done = unit, !.pc = pc]
<1>1. /\ handle[p].pc = "write" /\ UNCHANGED <<dir, made, handles, past, faults>> /\ Becomes(p, g)
      /\ handle[p] \in HandleType(made) /\ Sound(handle[p]) /\ (~clash => Peace(p, handle[p]))
  BY HandleFacts DEF WriteUnit
<1>2. i \in Inodes /\ Holds(handle[p]) /\ handle[p].op = "create" /\ ~handle[p].is_load_
      /\ handle[p].map_file_ # "deleted" /\ handle[p].verdict = "none"
  <2>1. i # NoFile  BY <1>1 DEF Sound, Holds
  <2> QED  BY <2>1, <1>1, HandleFacts DEF Sound, Holds
<1>3. inodes' = [inodes EXCEPT ![i] = file]
  <2>1. inodes \in [Inodes -> InodeType]  BY DEF LifeInv, Typed
  <2> QED  BY <2>1, <1>2 DEF WriteUnit
<1>4. unit \in 1 .. Units
  <2>1. handle[p].done \in 0 .. Units /\ handle[p].done < Units  BY <1>1 DEF HandleType, Sound
  <2> QED  BY <2>1 DEF Units
<1>5. /\ inodes[i] \in InodeType /\ inodes[i].length \in Nat /\ inodes[i].length <= MaxLength
      /\ inodes[i].written \in Nat /\ inodes[i].written <= Units
      /\ inodes[i].used \in 0 .. MaxFiles /\ inodes[i].at \in [Places -> 0 .. MaxFiles]
      /\ inodes[i].length = inodes[i].written \/ inodes[i].length >= first_map_size_
      /\ \A n \in Places : inodes[i].at[n] # NoFile => Units + n <= inodes[i].length
  BY <1>2, InodeFacts, LifeAssumption
<1>6. Empty.at = [n \in Places |-> NoFile] /\ Empty.at \in [Places -> 0 .. MaxFiles]
  BY LifeAssumption DEF Empty, NoFile
<1> HIDE DEF unit
<1>7. /\ file.length = Larger(inodes[i].length, unit) /\ file.written = Larger(inodes[i].written, unit)
      /\ file.used = IF unit = HeaderUnits THEN 0 ELSE inodes[i].used
      /\ file.at = IF unit = Units THEN Empty.at ELSE inodes[i].at
  OBVIOUS
<1>8. file \in InodeType
  <2>1. Larger(inodes[i].length, unit) \in 0 .. MaxLength /\ Larger(inodes[i].written, unit) \in 0 .. Units
    BY <1>4, <1>5, LifeAssumption DEF Larger, MaxLength, Units
  <2>2. (IF unit = HeaderUnits THEN 0 ELSE inodes[i].used) \in 0 .. MaxFiles  BY <1>5, LifeAssumption
  <2> QED  BY <2>1, <2>2, <1>5, <1>6 DEF InodeType
<1> HIDE DEF file
<1>9. /\ inodes[i].length <= file.length /\ inodes[i].written <= file.written
      /\ file.length = file.written \/ file.length >= first_map_size_
      /\ file.written > 0 /\ file.written \in 0 .. Units
      /\ unit = Units => file.written = Units
  BY <1>4, <1>5, <1>7, LifeAssumption DEF Larger, Units
<1>10. \A n \in Places : file.at[n] # NoFile => Units + n <= file.length
  <2>1. file.length \in Int  BY <1>4, <1>5, <1>7 DEF Larger
  <2> QED  BY <2>1, <1>5, <1>6, <1>7, <1>9 DEF Places, Units
<1>11. \A n \in Places : inodes[i].at[n] = NoFile => file.at[n] = NoFile  BY <1>6, <1>7
<1>25. pc = IF unit = Units THEN "sync" ELSE "write"  OBVIOUS
<1> HIDE DEF pc
<1>12. g \in HandleType(made)
  <2>1. pc \in {"sync", "write"} /\ unit \in 0 .. Units  BY <1>4, <1>25 DEF Units
  <2> QED  BY <1>1, <2>1 DEF HandleType
<1>13. PICK h \in HandleType(made) :
         /\ Becomes(p, h) /\ h.pc = pc /\ h.done = unit
         /\ \A f \in {"op", "is_load_", "map_file_", "map_size_", "inode", "size", "place", "verdict"} :
               h[f] = handle[p][f]
  BY <1>1, <1>12 DEF HandleType
<1> HIDE DEF g
<1>14. inodes'[i] = file  BY <1>2, <1>3 DEF LifeInv, Typed
<1>15. Sound(h)'
  <2>1. h.pc \in {"write", "sync"} /\ (h.pc = "write" => h.done < Units) /\ (h.pc = "sync" => file.written = Units)
    BY <1>4, <1>9, <1>13, <1>25 DEF Units
  <2>2. h.map_file_ = "alive" => h.map_size_ >= first_map_size_ /\ file.length >= first_map_size_
    <3>1. file.length \in Int  BY <1>4, <1>5, <1>7 DEF Larger
    <3> QED  BY <3>1, <1>1, <1>5, <1>9, <1>13, LifeAssumption DEF Sound
  <2>3. h.inode = i /\ i # NoFile /\ h.op = "create" /\ ~h.is_load_ /\ h.map_file_ # "deleted" /\ h.verdict = "none"
    BY <1>2, <1>13 DEF Inodes, NoFile
  <2> QED  BY <2>1, <2>2, <2>3, <1>14 DEF Sound, Holds
<1>16. ~clash => /\ \A n \in Places : inodes[i].at[n] = NoFile
                 /\ \A q \in Procs \ {p} : handle[q].inode = i => ~Holds(handle[q])
  BY <1>1 DEF Peace
<1>17. /\ \A q \in Procs : q # p => handle'[q] = handle[q]
       /\ UNCHANGED <<dir, made, handles, stores, reported, aborted, clash, faults>>
  BY <1>1 DEF Becomes, LifeInv, Typed, past
<1>18. ~clash' => Peace(p, h)'
  <2> SUFFICES ASSUME ~clash PROVE Peace(p, h)'  BY <1>17
  <2>1. \A n \in Places : file.at[n] = NoFile  BY <1>11, <1>16
  <2>2. h.map_file_ = "alive" => file.length >= h.map_size_
    <3>1. h.map_file_ = "alive" => inodes[i].length >= h.map_size_  BY <1>1, <1>13 DEF Peace
    <3>2. file.length \in Int /\ h.map_size_ \in Int
      BY <1>4, <1>5, <1>7, LifeAssumption DEF Larger, HandleType
    <3> QED  BY <3>1, <3>2, <1>5, <1>9
  <2>3. h.pc \notin {"truncate", "map"} /\ h.op # "store"  BY <1>2, <1>13, <1>25
  <2> QED  BY <2>1, <2>2, <2>3, <1>13, <1>14, <1>16, <1>17 DEF Peace, Holds
<1>19. ~clash' => /\ ~Lengthening(p, i) /\ ~Storing(p, i)
                  /\ \A n \in Places : file.at[n] = NoFile /\ inodes[i].at[n] = NoFile
  <2>1. \A q \in Procs : handle[q].pc = "truncate" \/ handle[q].op = "store" => Holds(handle[q])
    BY HandleFacts DEF Sound, Holds
  <2> QED  BY <2>1, <1>11, <1>16, <1>17 DEF Lengthening, Storing
<1>20. ~clash' => Kept
  BY <1>2, <1>3, <1>14, <1>19 DEF Kept, LifeInv, Typed
<1>21. file.written = Units \/ h.pc = "write"  BY <1>9, <1>13, <1>25
<1>22. (Sees(h) => Sees(handle[p])) /\ h.inode = i  BY <1>13, <1>2 DEF Sees
<1>23. stores' \in 0 .. MaxFiles /\ reported' \subseteq 1 .. MaxFiles /\ clash' \in BOOLEAN /\ (clash => clash')
  BY <1>17 DEF LifeInv, Typed
<1>24. LifeInv'
  BY <1>1, <1>2, <1>3, <1>8, <1>9, <1>10, <1>13, <1>15, <1>17, <1>18, <1>19, <1>21, <1>22, <1>23, FileStep
<1> QED  BY <1>20, <1>24

(* ftruncate only lengthens, unless another process has lengthened the     *)
(* file meanwhile. *)
LEMMA TruncateKeeps ==
  ASSUME LifeInv, NEW p \in Procs, Truncate(p)
  PROVE  LifeInv' /\ (~clash' => Kept)
<1> DEFINE i == handle[p].inode
           T == MapTarget(handle[p])
           at == [n \in Places |-> IF Units + n <= T THEN inodes[i].at[n] ELSE NoFile]
           file == [inodes[i] EXCEPT !.length = T, !.at = at]
           g == [handle[p] EXCEPT !.pc = "map"]
<1>1. /\ handle[p].pc = "truncate" /\ UNCHANGED <<dir, made, handles, past, faults>> /\ Becomes(p, g)
      /\ handle[p] \in HandleType(made) /\ Sound(handle[p]) /\ (~clash => Peace(p, handle[p]))
  BY HandleFacts DEF Truncate
<1>2. i \in Inodes /\ Holds(handle[p])
  <2>1. Holds(handle[p])  BY <1>1 DEF Holds
  <2> QED  BY <2>1, HandleFacts DEF Sound
<1>3. T \in Nat /\ T >= first_map_size_ /\ T <= max_map_size_  BY <1>1, HandleFacts, TargetFacts DEF Sound
<1>4. /\ inodes[i] \in InodeType /\ inodes[i].length \in Nat /\ inodes[i].written \in Nat
      /\ inodes[i].at \in [Places -> 0 .. MaxFiles]
      /\ \A n \in Places : inodes[i].at[n] # NoFile => Units + n <= inodes[i].length
      /\ inodes[i].written > 0 /\ inodes[i].length > 0
  BY <1>1, <1>2, InodeFacts, HeldIsBegun
<1>5. inodes' = [inodes EXCEPT ![i] = file]
  <2>1. inodes \in [Inodes -> InodeType]  BY DEF LifeInv, Typed
  <2> QED  BY <2>1, <1>2 DEF Truncate, InodeType
<1> HIDE DEF T
<1>6. at \in [Places -> 0 .. MaxFiles]  BY <1>4, LifeAssumption DEF NoFile
<1>7. \A n \in Places : /\ at[n] # NoFile => at[n] = inodes[i].at[n] /\ Units + n <= T
                        /\ T >= inodes[i].length => at[n] = inodes[i].at[n]
  BY <1>3, <1>4 DEF Places, Units
<1> HIDE DEF at
<1>8. /\ file \in InodeType /\ file.length = T /\ file.at = at
      /\ file.written = inodes[i].written /\ file.used = inodes[i].used
  <2>1. T \in 0 .. MaxLength  BY <1>3, LifeAssumption DEF MaxLength
  <2> QED  BY <2>1, <1>4, <1>6 DEF InodeType
<1> HIDE DEF file
<1>9. inodes'[i] = file /\ \A j \in Inodes : j # i => inodes'[j] = inodes[j]
  BY <1>2, <1>5 DEF LifeInv, Typed
<1>10. g \in HandleType(made)  BY <1>1 DEF HandleType
<1>11. PICK h \in HandleType(made) :
         /\ Becomes(p, h) /\ h.pc = "map"
         /\ \A f \in {"op", "is_load_", "map_file_", "map_size_", "inode", "size", "done", "place", "verdict"} :
               h[f] = handle[p][f]
  BY <1>1, <1>10 DEF HandleType
<1> HIDE DEF g
<1>12. Sound(h)'
  <2>1. file.length >= first_map_size_ /\ file.length > 0  BY <1>3, <1>8, LifeAssumption DEF Units
  <2> QED  BY <2>1, <1>1, <1>8, <1>9, <1>11 DEF Sound, Holds
<1>13. /\ \A q \in Procs : q # p => handle'[q] = handle[q]
       /\ UNCHANGED <<dir, made, handles, stores, reported, aborted, clash, faults>>
  BY <1>1 DEF Becomes, LifeInv, Typed, past
<1>14. ~clash => inodes[i].length < T  BY <1>1 DEF Peace, T
<1>15. ~clash' => Peace(p, h)'
  <2> SUFFICES ASSUME ~clash PROVE Peace(p, h)'  BY <1>13
  <2>1. MapTarget(h) = T  BY <1>11 DEF MapTarget, T
  <2>2. h.map_file_ = "alive" => file.length >= h.map_size_
    <3>1. h.map_file_ = "alive" => inodes[i].length >= h.map_size_  BY <1>1, <1>11 DEF Peace
    <3>2. h.map_size_ \in Int  BY LifeAssumption DEF HandleType
    <3> QED  BY <3>1, <3>2, <1>3, <1>4, <1>8, <1>14
  <2>3. h.op = "store" => /\ inodes[i].used + 1 = h.place
                          /\ \A q \in Procs \ {p} : handle[q].inode = i => handle[q].op # "store"
    BY <1>1, <1>11 DEF Peace
  <2> QED  BY <2>1, <2>2, <2>3, <1>3, <1>8, <1>9, <1>11, <1>13 DEF Peace, MapTarget
<1>16. ~clash' =>
         /\ inodes[i].length <= file.length /\ ~Lengthening(p, i) /\ file.used = inodes[i].used
         /\ \A n \in Places : n > file.used => file.at[n] = NoFile
         /\ \A n \in Places : inodes[i].at[n] # NoFile => file.at[n] = inodes[i].at[n]
  <2> SUFFICES ASSUME ~clash
               PROVE  /\ inodes[i].length <= file.length /\ ~Lengthening(p, i) /\ file.used = inodes[i].used
                      /\ \A n \in Places : n > file.used => file.at[n] = NoFile
                      /\ \A n \in Places : inodes[i].at[n] # NoFile => file.at[n] = inodes[i].at[n]
    BY <1>13
  <2>1. inodes[i].length <= file.length /\ T >= inodes[i].length  BY <1>3, <1>4, <1>8, <1>14
  <2>2. ~Lengthening(p, i)  BY <1>1 DEF Peace, Lengthening
  <2>3. \A n \in Places : n > inodes[i].used => inodes[i].at[n] = NoFile  BY <1>2 DEF LifeInv, Undisturbed
  <2> QED  BY <2>1, <2>2, <2>3, <1>7, <1>8
<1>17. ~clash' => Kept  BY <1>9, <1>16 DEF Kept
<1>18. (Sees(h) => Sees(handle[p])) /\ h.inode = i  BY <1>1, <1>11 DEF Sees
<1>19. stores' \in 0 .. MaxFiles /\ reported' \subseteq 1 .. MaxFiles /\ clash' \in BOOLEAN /\ (clash => clash')
  BY <1>13 DEF LifeInv, Typed
<1>20. /\ file.length >= first_map_size_ /\ file.written > 0 /\ inodes[i].written <= file.written
       /\ \A n \in Places : file.at[n] # NoFile => Units + n <= file.length
  BY <1>3, <1>4, <1>7, <1>8
<1>21. ~clash' =>
         /\ Peace(p, h)' /\ inodes[h.inode].length <= file.length
         /\ Lengthening(p, h.inode) => file.length = inodes[h.inode].length
         /\ Storing(p, h.inode) => file.used = inodes[h.inode].used
         /\ \A n \in Places : n > file.used => file.at[n] = NoFile
         /\ \A n \in Places : inodes[h.inode].at[n] # NoFile => file.at[n] = inodes[h.inode].at[n]
  BY <1>15, <1>16, <1>18
<1>22. LifeInv'
  <2> HIDE DEF i
  <2>1. Holds(handle[p]) /\ h.inode = handle[p].inode  BY <1>2, <1>11
  <2>2. inodes' = [inodes EXCEPT ![handle[p].inode] = file]  BY <1>5 DEF i
  <2>3. /\ inodes[h.inode].length > 0 /\ inodes[h.inode].written <= file.written
        /\ handle[p].pc # "write" /\ h.pc # "write"
    BY <1>1, <1>4, <1>11, <1>18, <1>20
  <2>4. Becomes(p, h)  BY <1>11
  <2>5. reported' = reported  BY <1>13
  <2>6. UNCHANGED <<dir, made, handles, aborted, faults>>  BY <1>13
  <2> QED  BY <2>1, <2>2, <2>3, <2>4, <2>5, <2>6, <1>8, <1>12, <1>18, <1>19, <1>20, <1>21, FileStep
<1> QED  BY <1>17, <1>22

(* A record is stored where nothing is, unless another process took the    *)
(* same place; it is linked where it is reported: the header is whole. *)
LEMMA StoreFileKeeps ==
  ASSUME LifeInv, NEW p \in Procs, StoreFile(p)
  PROVE  LifeInv' /\ (~clash' => Kept)
<1> DEFINE i == handle[p].inode
           place == handle[p].place
           unit == Units + place
           f == stores + 1
           whole == inodes[i].written >= HeaderUnits
           file == [length |-> Larger(inodes[i].length, unit), written |-> inodes[i].written,
                    used |-> IF inodes[i].written < HeaderUnits THEN inodes[i].used
                             ELSE Larger(inodes[i].used, place),
                    at |-> IF inodes[i].written < HeaderUnits THEN inodes[i].at
                           ELSE [inodes[i].at EXCEPT ![place] = f]]
           g == [handle[p] EXCEPT !.pc = "idle", !.op = "none", !.place = 0, !.verdict = "none"]
<1>1. /\ handle[p].pc \in {"pwrite", "memcpy"} /\ UNCHANGED <<dir, made, handles, aborted, faults>>
      /\ stores < MaxFiles /\ stores' = f
      /\ reported' = IF i = dir THEN reported \cup {f} ELSE reported
      /\ clash' = (clash \/ (handle[p].pc = "pwrite" /\ Lengthening(p, i))) /\ Becomes(p, g)
      /\ handle[p].pc = "memcpy" => unit <= inodes[i].length
      /\ handle[p] \in HandleType(made) /\ Sound(handle[p]) /\ (~clash => Peace(p, handle[p]))
      /\ dir \in 0 .. made
  BY HandleFacts DEF StoreFile, Returns
<1>2. /\ handle[p].op = "store" /\ handle[p].is_load_ /\ handle[p].map_file_ = "alive" /\ place # 0
      /\ Holds(handle[p]) /\ i \in Inodes
  <2>1. handle[p].op = "store"  BY <1>1 DEF Sound, HandleType
  <2> QED  BY <2>1, <1>1, HandleFacts DEF Sound, Holds
<1>3. inodes' = [inodes EXCEPT ![i] = file]
  <2>1. inodes \in [Inodes -> InodeType]  BY DEF LifeInv, Typed
  <2> QED  BY <2>1, <1>2 DEF StoreFile
<1>4. place \in 1 .. MaxFiles /\ place \in Places /\ place \in Nat /\ f \in 1 .. MaxFiles /\ f # NoFile
      /\ stores \in Nat
  BY <1>1, <1>2, LifeAssumption DEF HandleType, Places, NoFile, LifeInv, Typed
<1>5. /\ inodes[i] \in InodeType /\ inodes[i].length \in Nat /\ inodes[i].length <= MaxLength
      /\ inodes[i].written \in 0 .. Units /\ inodes[i].written \in Nat
      /\ inodes[i].used \in 0 .. MaxFiles /\ inodes[i].used \in Nat
      /\ inodes[i].at \in [Places -> 0 .. MaxFiles]
      /\ inodes[i].length >= first_map_size_ /\ inodes[i].length > 0
      /\ \A n \in Places : inodes[i].at[n] # NoFile => Units + n <= inodes[i].length
      /\ inodes[i].length > 0 => inodes[i].written > 0
  BY <1>1, <1>2, InodeFacts, LifeAssumption DEF InodeType, Sound, Units
<1>6. (whole /\ inodes[i].written >= HeaderUnits) \/ (~whole /\ inodes[i].written < HeaderUnits)
  BY <1>5 DEF HeaderUnits
<1> HIDE DEF whole, f
<1>7. /\ file.length = Larger(inodes[i].length, unit) /\ file.written = inodes[i].written
      /\ whole => file.used = Larger(inodes[i].used, place) /\ file.at = [inodes[i].at EXCEPT ![place] = f]
      /\ ~whole => file.used = inodes[i].used /\ file.at = inodes[i].at
  BY <1>5, <1>6 DEF HeaderUnits
<1>8. /\ file.length \in 0 .. MaxLength /\ file.length >= inodes[i].length /\ file.length >= unit
      /\ file.used \in 0 .. MaxFiles /\ file.at \in [Places -> 0 .. MaxFiles]
      /\ file.used >= inodes[i].used /\ (whole => file.used >= place)
      /\ \A n \in Places : n # place => file.at[n] = inodes[i].at[n]
      /\ whole => file.at[place] = f
      /\ ~whole => file.at = inodes[i].at
  <2>1. file.length \in 0 .. MaxLength /\ file.length >= inodes[i].length /\ file.length >= unit
    BY <1>4, <1>5, <1>7, LifeAssumption DEF Larger, MaxLength, Units
  <2>2. file.used \in 0 .. MaxFiles /\ file.used >= inodes[i].used /\ (whole => file.used >= place)
    BY <1>4, <1>5, <1>7 DEF Larger
  <2>3. /\ file.at \in [Places -> 0 .. MaxFiles]
        /\ \A n \in Places : n # place => file.at[n] = inodes[i].at[n]
        /\ whole => file.at[place] = f
        /\ ~whole => file.at = inodes[i].at
    BY <1>4, <1>5, <1>7
  <2> QED  BY <2>1, <2>2, <2>3
<1>9. file \in InodeType  BY <1>5, <1>7, <1>8 DEF InodeType
<1> HIDE DEF file
<1>10. g \in HandleType(made)
  <2>1. 0 \in 0 .. MaxFiles  BY LifeAssumption
  <2> QED  BY <1>1, <2>1 DEF HandleType
<1>11. PICK h \in HandleType(made) :
         /\ Becomes(p, h) /\ h.pc = "idle" /\ h.op = "none" /\ h.place = 0 /\ h.verdict = "none"
         /\ \A k \in {"is_load_", "map_file_", "map_size_", "inode", "size", "done"} : h[k] = handle[p][k]
  BY <1>1, <1>10 DEF HandleType
<1> HIDE DEF g
<1>12. inodes'[i] = file /\ \A j \in Inodes : j # i => inodes'[j] = inodes[j]
  BY <1>2, <1>3 DEF LifeInv, Typed
<1>13. /\ h.map_size_ \in Nat /\ h.inode = i /\ i # NoFile
       /\ \A q \in Procs : q # p => handle'[q] = handle[q]
  <2>1. h.map_size_ \in Nat  BY LifeAssumption DEF HandleType
  <2>2. h.inode = i /\ i # NoFile  BY <1>2, <1>11 DEF Inodes, NoFile
  <2>3. \A q \in Procs : q # p => handle'[q] = handle[q]  BY <1>11 DEF Becomes, LifeInv, Typed
  <2> QED  BY <2>1, <2>2, <2>3
<1>14. Sound(h)'
  <2>1. file.length >= first_map_size_ /\ file.written = inodes[i].written
    BY <1>5, <1>7, <1>8, LifeAssumption
  <2>2. /\ h.map_size_ >= first_map_size_
        /\ inodes[i].written < HeaderUnits => h.size >= first_map_size_
    BY <1>1, <1>2, <1>11, <1>13 DEF Sound
  <2> QED  BY <2>1, <2>2, <1>2, <1>11, <1>12, <1>13 DEF Sound, Holds
<1>15. ASSUME ~clash'
       PROVE  /\ Peace(p, h)' /\ inodes[i].length <= file.length
              /\ Lengthening(p, i) => file.length = inodes[i].length
              /\ ~Storing(p, i)
              /\ \A n \in Places : n > file.used => file.at[n] = NoFile
              /\ \A n \in Places : inodes[i].at[n] # NoFile => file.at[n] = inodes[i].at[n]
  <2>1. ~clash /\ Peace(p, handle[p])  BY <1>1, <1>15
  <2>2. Peace(p, h)'
    <3>1. file.length >= h.map_size_  BY <2>1, <1>2, <1>5, <1>8, <1>11, <1>13 DEF Peace
    <3> QED  BY <3>1, <1>11, <1>12, <1>13 DEF Peace
  <2>3. Lengthening(p, i) => file.length = inodes[i].length
    <3>1. Lengthening(p, i) => handle[p].pc = "memcpy"  BY <1>1, <1>15
    <3>2. unit <= inodes[i].length => file.length = inodes[i].length
      BY <1>4, <1>5, <1>7 DEF Larger, Units
    <3> QED  BY <3>1, <3>2, <1>1
  <2>4. ~Storing(p, i) /\ inodes[i].used + 1 = place  BY <2>1, <1>2 DEF Peace, Storing
  <2>5. \A n \in Places : n > inodes[i].used => inodes[i].at[n] = NoFile
    BY <2>1, <1>2 DEF LifeInv, Undisturbed
  <2>6. \A n \in Places : n > file.used => file.at[n] = NoFile
    <3> SUFFICES ASSUME NEW n \in Places, n > file.used PROVE file.at[n] = NoFile  OBVIOUS
    <3>1. n \in Nat /\ n > inodes[i].used  BY <1>5, <1>8 DEF Places
    <3>2. CASE whole  BY <3>1, <3>2, <2>5, <1>4, <1>8
    <3>3. CASE ~whole  BY <3>1, <3>3, <2>5, <1>8
    <3> QED  BY <3>2, <3>3
  <2>7. inodes[i].at[place] = NoFile
    <3>1. place > inodes[i].used  BY <2>4, <1>5
    <3> QED  BY <2>5, <3>1, <1>4
  <2> QED  BY <2>2, <2>3, <2>4, <2>6, <2>7, <1>8
<1>16. ~clash' => Kept  BY <1>12, <1>15 DEF Kept
<1>17. \A n \in Places : file.at[n] # NoFile => Units + n <= file.length
  <2> SUFFICES ASSUME NEW n \in Places, file.at[n] # NoFile PROVE Units + n <= file.length  OBVIOUS
  <2>1. CASE n = place  BY <2>1, <1>8
  <2>2. CASE n # place
    <3>1. Units + n <= inodes[i].length  BY <2>2, <1>5, <1>8
    <3> QED  BY <3>1, <1>5, <1>8 DEF Places, Units
  <2> QED  BY <2>1, <2>2
<1>18. ~aborted /\ ~clash' => \A r \in reported' : r \in reported \/ \E n \in Places : r = file.at[n]
  <2> SUFFICES ASSUME ~aborted, ~clash', i = dir PROVE file.at[place] = f  BY <1>1, <1>4
  <2>1. inodes[i].written = Units
    BY <1>1, <1>2, <1>13 DEF LifeInv, Whole, Sees
  <2> QED  BY <2>1, <1>6, <1>8 DEF Units, HeaderUnits
<1>19. /\ file.length >= first_map_size_ /\ file.length > 0 /\ file.written > 0
       /\ inodes[i].written <= file.written
  BY <1>5, <1>7, <1>8, LifeAssumption
<1>20. /\ stores' \in 0 .. MaxFiles /\ reported' \subseteq 1 .. MaxFiles
       /\ clash' \in BOOLEAN /\ (clash => clash') /\ (reported' # reported => h.inode = dir)
  BY <1>1, <1>4, <1>13 DEF LifeInv, Typed
<1>21. (Sees(h) => Sees(handle[p])) /\ h.pc # "write" /\ handle[p].pc # "write"
  BY <1>1, <1>2, <1>11 DEF Sees
<1>22. ~clash' =>
         /\ Peace(p, h)' /\ inodes[h.inode].length <= file.length
         /\ Lengthening(p, h.inode) => file.length = inodes[h.inode].length
         /\ Storing(p, h.inode) => file.used = inodes[h.inode].used
         /\ \A n \in Places : n > file.used => file.at[n] = NoFile
         /\ \A n \in Places : inodes[h.inode].at[n] # NoFile => file.at[n] = inodes[h.inode].at[n]
  BY <1>13, <1>15
<1>23. LifeInv'
  <2> HIDE DEF i
  <2>1. Holds(handle[p]) /\ h.inode = handle[p].inode  BY <1>2, <1>11
  <2>2. UNCHANGED <<dir, made, handles, aborted, faults>>  BY <1>1
  <2>3. inodes' = [inodes EXCEPT ![handle[p].inode] = file]  BY <1>3 DEF i
  <2>4. inodes[h.inode].length > 0 /\ inodes[h.inode].written <= file.written  BY <1>5, <1>13, <1>19
  <2>5. Becomes(p, h)  BY <1>11
  <2> QED  BY <2>1, <2>2, <2>3, <2>4, <2>5, <1>9, <1>14, <1>17, <1>18, <1>19, <1>20, <1>21, <1>22, FileStep
<1> QED  BY <1>16, <1>23

-----------------------------------------------------------------------------
LEMMA LifeStep == LifeInv /\ [LifeNext]_lifevars => LifeInv'
<1> SUFFICES ASSUME LifeInv, [LifeNext]_lifevars PROVE LifeInv'  OBVIOUS
<1>1. ASSUME NEW p \in Procs,
             \/ NewHandle(p) \/ Create(p) \/ Load(p) \/ OpenFile(p) \/ GetFileSize(p)
             \/ WriteUnit(p) \/ Sync(p) \/ CheckIndex(p) \/ Stat(p) \/ Truncate(p) \/ Map(p)
             \/ TakePlace(p) \/ StoreFile(p) \/ StoreRefused(p) \/ ReadFile(p)
             \/ Remove(p) \/ UnlinkFile(p) \/ Delete(p) \/ Dies(p)
             \/ CallFails(p) \/ RemapFails(p) \/ StoreFails(p) \/ UnlinkFails(p)
      PROVE  LifeInv'
  <2>1. CASE Create(p)  BY <2>1, BeginsKeeps DEF Create
  <2>2. CASE Load(p)  BY <2>2, BeginsKeeps DEF Load
  <2> QED
    BY <1>1, <2>1, <2>2, NewHandleKeeps, OpenFileKeeps, GetFileSizeKeeps, WriteUnitKeeps, SyncKeeps,
       CheckIndexKeeps, StatKeeps, TruncateKeeps, MapKeeps, TakePlaceKeeps, StoreFileKeeps,
       StoreRefusedKeeps, ReadFileKeeps, RemoveKeeps, UnlinkFileKeeps, EndsKeeps, CallFailsKeeps,
       RemapFailsKeeps, UnlinkFailsKeeps
<1>2. CASE UNCHANGED lifevars
  <2> USE <1>2 DEF lifevars, disk, past
  <2>1. Typed' /\ LengthInv'  BY DEF LifeInv, Typed, LengthInv
  <2>2. AllSound'  BY DEF LifeInv, AllSound, Sound, Holds
  <2>3. Undisturbed' /\ Whole' /\ ReportedIsStored'
    BY DEF LifeInv, Undisturbed, Peace, Holds, MapTarget, Whole, Sees, ReportedIsStored, Files
  <2> QED  BY <2>1, <2>2, <2>3 DEF LifeInv
<1> QED  BY <1>1, <1>2 DEF LifeNext

(* Every state of the life cycle has the inductive invariant. *)
THEOREM LifeCorrect == LifeSpec => []LifeInv
BY InitLife, LifeStep, PTL DEF LifeSpec

(* The life cycle keeps its types: the records of an index file are in the *)
(* file, and so is what a handle has mapped, until a stale ftruncate cuts  *)
(* off what lies behind the first mapping. *)
THEOREM LifeTypeCorrect == LifeSpec => []LifeTypeOK
BY LifeCorrect, LifeInvSays, PTL

(* What programs reported as stored is in the index the directory names,   *)
(* unless a create was cut off or two processes were creating, lengthening *)
(* or storing into the same file at once. *)
THEOREM StoredIsKept == LifeSpec => []ReportedIsStored
<1>1. LifeInv => ReportedIsStored  BY DEF LifeInv
<1> QED  BY <1>1, LifeCorrect, PTL

(* create is refused only where a create has begun to write. *)
THEOREM RefusalIsJustified == LifeSpec => []RefusedOnlyIfBegun
BY LifeCorrect, LifeInvSays, PTL

(* The load that sees what an unfinished create has left refuses it. *)
THEOREM UnfinishedIsRefused == LifeSpec => []IncompleteIsRefused
BY LifeCorrect, LifeInvSays, PTL

(* No create, ftruncate or later record takes a stored file out of an      *)
(* index file, until two processes have been creating, lengthening or      *)
(* storing into the same file at once. *)
THEOREM FilesAreKept == LifeSpec => FilesStay
<1> DEFINE Keeps == ~clash' => \A i \in Inodes : Files(i) \subseteq Files(i)'
<1>1. Kept => \A i \in Inodes : Files(i) \subseteq Files(i)'  BY DEF Kept, Files
<1>2. ASSUME LifeInv, LifeNext PROVE Keeps
  <2>1. PICK p \in Procs :
          \/ NewHandle(p) \/ Create(p) \/ Load(p) \/ OpenFile(p) \/ GetFileSize(p)
          \/ WriteUnit(p) \/ Sync(p) \/ CheckIndex(p) \/ Stat(p) \/ Truncate(p) \/ Map(p)
          \/ TakePlace(p) \/ StoreFile(p) \/ StoreRefused(p) \/ ReadFile(p)
          \/ Remove(p) \/ UnlinkFile(p) \/ Delete(p) \/ Dies(p)
          \/ CallFails(p) \/ RemapFails(p) \/ StoreFails(p) \/ UnlinkFails(p)
    BY <1>2 DEF LifeNext
  <2>2. CASE WriteUnit(p) \/ Truncate(p) \/ StoreFile(p)
    BY <1>1, <1>2, <2>2, WriteUnitKeeps, TruncateKeeps, StoreFileKeeps
  <2>3. CASE \/ NewHandle(p) \/ Create(p) \/ Load(p) \/ OpenFile(p) \/ GetFileSize(p) \/ Sync(p)
             \/ CheckIndex(p) \/ Stat(p) \/ Map(p) \/ TakePlace(p) \/ StoreRefused(p) \/ ReadFile(p)
             \/ Remove(p) \/ UnlinkFile(p) \/ Delete(p) \/ Dies(p)
             \/ CallFails(p) \/ RemapFails(p) \/ StoreFails(p) \/ UnlinkFails(p)
    <3>1. inodes' = inodes
      BY <2>3 DEF NewHandle, Create, Load, Begins, OpenFile, GetFileSize, Sync, CheckIndex, Stat, Map,
                  TakePlace, StoreRefused, ReadFile, Remove, UnlinkFile, Delete, Dies, CallFails,
                  RemapFails, StoreFails, UnlinkFails, disk
    <3> QED  BY <3>1 DEF Files
  <2> QED  BY <2>1, <2>2, <2>3
<1>3. LifeInv /\ [LifeNext]_lifevars => [Keeps]_lifevars  BY <1>2
<1> QED  BY <1>3, LifeCorrect, PTL DEF LifeSpec, FilesStay
=============================================================================
