---------------------------- MODULE MappedProofs ----------------------------
(***************************************************************************)
(* Proofs about MappedFile: types for any number of processes, and, for a  *)
(* process that has the file to itself, that the mapping lies within it.   *)
(***************************************************************************)
EXTENDS MappedProperties, SequenceTheorems, TLAPS

(* What a process has in hand besides TypeOK. *)
CallsTyped ==
  /\ call \in [Procs -> [op : {"none", "read", "write"}, offset : Nat, data : Seq(Page)]]
  /\ \A p \in Procs : Length(p) <= MaxLength
  /\ \A p \in Procs : pc[p] \notin {"copy", "transfer"} => moved[p] = 0

TypeInv == TypeOK /\ CallsTyped

(* What ensure_file_size has established when it returns. *)
Ensured == \A p \in Procs : pc[p] = "map" => target[p] <= Len(file)

(* The code that may call ftruncate has found the file too short. *)
TooShort == \A p \in Procs : pc[p] = "truncate" => Len(file) < target[p]

GrowthInv == MappedWithinFile /\ Ensured /\ TooShort

-----------------------------------------------------------------------------
(* Zero and the pages of a write are pages, and make up sequences. *)
LEMMA PageFacts ==
  /\ Zero \in Page
  /\ \A b \in Bytes, n \in 1 .. MaxLength : Data(b, n) \in Seq(Page) /\ Len(Data(b, n)) = n
  /\ \A n \in Nat : [i \in 1 .. n |-> Zero] \in Seq(Page) /\ Len([i \in 1 .. n |-> Zero]) = n
  /\ << >> \in Seq(Page) /\ Len(<< >>) = 0
<1>1. Zero \in Page
  BY DEF Page
<1>2. ASSUME NEW b \in Bytes, NEW n \in 1 .. MaxLength
      PROVE  Data(b, n) \in Seq(Page) /\ Len(Data(b, n)) = n
  <2>1. n \in Nat
    BY MappedBoundsAssumption
  <2>2. \A i \in 1 .. n : <<b, i>> \in Page
    BY MappedBoundsAssumption DEF Page
  <2> QED
    BY <2>1, <2>2 DEF Data
<1>3. ASSUME NEW n \in Nat
      PROVE  [i \in 1 .. n |-> Zero] \in Seq(Page) /\ Len([i \in 1 .. n |-> Zero]) = n
  BY <1>1
<1>4. << >> \in Seq(Page) /\ Len(<< >>) = 0
  OBVIOUS
<1> QED
  BY <1>1, <1>2, <1>3, <1>4

(* ftruncate gives the file the length it was asked for. *)
LEMMA ResizedFacts ==
  ASSUME NEW f \in Seq(Page), NEW n \in Nat
  PROVE  Resized(f, n) \in Seq(Page) /\ Len(Resized(f, n)) = n
<1>1. \A i \in 1 .. n : (IF i <= Len(f) THEN f[i] ELSE Zero) \in Page
  BY PageFacts
<1> QED
  BY <1>1 DEF Resized

(* A pwrite64 of a page at place k. *)
LEMMA StoreFacts ==
  ASSUME NEW f \in Seq(Page), NEW k \in Nat, NEW x \in Page
  PROVE  Stored(f, k, x) \in Seq(Page) /\ Len(Stored(f, k, x)) >= Len(f)
<1> DEFINE N == IF k < Len(f) THEN Len(f) ELSE k + 1
           at(i) == IF i = k + 1 THEN x ELSE IF i <= Len(f) THEN f[i] ELSE Zero
<1>1. N \in Nat /\ N >= Len(f)
  OBVIOUS
<1>2. \A i \in 1 .. N : at(i) \in Page
  BY PageFacts
<1>3. Stored(f, k, x) = [i \in 1 .. N |-> at(i)]
  BY DEF Stored
<1> HIDE DEF N, at
<1>4. [i \in 1 .. N |-> at(i)] \in Seq(Page) /\ Len([i \in 1 .. N |-> at(i)]) = N
  BY <1>1, <1>2
<1> QED
  BY <1>1, <1>3, <1>4

(* An object that has just been made has no mapping and no transfer. *)
LEMMA InitTypeInv == Init => TypeInv
<1> SUFFICES ASSUME Init PROVE TypeInv
  OBVIOUS
<1> USE PageFacts, OptionAssumption, MappedBoundsAssumption
<1>1. TypeOK
  BY DEF Init, TypeOK, NoCall, Length
<1>2. CallsTyped
  <2>1. NoCall \in [op : {"none", "read", "write"}, offset : Nat, data : Seq(Page)]
    BY DEF NoCall
  <2> QED
    BY <2>1 DEF Init, CallsTyped, NoCall, Length
<1> QED
  BY <1>1, <1>2 DEF TypeInv

(* What an operation that returns, or a process that dies, leaves behind. *)
LEMMA LeaveTypes ==
  ASSUME TypeInv, NEW p \in Procs, Leave(p)
  PROVE  /\ pc' \in [Procs -> {"ready", "remap", "stat", "truncate", "map", "copy", "transfer"}]
         /\ target' \in [Procs -> 0 .. max_map_size_]
         /\ remaps' \in [Procs -> 0 .. 2]
         /\ moved' \in [Procs -> 0 .. MaxLength]
         /\ \A q \in Procs : moved'[q] <= Length(q)'
         /\ CallsTyped'
<1> USE PageFacts, OptionAssumption, MappedBoundsAssumption
<1>1. NoCall \in [op : {"none", "read", "write"}, offset : Nat, data : Seq(Page)] /\ Len(NoCall.data) = 0
  BY DEF NoCall
<1>2. /\ pc' \in [Procs -> {"ready", "remap", "stat", "truncate", "map", "copy", "transfer"}]
      /\ target' \in [Procs -> 0 .. max_map_size_]
      /\ remaps' \in [Procs -> 0 .. 2]
      /\ moved' \in [Procs -> 0 .. MaxLength]
  BY DEF TypeInv, TypeOK, Leave, Goto
<1>3. call' \in [Procs -> [op : {"none", "read", "write"}, offset : Nat, data : Seq(Page)]]
  BY <1>1 DEF TypeInv, CallsTyped, Leave
<1>4. \A q \in Procs : Length(q)' = IF q = p THEN 0 ELSE Length(q)
  BY <1>1 DEF TypeInv, CallsTyped, Leave, Length
<1>5. \A q \in Procs : moved'[q] = (IF q = p THEN 0 ELSE moved[q])
                      /\ pc'[q] = (IF q = p THEN "ready" ELSE pc[q])
  BY DEF TypeInv, TypeOK, Leave, Goto
<1>6. \A q \in Procs : moved'[q] <= Length(q)' /\ Length(q)' <= MaxLength
  <2> SUFFICES ASSUME NEW q \in Procs PROVE moved'[q] <= Length(q)' /\ Length(q)' <= MaxLength
    OBVIOUS
  <2>1. CASE q = p
    BY <1>4, <1>5, <2>1
  <2>2. CASE q # p
    BY <1>4, <1>5, <2>2 DEF TypeInv, TypeOK, CallsTyped
  <2> QED
    BY <2>1, <2>2
<1>7. \A q \in Procs : pc'[q] \notin {"copy", "transfer"} => moved'[q] = 0
  BY <1>5 DEF TypeInv, CallsTyped
<1>8. CallsTyped'
  BY <1>3, <1>6, <1>7 DEF CallsTyped
<1> QED
  BY <1>2, <1>6, <1>8

(* A transfer that has moved one more page, by either way. *)
LEMMA MovedTypes ==
  ASSUME TypeInv, NEW p \in Procs, moved[p] < Length(p),
         moved' = [moved EXCEPT ![p] = @ + 1],
         pc[p] \in {"copy", "transfer"},
         UNCHANGED <<mapped, size, pc, target, remaps, call, ret, faults>>,
         file' \in Seq(Page)
  PROVE  TypeInv'
<1> USE OptionAssumption, MappedBoundsAssumption
<1>1. moved[p] \in Nat /\ Length(p) \in Nat /\ Length(p) <= MaxLength
  BY DEF TypeInv, TypeOK, CallsTyped, Length
<1>2. \A q \in Procs : Length(q)' = Length(q)
  BY DEF Length
<1>3. moved' \in [Procs -> 0 .. MaxLength]
  BY <1>1 DEF TypeInv, TypeOK
<1>4. \A q \in Procs : moved'[q] <= Length(q)' /\ Length(q)' <= MaxLength
  <2> SUFFICES ASSUME NEW q \in Procs PROVE moved'[q] <= Length(q)' /\ Length(q)' <= MaxLength
    OBVIOUS
  <2>1. CASE q = p
    BY <1>1, <1>2, <2>1 DEF TypeInv, TypeOK
  <2>2. CASE q # p
    BY <1>2, <2>2 DEF TypeInv, TypeOK, CallsTyped
  <2> QED
    BY <2>1, <2>2
<1>5. TypeOK'
  BY <1>3, <1>4 DEF TypeInv, TypeOK
<1>6. \A q \in Procs : pc'[q] \notin {"copy", "transfer"} => moved'[q] = 0
  BY DEF TypeInv, TypeOK, CallsTyped
<1>7. CallsTyped'
  BY <1>4, <1>6 DEF TypeInv, CallsTyped
<1> QED
  BY <1>5, <1>7 DEF TypeInv

(* A step that touches neither the file nor a transfer. *)
LEMMA GrowingTypes ==
  ASSUME TypeInv, NEW p \in Procs, UNCHANGED transfer,
         mapped' \in [Procs -> BOOLEAN],
         file' \in Seq(Page),
         size' \in [Procs -> 0 .. max_map_size_],
         target' \in [Procs -> 0 .. max_map_size_],
         remaps' \in [Procs -> 0 .. 2],
         faults' \in 0 .. MaxFaults,
         NEW l \in {"ready", "remap", "stat", "truncate", "map", "copy", "transfer"},
         pc' = [pc EXCEPT ![p] = l],
         pc[p] \notin {"copy", "transfer"}
  PROVE  TypeInv'
<1>1. pc' \in [Procs -> {"ready", "remap", "stat", "truncate", "map", "copy", "transfer"}]
  BY DEF TypeInv, TypeOK
<1>2. \A q \in Procs : Length(q)' = Length(q)
  BY DEF Length, transfer
<1>3. TypeOK'
  BY <1>1, <1>2 DEF TypeInv, TypeOK, transfer
<1>4. \A q \in Procs : pc'[q] \notin {"copy", "transfer"} => moved'[q] = 0
  BY DEF TypeInv, TypeOK, CallsTyped, transfer
<1>5. CallsTyped'
  BY <1>2, <1>4 DEF TypeInv, CallsTyped, transfer
<1> QED
  BY <1>3, <1>5 DEF TypeInv

(* A page that moves leaves a file behind that is no shorter. *)
LEMMA MovingKeepsPages ==
  ASSUME NEW p \in Procs, TypeInv, Copy(p) \/ Transfer(p)
  PROVE  file' \in Seq(Page) /\ Len(file') >= Len(file)
<1> DEFINE k == Place(p)
           x == call[p].data[moved[p] + 1]
<1>1. file \in Seq(Page) /\ Len(file) \in Nat
  BY DEF TypeInv, TypeOK
<1>2. moved[p] \in Nat /\ call[p].data \in Seq(Page) /\ moved[p] < Len(call[p].data) /\ k \in Nat
  BY MappedBoundsAssumption DEF Copy, Transfer, TypeInv, TypeOK, CallsTyped, Length, Place
<1>3. x \in Page /\ k \in Nat
  BY <1>2
<1>4. \/ file' = file
      \/ file' = [file EXCEPT ![k + 1] = x] /\ k + 1 \in 1 .. Len(file)
      \/ file' = Stored(file, k, x)
  BY <1>1, <1>2 DEF Copy, Transfer
<1> HIDE DEF k, x
<1>5. CASE file' = file
  BY <1>1, <1>5
<1>6. CASE file' = [file EXCEPT ![k + 1] = x] /\ k + 1 \in 1 .. Len(file)
  <2>1. file' \in Seq(Page) /\ Len(file') = Len(file)
    BY <1>1, <1>3, <1>6, ExceptSeq
  <2> QED
    BY <1>1, <2>1
<1>7. CASE file' = Stored(file, k, x)
  BY <1>1, <1>3, <1>7, StoreFacts
<1> QED
  BY <1>4, <1>5, <1>6, <1>7

-----------------------------------------------------------------------------
(* No step of any process stores a value of a wrong type. *)
LEMMA NextTypeInv == TypeInv /\ [Next]_vars => TypeInv'
<1> SUFFICES ASSUME TypeInv, [Next]_vars PROVE TypeInv'
  OBVIOUS
<1> USE OptionAssumption, MappedBoundsAssumption
<1> DEFINE Labels == {"ready", "remap", "stat", "truncate", "map", "copy", "transfer"}
<1>0. /\ file \in Seq(Page) /\ Len(file) \in Nat
      /\ size \in [Procs -> 0 .. max_map_size_]
      /\ target \in [Procs -> 0 .. max_map_size_]
      /\ remaps \in [Procs -> 0 .. 2]
      /\ faults \in 0 .. MaxFaults
      /\ mapped \in [Procs -> BOOLEAN]
  BY DEF TypeInv, TypeOK
<1>1. CASE UNCHANGED vars
  <2>1. \A p \in Procs : Length(p)' = Length(p)
    BY <1>1 DEF vars, Length
  <2>2. TypeOK'
    BY <1>1, <2>1 DEF TypeInv, TypeOK, vars
  <2>3. CallsTyped'
    BY <1>1, <2>1 DEF TypeInv, CallsTyped, vars
  <2> QED
    BY <2>2, <2>3 DEF TypeInv
<1>2. ASSUME NEW p \in Procs, MmapFile(p) PROVE TypeInv'
  <2>1. PICK first \in {first_map_size_} \cup ({Len(file)} \cap (first_map_size_ .. max_map_size_)) :
          target' = [target EXCEPT ![p] = first]
    BY <1>2 DEF MmapFile
  <2>2. target' \in [Procs -> 0 .. max_map_size_]
    BY <1>0, <2>1
  <2> QED
    BY <1>0, <1>2, <2>2, GrowingTypes DEF MmapFile, Goto, transfer
<1>3. ASSUME NEW p \in Procs, RemapFile(p) PROVE TypeInv'
  <2>1. remaps' \in [Procs -> 0 .. 2]
    BY <1>0, <1>3 DEF RemapFile
  <2>2. CASE size[p] = max_map_size_ /\ UNCHANGED <<pc, target>>
    <3>1. pc' = [pc EXCEPT ![p] = "remap"]
      BY <1>3, <2>2 DEF RemapFile, TypeInv, TypeOK
    <3> QED
      BY <1>0, <1>3, <2>1, <2>2, <3>1, GrowingTypes DEF RemapFile, transfer
  <2>3. CASE /\ target' = [target EXCEPT ![p] = Smaller(size[p] + per_map_size_, max_map_size_)]
             /\ Goto(p, "stat")
    <3>1. Smaller(size[p] + per_map_size_, max_map_size_) \in 0 .. max_map_size_
      BY <1>0 DEF Smaller
    <3>2. target' \in [Procs -> 0 .. max_map_size_]
      BY <1>0, <2>3, <3>1
    <3> QED
      BY <1>0, <1>3, <2>1, <2>3, <3>2, GrowingTypes DEF RemapFile, Goto, transfer
  <2> QED
    BY <1>3, <2>2, <2>3 DEF RemapFile
<1>4. ASSUME NEW p \in Procs, Stat(p) PROVE TypeInv'
  <2>1. CASE Len(file) < target[p]
    BY <1>0, <1>4, <2>1, GrowingTypes DEF Stat, Goto, transfer
  <2>2. CASE ~(Len(file) < target[p])
    BY <1>0, <1>4, <2>2, GrowingTypes DEF Stat, Goto, transfer
  <2> QED
    BY <2>1, <2>2
<1>5. ASSUME NEW p \in Procs, Truncate(p) PROVE TypeInv'
  <2>1. file' \in Seq(Page)
    BY <1>0, <1>5, ResizedFacts DEF Truncate
  <2> QED
    BY <1>0, <1>5, <2>1, GrowingTypes DEF Truncate, Goto, transfer
<1>6. ASSUME NEW p \in Procs, Map(p) \/ GrowFails(p) PROVE TypeInv'
  <2>1. target' \in [Procs -> 0 .. max_map_size_]
    BY <1>0, <1>6 DEF Map, GrowFails
  <2>2. size' \in [Procs -> 0 .. max_map_size_] /\ mapped' \in [Procs -> BOOLEAN]
    BY <1>0, <1>6 DEF Map, GrowFails
  <2>3. faults' \in 0 .. MaxFaults
    BY <1>0, <1>6 DEF Map, GrowFails, Fault
  <2>4. PICK l \in {"remap", "ready"} : pc' = [pc EXCEPT ![p] = l]
    BY <1>6 DEF Map, GrowFails, Goto
  <2>5. file' \in Seq(Page) /\ remaps' \in [Procs -> 0 .. 2] /\ UNCHANGED transfer
    BY <1>0, <1>6 DEF Map, GrowFails
  <2>6. pc[p] \notin {"copy", "transfer"}
    BY <1>6 DEF Map, GrowFails
  <2> QED
    BY <2>1, <2>2, <2>3, <2>4, <2>5, <2>6, GrowingTypes
<1>7. ASSUME NEW p \in Procs, Route(p) PROVE TypeInv'
  <2>1. PICK l \in {"copy", "transfer"} : pc' = [pc EXCEPT ![p] = l]
    BY <1>7 DEF Route, Goto
  <2> QED
    BY <1>0, <1>7, <2>1, GrowingTypes DEF Route
<1>8. ASSUME NEW p \in Procs, PreadFile(p) \/ PwriteFile(p) PROVE TypeInv'
  <2>1. PICK op \in {"read", "write"}, offset \in Nat, data \in Seq(Page) :
          Begin(p, op, offset, data) /\ Len(data) <= MaxLength
    <3>1. CASE PreadFile(p)
      <4>1. PICK offset \in 0 .. MaxEnd, n \in 1 .. MaxLength :
              Begin(p, "read", offset, [i \in 1 .. n |-> Zero])
        BY <3>1 DEF PreadFile
      <4>2. [i \in 1 .. n |-> Zero] \in Seq(Page) /\ Len([i \in 1 .. n |-> Zero]) = n
        BY PageFacts
      <4> QED
        BY <4>1, <4>2
    <3>2. CASE PwriteFile(p)
      <4>1. PICK offset \in 0 .. MaxEnd, n \in 1 .. MaxLength, b \in Bytes :
              Begin(p, "write", offset, Data(b, n))
        BY <3>2 DEF PwriteFile
      <4>2. Data(b, n) \in Seq(Page) /\ Len(Data(b, n)) = n
        BY PageFacts
      <4> QED
        BY <4>1, <4>2
    <3> QED
      BY <1>8, <3>1, <3>2
  <2>2. call' \in [Procs -> [op : {"none", "read", "write"}, offset : Nat, data : Seq(Page)]]
    BY <2>1 DEF Begin, TypeInv, CallsTyped
  <2>3. \A q \in Procs : Length(q)' = IF q = p THEN Len(data) ELSE Length(q)
    BY <2>1 DEF Begin, TypeInv, CallsTyped, Length
  <2>4. moved[p] = 0
    BY <2>1 DEF Begin, TypeInv, CallsTyped
  <2>5. \A q \in Procs : moved'[q] <= Length(q)' /\ Length(q)' <= MaxLength
    <3> SUFFICES ASSUME NEW q \in Procs PROVE moved'[q] <= Length(q)' /\ Length(q)' <= MaxLength
      OBVIOUS
    <3>1. CASE q = p
      BY <2>1, <2>3, <2>4, <3>1 DEF Begin
    <3>2. CASE q # p
      BY <2>1, <2>3, <3>2 DEF Begin, TypeInv, TypeOK, CallsTyped
    <3> QED
      BY <3>1, <3>2
  <2>6. remaps' \in [Procs -> 0 .. 2]
    BY <1>0, <2>1 DEF Begin
  <2>7. pc' \in [Procs -> Labels] /\ \A q \in Procs : pc'[q] \notin {"copy", "transfer"} => moved'[q] = 0
    BY <2>1, <2>4 DEF Begin, Goto, TypeInv, TypeOK, CallsTyped
  <2>8. TypeOK'
    BY <2>1, <2>5, <2>6, <2>7 DEF Begin, TypeInv, TypeOK
  <2>9. CallsTyped'
    BY <2>2, <2>5, <2>7 DEF CallsTyped
  <2> QED
    BY <2>8, <2>9 DEF TypeInv
<1>9. ASSUME NEW p \in Procs, Copy(p) \/ Transfer(p) PROVE TypeInv'
  <2>1. file' \in Seq(Page)
    BY <1>9, MovingKeepsPages
  <2> QED
    BY <1>9, <2>1, MovedTypes DEF Copy, Transfer
<1>10. ASSUME NEW p \in Procs,
              \/ EndOfFile(p) \/ TransferFails(p) \/ Done(p) \/ Crash(p) \/ BusError(p)
       PROVE  TypeInv'
  <2>1. Leave(p)
    BY <1>10 DEF EndOfFile, TransferFails, Done, Return, Crash, BusError, Dies
  <2>2. file' = file /\ faults' \in 0 .. MaxFaults
    BY <1>0, <1>10 DEF EndOfFile, TransferFails, Done, Crash, BusError, Dies, Fault
  <2>3. mapped' \in [Procs -> BOOLEAN] /\ size' \in [Procs -> 0 .. max_map_size_]
    <3>1. \/ UNCHANGED <<mapped, size>>
          \/ /\ mapped' = [mapped EXCEPT ![p] = FALSE]
             /\ size' = [size EXCEPT ![p] = 0]
      BY <1>10 DEF EndOfFile, TransferFails, Done, Crash, BusError, Dies
    <3>2. size' \in [Procs -> 0 .. max_map_size_]
      BY <1>0, <3>1
    <3>3. mapped' \in [Procs -> BOOLEAN]
      <4>1. CASE mapped' = mapped
        BY <1>0, <4>1
      <4>2. CASE mapped' = [mapped EXCEPT ![p] = FALSE]
        BY <1>0, <4>2
      <4> QED
        BY <3>1, <4>1, <4>2
    <3> QED
      BY <3>2, <3>3
  <2> QED
    BY <1>0, <2>1, <2>2, <2>3, LeaveTypes DEF TypeInv, TypeOK
<1>11. ASSUME NEW p \in Procs, MunmapFile(p) PROVE TypeInv'
  <2>1. size' \in [Procs -> 0 .. max_map_size_] /\ mapped' \in [Procs -> BOOLEAN]
    BY <1>0, <1>11 DEF MunmapFile
  <2>2. pc' = [pc EXCEPT ![p] = "ready"]
    BY <1>11 DEF MunmapFile, TypeInv, TypeOK
  <2> QED
    BY <1>0, <1>11, <2>1, <2>2, GrowingTypes DEF MunmapFile
<1> QED
  BY <1>1, <1>2, <1>3, <1>4, <1>5, <1>6, <1>7, <1>8, <1>9, <1>10, <1>11 DEF Next, Step

(* Types and sizes, for every number of processes (mmap_file.cpp,          *)
(* mmap_file_op.cpp): in particular no mapping exceeds max_map_size_.      *)
THEOREM TypeCorrect == Spec => []TypeOK
<1>1. Init => TypeInv
  BY InitTypeInv
<1>2. TypeInv /\ [Next]_vars => TypeInv'
  BY NextTypeInv
<1>3. TypeInv => TypeOK
  BY DEF TypeInv
<1> QED
  BY <1>1, <1>2, <1>3, PTL DEF Spec

-----------------------------------------------------------------------------
(* Only ftruncate can take pages away, and it does not if the file is too  *)
(* short for the process that calls it.                                    *)
LEMMA NextKeepsPages ==
  ASSUME TypeInv, TooShort, [Next]_vars
  PROVE  Len(file') >= Len(file)
<1> USE OptionAssumption
<1>1. file \in Seq(Page) /\ Len(file) \in Nat
  BY DEF TypeInv, TypeOK
<1>2. CASE file' = file
  BY <1>1, <1>2
<1>3. ASSUME NEW p \in Procs, Truncate(p) PROVE Len(file') >= Len(file)
  <2>1. Len(file) < target[p] /\ target[p] \in Nat
    BY <1>3 DEF Truncate, TooShort, TypeInv, TypeOK
  <2>2. Len(file') = target[p]
    BY <1>1, <1>3, <2>1, ResizedFacts DEF Truncate
  <2> QED
    BY <1>1, <2>1, <2>2
<1>4. ASSUME NEW p \in Procs, Copy(p) \/ Transfer(p) PROVE Len(file') >= Len(file)
  BY <1>4, MovingKeepsPages
<1> QED
  BY <1>2, <1>3, <1>4
     DEF Next, Step, vars, MmapFile, PreadFile, PwriteFile, Begin, RemapFile, Stat, Map, GrowFails,
         Route, EndOfFile, TransferFails, Done, MunmapFile, Crash, BusError, Dies

(* With one process, no step lets the mapping pass the end of the file.    *)
LEMMA NextGrowthInv ==
  ASSUME NEW p \in Procs, Procs = {p}, TypeInv, GrowthInv, [Next]_vars
  PROVE  GrowthInv'
<1> USE OptionAssumption, MappedBoundsAssumption
<1>0. /\ file \in Seq(Page) /\ Len(file) \in Nat
      /\ size[p] \in 0 .. max_map_size_ /\ DOMAIN size = Procs
      /\ target[p] \in 0 .. max_map_size_ /\ DOMAIN target = Procs
      /\ DOMAIN pc = Procs
  BY DEF TypeInv, TypeOK
<1>1. /\ size[p] <= Len(file)
      /\ pc[p] = "map" => target[p] <= Len(file)
      /\ pc[p] = "truncate" => Len(file) < target[p]
  BY DEF GrowthInv, MappedWithinFile, Ensured, TooShort
<1>2. SUFFICES /\ size'[p] <= Len(file')
               /\ pc'[p] = "map" => target'[p] <= Len(file')
               /\ pc'[p] = "truncate" => Len(file') < target'[p]
  BY DEF GrowthInv, MappedWithinFile, Ensured, TooShort
<1>3. CASE UNCHANGED vars
  BY <1>1, <1>3 DEF vars
<1>4. CASE MmapFile(p) \/ PreadFile(p) \/ PwriteFile(p) \/ Route(p)
  BY <1>0, <1>1, <1>4 DEF MmapFile, PreadFile, PwriteFile, Begin, Route, Goto
<1>5. CASE RemapFile(p)
  BY <1>0, <1>1, <1>5 DEF RemapFile, Goto
<1>6. CASE Stat(p)
  BY <1>0, <1>1, <1>6 DEF Stat, Goto
<1>7. CASE Truncate(p)
  <2>1. Len(file') = target[p]
    BY <1>0, <1>7, ResizedFacts DEF Truncate
  <2> QED
    BY <1>0, <1>1, <1>7, <2>1 DEF Truncate, Goto
<1>8. CASE Map(p) \/ GrowFails(p)
  BY <1>0, <1>1, <1>8 DEF Map, GrowFails, Goto
<1>9. CASE Copy(p) \/ Transfer(p)
  <2>1. Len(file') >= Len(file)
    BY <1>9, MovingKeepsPages
  <2>2. Len(file') \in Nat
    BY NextTypeInv DEF TypeInv, TypeOK
  <2> QED
    BY <1>0, <1>1, <1>9, <2>1, <2>2 DEF Copy, Transfer
<1>10. CASE EndOfFile(p) \/ TransferFails(p) \/ Done(p) \/ Crash(p) \/ BusError(p)
  BY <1>0, <1>1, <1>10
     DEF EndOfFile, TransferFails, Done, Return, Crash, BusError, Dies, Leave, Goto
<1>11. CASE MunmapFile(p)
  BY <1>0, <1>1, <1>11 DEF MunmapFile
<1> QED
  BY <1>3, <1>4, <1>5, <1>6, <1>7, <1>8, <1>9, <1>10, <1>11 DEF Next, Step

(* The mapping of a process that has the file to itself lies within the    *)
(* file, for all sizes and whatever calls fail: memcpy meets no SIGBUS     *)
(* (MMapFile::map_file, remap_file and ensure_file_size).                  *)
THEOREM AloneWithinFile ==
  ASSUME NEW p, Procs = {p}
  PROVE  Spec => []MappedWithinFile
<1> DEFINE Inv == TypeInv /\ GrowthInv
<1>1. Init => Inv
  <2>1. Init => GrowthInv
    BY DEF Init, GrowthInv, MappedWithinFile, Ensured, TooShort
  <2> QED
    BY <2>1, InitTypeInv
<1>2. Inv /\ [Next]_vars => Inv'
  BY NextTypeInv, NextGrowthInv
<1>3. Inv => MappedWithinFile
  BY DEF GrowthInv
<1> QED
  BY <1>1, <1>2, <1>3, PTL DEF Spec

(* Nor does it ever make the file shorter: between fstat and ftruncate     *)
(* nobody else has made it longer (MMapFile::ensure_file_size).            *)
THEOREM AloneNeverShrinks ==
  ASSUME NEW p, Procs = {p}
  PROVE  Spec => FileNeverShrinks
<1> DEFINE Inv == TypeInv /\ GrowthInv
<1>1. Init => Inv
  <2>1. Init => GrowthInv
    BY DEF Init, GrowthInv, MappedWithinFile, Ensured, TooShort
  <2> QED
    BY <2>1, InitTypeInv
<1>2. Inv /\ [Next]_vars => Inv'
  BY NextTypeInv, NextGrowthInv
<1>3. Inv /\ [Next]_vars => [Len(file') >= Len(file)]_vars
  BY NextKeepsPages DEF GrowthInv
<1> QED
  BY <1>1, <1>2, <1>3, PTL DEF Spec, FileNeverShrinks

-----------------------------------------------------------------------------
(* A mapped file is a file of bytes to a process that has it to itself *)

(* What a process knows of its transfer: whether there is one, and that it *)
(* ends where a transfer may. *)
InTransfer(p) ==
  \/ pc[p] \in {"remap", "copy", "transfer"}
  \/ pc[p] \in {"stat", "truncate", "map"} /\ mapped[p]

CallKnown(p) ==
  /\ call[p].op # "none" <=> InTransfer(p)
  /\ call[p].op = "none" => call[p] = NoCall /\ buf[p] = << >> /\ moved[p] = 0
  /\ call[p].op # "none" => End(p) <= MaxEnd
  /\ remaps[p] # 0 => mapped[p] /\ InTransfer(p)

CallInv == buf \in [Procs -> Seq(Page)] /\ \A p \in Procs : CallKnown(p)

LEMMA InitCallInv == Init => CallInv
<1> SUFFICES ASSUME Init PROVE CallInv  OBVIOUS
<1>1. buf \in [Procs -> Seq(Page)]  BY PageFacts DEF Init
<1>2. \A p \in Procs : remaps[p] = 0  BY DEF Init
<1>3. \A p \in Procs : CallKnown(p)  BY <1>2 DEF Init, CallKnown, InTransfer, NoCall
<1> QED  BY <1>1, <1>3 DEF CallInv

(* A process changes nothing that belongs to another one. *)
LEMMA OthersKept ==
  ASSUME TypeInv, CallInv, NEW p \in Procs, NEW q \in Procs, q # p,
         \/ MmapFile(p) \/ PreadFile(p) \/ PwriteFile(p) \/ MunmapFile(p) \/ Step(p) \/ Crash(p)
  PROVE  /\ pc'[q] = pc[q] /\ mapped'[q] = mapped[q] /\ call'[q] = call[q]
         /\ buf'[q] = buf[q] /\ moved'[q] = moved[q] /\ remaps'[q] = remaps[q]
<1>1. /\ DOMAIN pc = Procs /\ DOMAIN mapped = Procs /\ DOMAIN call = Procs
      /\ DOMAIN buf = Procs /\ DOMAIN moved = Procs /\ DOMAIN remaps = Procs
  BY DEF TypeInv, TypeOK, CallsTyped, CallInv
<1> QED
  BY <1>1
     DEF MmapFile, PreadFile, PwriteFile, Begin, MunmapFile, Step, RemapFile, Stat, Truncate, Map,
         GrowFails, Route, Copy, Transfer, EndOfFile, TransferFails, Done, BusError, Crash, Dies,
         Return, Leave, Goto, transfer

(* A transfer begins with what its caller may ask for. *)
LEMMA BeginKnown ==
  ASSUME NEW p \in Procs, PreadFile(p) \/ PwriteFile(p)
  PROVE  \E op \in {"read", "write"}, offset \in Nat, data \in Seq(Page) :
           Begin(p, op, offset, data) /\ offset + Len(data) <= MaxEnd
<1> USE MappedBoundsAssumption
<1>1. CASE PreadFile(p)
  <2>1. PICK offset \in 0 .. MaxEnd, n \in 1 .. MaxLength :
          offset + n <= MaxEnd /\ Begin(p, "read", offset, [i \in 1 .. n |-> Zero])
    BY <1>1 DEF PreadFile
  <2>2. [i \in 1 .. n |-> Zero] \in Seq(Page) /\ Len([i \in 1 .. n |-> Zero]) = n
    BY PageFacts
  <2> QED  BY <2>1, <2>2
<1>2. CASE PwriteFile(p)
  <2>1. PICK offset \in 0 .. MaxEnd, n \in 1 .. MaxLength, b \in Bytes :
          offset + n <= MaxEnd /\ Begin(p, "write", offset, Data(b, n))
    BY <1>2 DEF PwriteFile
  <2>2. Data(b, n) \in Seq(Page) /\ Len(Data(b, n)) = n  BY PageFacts
  <2> QED  BY <2>1, <2>2
<1> QED  BY <1>1, <1>2

LEMMA NextCallInv ==
  ASSUME TypeInv, CallInv, [Next]_vars
  PROVE  CallInv'
<1> USE OptionAssumption, MappedBoundsAssumption
<1>1. CASE UNCHANGED vars
  BY <1>1 DEF vars, CallInv, CallKnown, InTransfer, End, Length
<1>2. ASSUME NEW p \in Procs,
             \/ MmapFile(p) \/ PreadFile(p) \/ PwriteFile(p) \/ MunmapFile(p) \/ Step(p) \/ Crash(p)
      PROVE  CallInv'
  <2>0. /\ pc \in [Procs -> {"ready", "remap", "stat", "truncate", "map", "copy", "transfer"}]
        /\ mapped \in [Procs -> BOOLEAN] /\ buf \in [Procs -> Seq(Page)]
        /\ call \in [Procs -> [op : {"none", "read", "write"}, offset : Nat, data : Seq(Page)]]
        /\ moved \in [Procs -> 0 .. MaxLength] /\ file \in Seq(Page)
        /\ remaps \in [Procs -> 0 .. 2] /\ CallKnown(p)
    BY DEF TypeInv, TypeOK, CallsTyped, CallInv
  <2>1. ASSUME NEW q \in Procs, q # p PROVE CallKnown(q)'
    <3>1. CallKnown(q)  BY DEF CallInv
    <3>2. /\ pc'[q] = pc[q] /\ mapped'[q] = mapped[q] /\ call'[q] = call[q]
          /\ buf'[q] = buf[q] /\ moved'[q] = moved[q] /\ remaps'[q] = remaps[q]
      BY <1>2, <2>1, OthersKept
    <3> QED  BY <3>1, <3>2 DEF CallKnown, InTransfer, End, Length
  <2>2. CASE MmapFile(p) \/ RemapFile(p) \/ Stat(p) \/ Truncate(p) \/ Route(p) \/ MunmapFile(p)
    <3>1. UNCHANGED <<call, buf, moved>>
      BY <2>2 DEF MmapFile, RemapFile, Stat, Truncate, Route, MunmapFile, transfer
    <3>2. (InTransfer(p)' <=> InTransfer(p)) /\ (remaps'[p] # 0 => mapped'[p] /\ InTransfer(p)')
      <4>1. CASE MmapFile(p) \/ MunmapFile(p)
        <5>1. ~InTransfer(p)  BY <4>1 DEF MmapFile, MunmapFile, InTransfer
        <5>2. remaps' = remaps /\ remaps[p] = 0  BY <2>0, <4>1, <5>1 DEF MmapFile, MunmapFile, CallKnown
        <5>3. ~InTransfer(p)'  BY <2>0, <4>1 DEF MmapFile, MunmapFile, Goto, InTransfer
        <5> QED  BY <5>1, <5>2, <5>3
      <4>2. CASE RemapFile(p)
        <5>1. mapped[p] /\ mapped' = mapped /\ pc[p] = "remap"  BY <2>0, <4>2 DEF RemapFile, CallKnown
        <5>2. pc'[p] \in {"remap", "stat"}  BY <2>0, <4>2 DEF RemapFile, Goto
        <5> QED  BY <5>1, <5>2 DEF InTransfer
      <4>3. CASE Stat(p) \/ Truncate(p) \/ Route(p)
        <5>1. UNCHANGED <<mapped, remaps>>  BY <4>3 DEF Stat, Truncate, Route
        <5>2. \/ pc[p] \in {"stat", "truncate"} /\ pc'[p] \in {"truncate", "map"}
              \/ pc[p] = "remap" /\ pc'[p] \in {"copy", "transfer"}
          BY <2>0, <4>3 DEF Stat, Truncate, Route, Goto
        <5>3. InTransfer(p)' <=> InTransfer(p)  BY <5>1, <5>2 DEF InTransfer
        <5> QED  BY <2>0, <5>1, <5>3 DEF CallKnown
      <4> QED  BY <2>2, <4>1, <4>2, <4>3
    <3>3. CallKnown(p)'  BY <2>0, <3>1, <3>2 DEF CallKnown, End, Length
    <3> QED  BY <2>0, <2>1, <3>1, <3>3 DEF CallInv
  <2>3. CASE Map(p) \/ GrowFails(p)
    <3>1. UNCHANGED <<call, buf, moved>>  BY <2>3 DEF Map, GrowFails, transfer
    <3>2. InTransfer(p)' <=> InTransfer(p)
      <4>1. pc[p] \in {"stat", "truncate", "map"}  BY <2>3 DEF Map, GrowFails
      <4>2. CASE mapped[p]
        <5>1. pc'[p] = "remap"  BY <2>0, <2>3, <4>2 DEF Map, GrowFails, Goto
        <5> QED  BY <4>1, <4>2, <5>1 DEF InTransfer
      <4>3. CASE ~mapped[p]
        <5>1. pc'[p] = "ready"  BY <2>0, <2>3, <4>3 DEF Map, GrowFails, Goto
        <5> QED  BY <4>1, <4>3, <5>1 DEF InTransfer
      <4> QED  BY <4>2, <4>3
    <3>3. remaps' = remaps /\ (mapped[p] => mapped'[p])  BY <2>0, <2>3 DEF Map, GrowFails
    <3>4. CallKnown(p)'  BY <2>0, <3>1, <3>2, <3>3 DEF CallKnown, End, Length
    <3> QED  BY <2>0, <2>1, <3>1, <3>4 DEF CallInv
  <2>4. CASE PreadFile(p) \/ PwriteFile(p)
    <3>1. PICK op \in {"read", "write"}, offset \in Nat, data \in Seq(Page) :
            Begin(p, op, offset, data) /\ offset + Len(data) <= MaxEnd
      BY <2>4, BeginKnown
    <3>2. /\ call'[p] = [op |-> op, offset |-> offset, data |-> data] /\ pc'[p] = "remap"
          /\ UNCHANGED <<buf, mapped>> /\ (remaps'[p] # 0 => mapped[p])
      BY <2>0, <3>1 DEF Begin, Goto
    <3>3. CallKnown(p)'  BY <3>1, <3>2 DEF CallKnown, InTransfer, End, Length
    <3> QED  BY <2>0, <2>1, <3>2, <3>3 DEF CallInv
  <2>5. CASE Copy(p) \/ Transfer(p)
    <3>1. UNCHANGED <<call, pc, mapped, remaps>> /\ pc[p] \in {"copy", "transfer"}
      BY <2>5 DEF Copy, Transfer
    <3>2. CallKnown(p)'  BY <2>0, <3>1 DEF CallKnown, InTransfer, End, Length
    <3>3. buf' \in [Procs -> Seq(Page)]
      <4>1. CASE buf' = buf  BY <2>0, <4>1
      <4>2. CASE Place(p) < Len(file) /\ buf' = [buf EXCEPT ![p] = Append(@, file[Place(p) + 1])]
        <5>1. Place(p) + 1 \in 1 .. Len(file)  BY <2>0, <4>2 DEF Place
        <5>2. file[Place(p) + 1] \in Page  BY <2>0, <5>1
        <5>3. Append(buf[p], file[Place(p) + 1]) \in Seq(Page)  BY <2>0, <5>2
        <5> QED  BY <2>0, <4>2, <5>3
      <4> QED  BY <2>5, <4>1, <4>2 DEF Copy, Transfer
    <3> QED  BY <2>1, <3>2, <3>3 DEF CallInv
  <2>6. CASE EndOfFile(p) \/ TransferFails(p) \/ Done(p) \/ BusError(p) \/ Crash(p)
    <3>1. Leave(p)  BY <2>6 DEF EndOfFile, TransferFails, Done, Return, BusError, Crash, Dies
    <3>2. /\ pc'[p] = "ready" /\ call'[p] = NoCall /\ buf'[p] = << >> /\ moved'[p] = 0
          /\ remaps'[p] = 0
      BY <2>0, <3>1 DEF Leave, Goto
    <3>3. CallKnown(p)'  BY <3>2 DEF CallKnown, InTransfer, NoCall
    <3>4. buf' \in [Procs -> Seq(Page)]  BY <2>0, <3>1, PageFacts DEF Leave
    <3> QED  BY <2>1, <3>3, <3>4 DEF CallInv
  <2> QED  BY <1>2, <2>2, <2>3, <2>4, <2>5, <2>6 DEF Step
<1> QED  BY <1>1, <1>2 DEF Next

-----------------------------------------------------------------------------
(* What a caller sees of the file changes only when a page moves. *)

PagesAt == 0 .. MaxEnd + max_map_size_

(* Making the file longer is not seen. *)
LEMMA GrowingUnseen ==
  ASSUME NEW f \in Seq(Page), NEW n \in Nat, Len(f) <= n, NEW i \in Nat
  PROVE  (IF i < n THEN Resized(f, n)[i + 1] ELSE Zero) = (IF i < Len(f) THEN f[i + 1] ELSE Zero)
<1>1. Len(f) \in Nat  OBVIOUS
<1>2. CASE i < n
  <2>1. i + 1 \in 1 .. n  BY <1>2
  <2>2. Resized(f, n)[i + 1] = IF i + 1 <= Len(f) THEN f[i + 1] ELSE Zero  BY <2>1 DEF Resized
  <2> QED  BY <1>1, <1>2, <2>2
<1>3. CASE ~(i < n)  BY <1>1, <1>3
<1> QED  BY <1>2, <1>3

(* A page that is written is seen at its place, and changes no other. *)
LEMMA StoringSeen ==
  ASSUME NEW f \in Seq(Page), NEW k \in Nat, NEW x \in Page, NEW i \in Nat,
         NEW g, g = Stored(f, k, x) \/ (k < Len(f) /\ g = [f EXCEPT ![k + 1] = x])
  PROVE  (IF i < Len(g) THEN g[i + 1] ELSE Zero) =
           IF i = k THEN x ELSE IF i < Len(f) THEN f[i + 1] ELSE Zero
<1>1. Len(f) \in Nat  OBVIOUS
<1> DEFINE n == IF k < Len(f) THEN Len(f) ELSE k + 1
<1>2. n \in Nat /\ n >= Len(f) /\ n >= k + 1 /\ (n = Len(f) \/ n = k + 1)  BY <1>1
<1> HIDE DEF n
<1>3. Len(g) = n /\ \A j \in 1 .. n : g[j] = IF j = k + 1 THEN x ELSE IF j <= Len(f) THEN f[j] ELSE Zero
  <2>1. CASE g = Stored(f, k, x)
    <3> DEFINE at(j) == IF j = k + 1 THEN x ELSE IF j <= Len(f) THEN f[j] ELSE Zero
    <3>1. g = [j \in 1 .. n |-> at(j)]  BY <2>1 DEF Stored, n
    <3> HIDE DEF at
    <3>2. Len(g) = n /\ \A j \in 1 .. n : g[j] = at(j)  BY <1>2, <3>1
    <3> QED  BY <3>2 DEF at
  <2>2. CASE k < Len(f) /\ g = [f EXCEPT ![k + 1] = x]
    <3>1. n = Len(f)  BY <2>2 DEF n
    <3>2. Len(g) = Len(f) /\ \A j \in 1 .. Len(f) : g[j] = IF j = k + 1 THEN x ELSE f[j]
      BY <1>1, <2>2, ExceptSeq
    <3> QED  BY <3>1, <3>2
  <2> QED  BY <2>1, <2>2
<1>4. CASE i < n
  <2>1. i + 1 \in 1 .. n  BY <1>2, <1>4
  <2>2. g[i + 1] = IF i + 1 = k + 1 THEN x ELSE IF i + 1 <= Len(f) THEN f[i + 1] ELSE Zero
    BY <1>3, <2>1
  <2> QED  BY <1>1, <1>3, <1>4, <2>2
<1>5. CASE ~(i < n)  BY <1>1, <1>2, <1>3, <1>5
<1> QED  BY <1>4, <1>5

(* A step of a transfer, or of the growing that goes before it, seen from  *)
(* outside.                                                                *)
LEMMA StepSeen ==
  ASSUME TypeInv, CallInv, TooShort, NEW p \in Procs,
         \/ MmapFile(p) \/ PreadFile(p) \/ PwriteFile(p) \/ MunmapFile(p) \/ Step(p) \/ Crash(p)
  PROVE  Abstract!Next \/ UNCHANGED Abstract!vars
<1> USE OptionAssumption, MappedBoundsAssumption
<1>1. /\ pc \in [Procs -> {"ready", "remap", "stat", "truncate", "map", "copy", "transfer"}]
      /\ buf \in [Procs -> Seq(Page)] /\ file \in Seq(Page) /\ Len(file) \in Nat
      /\ call \in [Procs -> [op : {"none", "read", "write"}, offset : Nat, data : Seq(Page)]]
      /\ moved \in [Procs -> 0 .. MaxLength] /\ moved[p] <= Length(p)
      /\ CallKnown(p)
  BY DEF TypeInv, TypeOK, CallsTyped, CallInv
<1>2. CASE MmapFile(p) \/ MunmapFile(p) \/ RemapFile(p) \/ Stat(p) \/ Map(p) \/ GrowFails(p) \/ Route(p)
  <2>1. UNCHANGED <<file, transfer>>
    BY <1>2 DEF MmapFile, MunmapFile, RemapFile, Stat, Map, GrowFails, Route
  <2>2. Contents' = Contents  BY <2>1 DEF Contents
  <2> QED  BY <2>1, <2>2 DEF Abstract!vars, transfer
<1>3. CASE Truncate(p)
  <2>1. Len(file) <= target[p] /\ target[p] \in Nat
    BY <1>1, <1>3 DEF Truncate, TooShort, TypeInv, TypeOK
  <2>2. file' = Resized(file, target[p]) /\ Len(file') = target[p]
    BY <1>1, <1>3, <2>1, ResizedFacts DEF Truncate
  <2>3. \A i \in Nat : (IF i < Len(file') THEN file'[i + 1] ELSE Zero)
                         = (IF i < Len(file) THEN file[i + 1] ELSE Zero)
    BY <1>1, <2>1, <2>2, GrowingUnseen
  <2>4. \A i \in PagesAt : i \in Nat  BY DEF PagesAt
  <2>5. Contents' = Contents  BY <2>3, <2>4 DEF Contents, PagesAt
  <2> QED  BY <1>3, <2>5 DEF Truncate, Abstract!vars, transfer
<1>4. CASE PreadFile(p) \/ PwriteFile(p)
  <2>1. PICK op \in {"read", "write"}, offset \in Nat, data \in Seq(Page) : Begin(p, op, offset, data)
    BY <1>4, BeginKnown
  <2>2. call[p] = NoCall  BY <1>1, <2>1 DEF Begin, CallKnown, InTransfer
  <2>3. Contents' = Contents  BY <2>1 DEF Begin, Contents
  <2>4. Abstract!Begin(p)
    BY <1>1, <2>1, <2>2, <2>3 DEF Begin, Abstract!Begin, Abstract!NoCall, NoCall
  <2> QED  BY <2>4 DEF Abstract!Next
<1>5. CASE Copy(p) \/ Transfer(p)
  <2> DEFINE k == Place(p)
             x == call[p].data[moved[p] + 1]
  <2>1. moved[p] < Length(p) /\ pc[p] \in {"copy", "transfer"} /\ UNCHANGED <<call, ret>>
        /\ moved' = [moved EXCEPT ![p] = @ + 1]
    BY <1>5 DEF Copy, Transfer
  <2>2. End(p) <= MaxEnd  BY <1>1, <2>1 DEF CallKnown, InTransfer
  <2>3. k \in Nat /\ k \in PagesAt /\ x \in Page
    BY <1>1, <2>1, <2>2 DEF Place, PagesAt, End, Length
  <2>4. CASE call[p].op = "write"
    <3>1. /\ buf' = buf
          /\ file' = Stored(file, k, x) \/ (k < Len(file) /\ file' = [file EXCEPT ![k + 1] = x])
      BY <1>5, <2>4 DEF Copy, Transfer
    <3> HIDE DEF k, x
    <3>2. \A i \in Nat : (IF i < Len(file') THEN file'[i + 1] ELSE Zero) =
                           IF i = k THEN x ELSE IF i < Len(file) THEN file[i + 1] ELSE Zero
      BY <1>1, <2>3, <3>1, StoringSeen
    <3>3. \A i \in PagesAt : i \in Nat  BY DEF PagesAt
    <3>4. Contents' = [Contents EXCEPT ![k] = x]
      BY <2>3, <3>2, <3>3 DEF Contents, PagesAt
    <3>5. Abstract!Move(p)
      BY <2>1, <2>4, <3>1, <3>4
         DEF Abstract!Move, Abstract!Left, Abstract!Place, k, x, Place, Length
    <3> QED  BY <3>5 DEF Abstract!Next
  <2>5. CASE call[p].op = "read"
    <3>1. file' = file /\ k < Len(file) /\ buf' = [buf EXCEPT ![p] = Append(@, file[k + 1])]
      BY <1>5, <2>5 DEF Copy, Transfer
    <3>2. Contents' = Contents  BY <3>1 DEF Contents
    <3>3. Contents[k] = file[k + 1]
      <4> HIDE DEF k
      <4> QED  BY <2>3, <3>1 DEF Contents, PagesAt
    <3>4. Abstract!Move(p)
      BY <2>1, <2>5, <3>1, <3>2, <3>3 DEF Abstract!Move, Abstract!Left, Abstract!Place, Place, Length
    <3> QED  BY <3>4 DEF Abstract!Next
  <2> QED  BY <1>1, <2>1, <2>4, <2>5 DEF CallKnown, InTransfer
<1>6. CASE EndOfFile(p) \/ TransferFails(p) \/ Done(p)
  <2>1. PICK status \in {"TFS_SUCCESS", "error"} :
          Return(p, status) /\ (status = "TFS_SUCCESS" => moved[p] = Length(p))
    BY <1>6 DEF EndOfFile, TransferFails, Done
  <2>2. call[p] # NoCall
    BY <1>1, <1>6 DEF EndOfFile, TransferFails, Done, CallKnown, InTransfer, NoCall
  <2>3. file' = file  BY <1>6 DEF EndOfFile, TransferFails, Done
  <2>4. Contents' = Contents  BY <2>3 DEF Contents
  <2>5. status = "TFS_SUCCESS" => ~(moved[p] < Len(call[p].data))  BY <1>1, <2>1 DEF Length
  <2>6. Abstract!Return(p)
    BY <2>1, <2>2, <2>4, <2>5
       DEF Return, Leave, Abstract!Return, Abstract!Leave, Abstract!Left, Abstract!NoCall, NoCall
  <2> QED  BY <2>6 DEF Abstract!Next
<1>7. CASE Crash(p) \/ BusError(p)
  <2>1. Leave(p) /\ file' = file /\ ret' = ret  BY <1>7 DEF Crash, BusError, Dies
  <2>2. Contents' = Contents  BY <2>1 DEF Contents
  <2>3. CASE call[p] # NoCall
    <3>1. Abstract!Die(p)
      BY <2>1, <2>2, <2>3 DEF Leave, Abstract!Die, Abstract!Leave, Abstract!NoCall, NoCall
    <3> QED  BY <3>1 DEF Abstract!Next
  <2>4. CASE call[p] = NoCall
    <3>1. buf[p] = << >> /\ moved[p] = 0  BY <1>1, <2>4 DEF CallKnown, NoCall
    <3>2. UNCHANGED <<call, buf, moved>>
      <4>1. call' = call  BY <1>1, <2>1, <2>4 DEF Leave
      <4>2. buf' = buf  BY <1>1, <2>1, <3>1 DEF Leave
      <4>3. moved' = moved  BY <1>1, <2>1, <3>1 DEF Leave
      <4> QED  BY <4>1, <4>2, <4>3
    <3> QED  BY <2>1, <2>2, <3>2 DEF Abstract!vars
  <2> QED  BY <2>3, <2>4
<1> QED  BY <1>2, <1>3, <1>4, <1>5, <1>6, <1>7 DEF Step

(* To a process that has the file to itself the mapping cannot be told     *)
(* from outside: MMapFileOperation::pread_file returns what pwrite_file    *)
(* stored, or zeros, whichever way either went and whatever calls failed.  *)
THEOREM AloneImplementsByteFile ==
  ASSUME NEW p, Procs = {p}
  PROVE  Spec => ImplementsByteFile
<1> DEFINE Inv == TypeInv /\ GrowthInv /\ CallInv
<1>1. Init => Inv
  <2>1. Init => GrowthInv
    BY DEF Init, GrowthInv, MappedWithinFile, Ensured, TooShort
  <2> QED
    BY <2>1, InitTypeInv, InitCallInv
<1>2. Inv /\ [Next]_vars => Inv'
  BY NextTypeInv, NextGrowthInv, NextCallInv
<1>3. Init => Abstract!Init
  BY DEF Init, Abstract!Init, Abstract!NoCall, NoCall, Contents
<1>4. Inv /\ [Next]_vars => [Abstract!Next]_(Abstract!vars)
  <2> SUFFICES ASSUME Inv, [Next]_vars PROVE Abstract!Next \/ UNCHANGED Abstract!vars
    OBVIOUS
  <2>1. CASE UNCHANGED vars
    BY <2>1 DEF vars, Abstract!vars, Contents
  <2>2. CASE Next
    BY <2>2, StepSeen DEF Next, GrowthInv
  <2> QED
    BY <2>1, <2>2
<1> QED
  BY <1>1, <1>2, <1>3, <1>4, PTL DEF Spec, ImplementsByteFile, Abstract!Spec

-----------------------------------------------------------------------------
(* How long a transfer takes *)

(* Pages yet to be moved, and the return.                                  *)
ToMove(p) == Length(p) - moved[p] + 1

(* Steps of the calls of remap_file yet to be made, and the choice of the  *)
(* way of the transfer.                                                    *)
ToGrow(p) == 4 * remaps[p] + 1

(* The steps process p has yet to make in its call, at most.               *)
StepsLeft(p) ==
  CASE pc[p] = "ready" -> 0
    [] pc[p] = "stat" -> 3 + ToGrow(p) + ToMove(p)
    [] pc[p] = "truncate" -> 2 + ToGrow(p) + ToMove(p)
    [] pc[p] = "map" -> 1 + ToGrow(p) + ToMove(p)
    [] pc[p] = "remap" -> ToGrow(p) + ToMove(p)
    [] pc[p] \in {"copy", "transfer"} -> ToMove(p)

(* Both parts are positive and bounded.                                    *)
LEMMA StepsBounded ==
  ASSUME TypeInv, NEW p \in Procs
  PROVE  /\ ToMove(p) \in 1 .. MaxLength + 1 /\ ToGrow(p) \in 1 .. 9
         /\ StepsLeft(p) \in 0 .. MaxLength + 13
         /\ pc[p] # "ready" => StepsLeft(p) >= 1
<1>1. /\ MaxLength \in Nat /\ moved[p] \in Nat /\ remaps[p] \in 0 .. 2
      /\ Length(p) \in Nat /\ moved[p] <= Length(p) /\ Length(p) <= MaxLength
      /\ pc[p] \in {"ready", "remap", "stat", "truncate", "map", "copy", "transfer"}
  BY MappedBoundsAssumption DEF TypeInv, TypeOK, CallsTyped, Length
<1>2. ToMove(p) \in 1 .. MaxLength + 1 /\ ToGrow(p) \in 1 .. 9
  BY <1>1 DEF ToMove, ToGrow
<1> QED
  BY <1>1, <1>2 DEF StepsLeft

(* Whoever returns or dies has nothing left to do.                         *)
LEMMA LeftNothing ==
  ASSUME TypeInv, NEW p \in Procs, pc[p] # "ready", pc' = [pc EXCEPT ![p] = "ready"]
  PROVE  StepsLeft(p)' < StepsLeft(p)
<1>1. pc'[p] = "ready"
  BY DEF TypeInv, TypeOK
<1>2. StepsLeft(p)' = 0
  BY <1>1 DEF StepsLeft
<1> QED
  BY <1>2, StepsBounded

(* Growing, and each page moved, brings a call nearer to its end.          *)
LEMMA OwnStepNearer ==
  ASSUME TypeInv, NEW p \in Procs, Step(p)
  PROVE  StepsLeft(p)' < StepsLeft(p)
<1>0. /\ pc \in [Procs -> {"ready", "remap", "stat", "truncate", "map", "copy", "transfer"}]
      /\ remaps \in [Procs -> 0 .. 2] /\ moved \in [Procs -> 0 .. MaxLength] /\ MaxLength \in Nat
      /\ ToMove(p) \in 1 .. MaxLength + 1 /\ ToGrow(p) \in 1 .. 9
      /\ Length(p) \in Nat
  <2>1. ToMove(p) \in 1 .. MaxLength + 1 /\ ToGrow(p) \in 1 .. 9
    BY StepsBounded
  <2>2. Length(p) \in Nat
    BY DEF TypeInv, CallsTyped, Length
  <2> QED
    BY <2>1, <2>2, MappedBoundsAssumption DEF TypeInv, TypeOK
<1>1. CASE RemapFile(p)
  <2>1. /\ pc[p] = "remap" /\ remaps[p] > 0 /\ remaps'[p] = remaps[p] - 1
        /\ pc'[p] = "remap" \/ pc'[p] = "stat"
        /\ call' = call /\ moved' = moved
    BY <1>0, <1>1 DEF RemapFile, Goto, transfer
  <2>2. ToMove(p)' = ToMove(p) /\ ToGrow(p)' = ToGrow(p) - 4
    <3>1. ToMove(p)' = ToMove(p)
      BY <2>1 DEF ToMove, Length
    <3>2. remaps[p] \in Int /\ ToGrow(p) = 4 * remaps[p] + 1 /\ ToGrow(p)' = 4 * (remaps[p] - 1) + 1
      BY <1>0, <2>1 DEF ToGrow
    <3> QED
      BY <3>1, <3>2
  <2>3. StepsLeft(p) = ToGrow(p) + ToMove(p)
    BY <2>1 DEF StepsLeft
  <2>4. StepsLeft(p)' = ToGrow(p)' + ToMove(p)' \/ StepsLeft(p)' = 3 + ToGrow(p)' + ToMove(p)'
    BY <2>1 DEF StepsLeft
  <2> QED
    BY <1>0, <2>2, <2>3, <2>4
<1>2. CASE Stat(p) \/ Truncate(p) \/ Map(p) \/ GrowFails(p) \/ Route(p)
  <2>1. /\ \/ pc[p] = "stat" /\ pc'[p] \in {"truncate", "map"}
           \/ pc[p] = "truncate" /\ pc'[p] = "map"
           \/ pc[p] \in {"stat", "truncate", "map"} /\ pc'[p] \in {"remap", "ready"}
           \/ pc[p] = "remap" /\ pc'[p] \in {"copy", "transfer"}
        /\ call' = call /\ moved' = moved /\ remaps' = remaps
    BY <1>0, <1>2 DEF Stat, Truncate, Map, GrowFails, Route, Goto, transfer
  <2>2. ToMove(p)' = ToMove(p) /\ ToGrow(p)' = ToGrow(p)
    BY <2>1 DEF ToMove, ToGrow, Length
  <2> QED
    BY <1>0, <2>1, <2>2 DEF StepsLeft
<1>3. CASE Copy(p) \/ Transfer(p)
  <2>1. /\ pc[p] \in {"copy", "transfer"} /\ pc' = pc
        /\ call' = call /\ moved'[p] = moved[p] + 1
    BY <1>0, <1>3 DEF Copy, Transfer
  <2>2. ToMove(p)' = ToMove(p) - 1
    BY <1>0, <2>1 DEF ToMove, Length
  <2>3. StepsLeft(p) = ToMove(p) /\ StepsLeft(p)' = ToMove(p)'
    BY <2>1 DEF StepsLeft
  <2> QED
    BY <1>0, <2>2, <2>3
<1>4. CASE EndOfFile(p) \/ TransferFails(p) \/ Done(p) \/ BusError(p)
  <2>1. pc[p] # "ready" /\ pc' = [pc EXCEPT ![p] = "ready"]
    BY <1>4 DEF EndOfFile, TransferFails, Done, BusError, Return, Dies, Leave, Goto
  <2> QED
    BY <2>1, LeftNothing
<1> QED
  BY <1>1, <1>2, <1>3, <1>4 DEF Step

(* What a process has left to do is no matter of the others.               *)
LEMMA OtherStepUnfelt ==
  ASSUME TypeInv, NEW p \in Procs, NEW q \in Procs, p # q,
         MmapFile(q) \/ PreadFile(q) \/ PwriteFile(q) \/ MunmapFile(q) \/ Step(q) \/ Crash(q)
  PROVE  StepsLeft(p)' = StepsLeft(p)
<1>1. DOMAIN pc = Procs /\ DOMAIN remaps = Procs /\ DOMAIN moved = Procs /\ DOMAIN call = Procs
  BY DEF TypeInv, TypeOK, CallsTyped
<1>2. pc'[p] = pc[p] /\ remaps'[p] = remaps[p] /\ moved'[p] = moved[p] /\ call'[p] = call[p]
  BY <1>1 DEF MmapFile, PreadFile, PwriteFile, Begin, MunmapFile, Step, Crash, RemapFile, Stat, Truncate,
    Map, GrowFails, Route, Copy, Transfer, EndOfFile, TransferFails, Done, BusError, Dies, Return,
    Leave, Goto, transfer
<1> QED
  BY <1>2 DEF StepsLeft, ToMove, ToGrow, Length

(* A call has never more to do than to remap twice and to move its pages.  *)
THEOREM TransfersAreShort == Spec => [](\A p \in Procs : StepsLeft(p) \in 0 .. MaxLength + 13)
<1>1. Init => TypeInv
  BY InitTypeInv
<1>2. TypeInv /\ [Next]_vars => TypeInv'
  BY NextTypeInv
<1>3. TypeInv => \A p \in Procs : StepsLeft(p) \in 0 .. MaxLength + 13
  BY StepsBounded
<1> QED
  BY <1>1, <1>2, <1>3, PTL DEF Spec

(* Each step of a process in a call brings it nearer to its end, and no    *)
(* other process sets it back, whatever it does to file and mapping.       *)
THEOREM TransfersGoOn ==
  Spec => [][\A p \in Procs : /\ pc[p] # "ready" => StepsLeft(p)' <= StepsLeft(p)
                              /\ Step(p) => StepsLeft(p)' < StepsLeft(p)]_vars
<1>1. Init => TypeInv
  BY InitTypeInv
<1>2. TypeInv /\ [Next]_vars => TypeInv'
  BY NextTypeInv
<1>3. ASSUME TypeInv, Next, NEW p \in Procs
      PROVE  /\ pc[p] # "ready" => StepsLeft(p)' <= StepsLeft(p)
             /\ Step(p) => StepsLeft(p)' < StepsLeft(p)
  <2>1. CASE Step(p)
    <3>1. StepsLeft(p)' < StepsLeft(p)
      BY <1>3, <2>1, OwnStepNearer
    <3>2. TypeInv'
      BY <1>2, <1>3
    <3>3. StepsLeft(p) \in Int /\ StepsLeft(p)' \in Int
      <4>1. MaxLength \in Nat
        BY MappedBoundsAssumption
      <4>2. StepsLeft(p) \in 0 .. MaxLength + 13
        BY <1>3, StepsBounded
      <4>3. (StepsLeft(p) \in 0 .. MaxLength + 13)'
        BY <1>3, <3>2, StepsBounded, PTL
      <4> QED
        BY <4>1, <4>2, <4>3
    <3> QED
      BY <3>1, <3>3
  <2>2. CASE ~Step(p) /\ pc[p] # "ready"
    <3>1. PICK q \in Procs :
            MmapFile(q) \/ PreadFile(q) \/ PwriteFile(q) \/ MunmapFile(q) \/ Step(q) \/ Crash(q)
      BY <1>3 DEF Next
    <3>2. StepsLeft(p) \in Int
      BY <1>3, MappedBoundsAssumption, StepsBounded
    <3>3. CASE q = p
      <4>1. Crash(p)
        BY <2>2, <3>1, <3>3 DEF MmapFile, PreadFile, PwriteFile, Begin, MunmapFile
      <4>2. pc' = [pc EXCEPT ![p] = "ready"]
        BY <4>1 DEF Crash, Dies, Leave, Goto
      <4>3. StepsLeft(p)' = 0
        <5>1. pc'[p] = "ready"
          BY <1>3, <4>2 DEF TypeInv, TypeOK
        <5> QED
          BY <5>1 DEF StepsLeft
      <4>4. StepsLeft(p) \in 0 .. MaxLength + 13
        BY <1>3, StepsBounded
      <4> QED
        BY <2>2, <4>3, <4>4, MappedBoundsAssumption
    <3>4. CASE q # p
      <4>1. StepsLeft(p)' = StepsLeft(p)
        BY <1>3, <3>1, <3>4, OtherStepUnfelt
      <4> QED
        BY <2>2, <3>2, <4>1
    <3> QED
      BY <3>3, <3>4
  <2> QED
    BY <2>1, <2>2
<1>4. TypeInv /\ [Next]_vars
        => [\A p \in Procs : /\ pc[p] # "ready" => StepsLeft(p)' <= StepsLeft(p)
                             /\ Step(p) => StepsLeft(p)' < StepsLeft(p)]_vars
  BY <1>3
<1> QED
  BY <1>1, <1>2, <1>4, PTL DEF Spec
=============================================================================
