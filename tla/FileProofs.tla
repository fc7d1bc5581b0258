----------------------------- MODULE FileProofs -----------------------------
(***************************************************************************)
(* FileOperation keeps its promises for every length of transfer, file     *)
(* and number of attempts: what its loops have moved is in place after     *)
(* any mixture of short transfers, interrupts and reopenings.              *)
(***************************************************************************)
EXTENDS FileProperties, SequenceTheorems, TLAPS

(* What a call remembers, and what it has done so far. *)
CallOK ==
  /\ call \in [op : {"none", "pread", "pwrite", "write"}, nbytes : 0 .. MaxBytes, offset : Nat,
               before : Seq(Byte), reopened : BOOLEAN]
  /\ IF pc = "idle" THEN call = NoCall /\ moved = 0 ELSE call.op # "none"
  /\ pc = "transfer" => moved < call.nbytes /\ times > 0
  /\ times = 0 => moved = 0 /\ ~call.reopened
  /\ ~exists => file = << >> /\ fd = Closed

(* The rest of a write fits into the file, wherever its descriptor stands. *)
Room ==
  /\ call.op = "pwrite" => call.offset + call.nbytes <= MaxFileSize
  /\ call.op = "write" =>
       /\ call.nbytes <= MaxFileSize
       /\ IsOpen(fd) => opened[fd] + (call.nbytes - moved) <= MaxFileSize

(* A descriptor that was not opened in the middle of write_file stands     *)
(* behind the bytes it has written.                                        *)
StandsBehind ==
  call.op = "write" /\ ~call.reopened =>
    /\ IsOpen(fd) => opened[fd] = call.offset + moved
    /\ fd = Closed /\ times = 0 => call.offset = 0

InPlace == PwriteInPlace /\ WriteInPlace /\ PreadInPlace

(* The inductive invariant. *)
FileInv == TypeOK /\ CallOK /\ Room /\ StandsBehind /\ OneDescriptor /\ InPlace

-----------------------------------------------------------------------------
(* The bytes of the file *)

LEMMA BoundsInNat == MaxBytes \in Nat /\ MaxFileSize \in Nat /\ Descriptors \subseteq Nat
BY SizesAssumption, DescriptorsAssumption

(* The buffer of a caller, byte by byte.                                   *)
LEMMA PayloadElements ==
  ASSUME NEW n \in 0 .. MaxBytes
  PROVE  /\ Payload(n) \in Seq(Byte) /\ Len(Payload(n)) = n
         /\ \A i \in 1 .. n : Payload(n)[i] = i
         /\ n = 0 => Payload(n) = << >>
<1>1. n \in Nat /\ \A i \in 1 .. n : i \in Byte
  BY BoundsInNat DEF Byte
<1>2. Payload(n) \in Seq(Byte) /\ Len(Payload(n)) = n
  BY <1>1, IsASeq DEF Payload
<1> QED
  BY <1>1, <1>2, EmptySeq DEF Payload

(* The bytes of it that lie behind the first m.                            *)
IsPiece(s, m, len) == s \in Seq(Byte) /\ Len(s) = len /\ \A i \in 1 .. len : s[i] = m + i

(* What one system call moves of it.                                       *)
LEMMA PieceElements ==
  ASSUME NEW n \in 0 .. MaxBytes, NEW m \in Nat, NEW len \in Nat, m + len <= n
  PROVE  IsPiece(SubSeq(Payload(n), m + 1, m + len), m, len)
<1> DEFINE s == SubSeq(Payload(n), m + 1, m + len)
<1>1. n \in Nat /\ \A i \in m + 1 .. m + len : Payload(n)[i] = i /\ i \in Byte
  BY PayloadElements, BoundsInNat DEF Byte
<1>2. /\ s \in Seq(Byte)
      /\ Len(s) = IF m + 1 <= m + len THEN (m + len) - (m + 1) + 1 ELSE 0
      /\ \A i \in 1 .. (m + len) - (m + 1) + 1 : s[i] = Payload(n)[(m + 1) + i - 1]
  BY <1>1, SubSeqProperties
<1> HIDE DEF s
<1>3. Len(s) = len
  BY <1>2
<1>4. \A i \in 1 .. len : s[i] = m + i
  <2> TAKE i \in 1 .. len
  <2>1. s[i] = Payload(n)[(m + 1) + i - 1] /\ (m + 1) + i - 1 = m + i
    BY <1>2
  <2>2. m + i \in m + 1 .. m + len
    OBVIOUS
  <2> QED
    BY <2>1, <2>2, <1>1
<1> QED
  BY <1>2, <1>3, <1>4 DEF s, IsPiece

(* pwrite64 and write, byte by byte.                                       *)
LEMMA OverlayElements ==
  ASSUME NEW f \in Seq(Byte), NEW s \in Seq(Byte), NEW offset \in Nat, s # << >>
  PROVE  /\ Overlay(f, s, offset) \in Seq(Byte)
         /\ Len(Overlay(f, s, offset)) = Larger(Len(f), offset + Len(s))
         /\ \A i \in 1 .. Larger(Len(f), offset + Len(s)) :
              Overlay(f, s, offset)[i] =
                IF i \in offset + 1 .. offset + Len(s) THEN s[i - offset]
                ELSE IF i <= Len(f) THEN f[i] ELSE 0
<1> DEFINE n == Larger(Len(f), offset + Len(s))
           e(i) == IF i \in offset + 1 .. offset + Len(s) THEN s[i - offset]
                   ELSE IF i <= Len(f) THEN f[i] ELSE 0
<1>1. Len(f) \in Nat /\ Len(s) \in Nat /\ n \in Nat
  BY DEF Larger
<1>2. \A i \in 1 .. n : e(i) \in Byte
  <2> TAKE i \in 1 .. n
  <2>1. CASE i \in offset + 1 .. offset + Len(s)
    <3>1. i - offset \in 1 .. Len(s)
      BY <2>1, <1>1
    <3> QED
      BY <2>1, <3>1, ElementOfSeq
  <2>2. CASE i \notin offset + 1 .. offset + Len(s) /\ i <= Len(f)
    BY <2>2, <1>1, ElementOfSeq
  <2>3. CASE i \notin offset + 1 .. offset + Len(s) /\ ~(i <= Len(f))
    BY <2>3, BoundsInNat DEF Byte
  <2> QED
    BY <2>1, <2>2, <2>3
<1>3. Overlay(f, s, offset) = [i \in 1 .. n |-> e(i)]
  BY DEF Overlay
<1> HIDE DEF n, e
<1>4. Overlay(f, s, offset) \in Seq(Byte) /\ Len(Overlay(f, s, offset)) = n
  BY <1>1, <1>2, <1>3, IsASeq
<1> QED
  BY <1>3, <1>4 DEF n, e

(* A transfer in pieces writes what a transfer in one piece would have.    *)
LEMMA OverlayMore ==
  ASSUME NEW f \in Seq(Byte), NEW m \in Nat, NEW len \in Nat, NEW n \in 0 .. MaxBytes,
         n = m + len, NEW s, IsPiece(s, m, len), NEW offset \in Nat, NEW at, at = offset + m
  PROVE  Overlay(Overlay(f, Payload(m), offset), s, at) = Overlay(f, Payload(n), offset)
<1> DEFINE p == Payload(m)
           q == Payload(m + len)
           g == Overlay(f, p, offset)
           h == Overlay(g, s, offset + m)
           k == Overlay(f, q, offset)
<1>1. /\ s \in Seq(Byte) /\ Len(s) = len /\ \A i \in 1 .. len : s[i] = m + i
      /\ len = 0 => s = << >>
  BY EmptySeq DEF IsPiece
<1>2. m \in 0 .. MaxBytes /\ m + len \in 0 .. MaxBytes /\ Len(f) \in Nat
  BY BoundsInNat
<1>3. p \in Seq(Byte) /\ Len(p) = m /\ (\A i \in 1 .. m : p[i] = i) /\ (m = 0 => p = << >>)
  BY <1>2, PayloadElements
<1>4. q \in Seq(Byte) /\ Len(q) = m + len /\ \A i \in 1 .. m + len : q[i] = i
  BY <1>2, PayloadElements
<1> HIDE DEF p, q
<1>5. CASE len = 0
  BY <1>1, <1>5 DEF Overlay, q, p
<1>6. CASE len # 0 /\ m = 0
  <2>1. g = f
    BY <1>3, <1>6 DEF Overlay
  <2>2. s = q
    <3>1. Len(s) = Len(q) /\ \A i \in 1 .. Len(s) : s[i] = q[i]
      BY <1>1, <1>4, <1>6
    <3> QED
      BY <3>1, <1>1, <1>4, SeqEqual
  <2>3. h = Overlay(f, q, offset)
    <3>1. offset + m = offset
      BY <1>6
    <3> HIDE DEF g
    <3> QED
      BY <2>1, <2>2, <3>1
  <2> QED
    BY <2>3 DEF q, p
<1>7. CASE len # 0 /\ m # 0
  <2>1. p # << >> /\ s # << >> /\ q # << >>
    BY <1>1, <1>3, <1>4, <1>7
  <2>2. /\ g \in Seq(Byte) /\ Len(g) = Larger(Len(f), offset + m)
        /\ \A i \in 1 .. Larger(Len(f), offset + m) :
             g[i] = IF i \in offset + 1 .. offset + m THEN p[i - offset]
                    ELSE IF i <= Len(f) THEN f[i] ELSE 0
    BY ZenonT(30), <2>1, <1>3, OverlayElements
  <2> HIDE DEF g
  <2>3. /\ h \in Seq(Byte) /\ Len(h) = Larger(Len(g), (offset + m) + len)
        /\ \A i \in 1 .. Larger(Len(g), (offset + m) + len) :
             h[i] = IF i \in (offset + m) + 1 .. (offset + m) + len THEN s[i - (offset + m)]
                    ELSE IF i <= Len(g) THEN g[i] ELSE 0
    <3> DEFINE o == offset + m
    <3>1. o \in Nat
      OBVIOUS
    <3> HIDE DEF o
    <3>2. /\ Overlay(g, s, o) \in Seq(Byte) /\ Len(Overlay(g, s, o)) = Larger(Len(g), o + Len(s))
          /\ \A i \in 1 .. Larger(Len(g), o + Len(s)) :
               Overlay(g, s, o)[i] = IF i \in o + 1 .. o + Len(s) THEN s[i - o]
                                     ELSE IF i <= Len(g) THEN g[i] ELSE 0
      BY ZenonT(30), <2>1, <2>2, <3>1, <1>1, OverlayElements
    <3> QED
      BY <3>2, <1>1 DEF o
  <2>4. /\ k \in Seq(Byte) /\ Len(k) = Larger(Len(f), offset + (m + len))
        /\ \A i \in 1 .. Larger(Len(f), offset + (m + len)) :
             k[i] = IF i \in offset + 1 .. offset + (m + len) THEN q[i - offset]
                    ELSE IF i <= Len(f) THEN f[i] ELSE 0
    BY ZenonT(30), <2>1, <1>4, OverlayElements
  <2> HIDE DEF h, k
  <2>5. Len(h) = Len(k)
    BY <2>2, <2>3, <2>4, <1>2 DEF Larger
  <2>6. ASSUME NEW i \in 1 .. Len(h) PROVE h[i] = k[i]
    <3>1. i \in 1 .. Larger(Len(g), (offset + m) + len)
          /\ i \in 1 .. Larger(Len(f), offset + (m + len)) /\ i \in Nat
      BY <2>3, <2>4, <2>5, <1>2
    <3>2. CASE i \in (offset + m) + 1 .. (offset + m) + len
      <4>1. i - (offset + m) \in 1 .. len /\ i - offset \in 1 .. m + len
            /\ i \in offset + 1 .. offset + (m + len)
        BY <3>2
      <4>2. h[i] = i - offset
        BY <3>1, <3>2, <4>1, <2>3, <1>1
      <4>3. k[i] = i - offset
        BY <3>1, <4>1, <2>4, <1>4
      <4> QED
        BY <4>2, <4>3
    <3>3. CASE i \in offset + 1 .. offset + m
      <4>1. i \notin (offset + m) + 1 .. (offset + m) + len /\ i - offset \in 1 .. m
            /\ i - offset \in 1 .. m + len /\ i \in offset + 1 .. offset + (m + len)
            /\ i \in 1 .. Larger(Len(f), offset + m) /\ i <= Len(g)
        BY <3>1, <3>3, <2>2, <1>2 DEF Larger
      <4>2. h[i] = g[i]
        BY <3>1, <4>1, <2>3
      <4>3. g[i] = i - offset
        BY <3>3, <4>1, <2>2, <1>3
      <4>4. k[i] = i - offset
        BY <3>1, <4>1, <2>4, <1>4
      <4> QED
        BY <4>2, <4>3, <4>4
    <3>4. CASE i \notin offset + 1 .. offset + (m + len)
      <4>1. i \notin (offset + m) + 1 .. (offset + m) + len /\ i \notin offset + 1 .. offset + m
        BY <3>1, <3>4
      <4>2. h[i] = IF i <= Len(g) THEN g[i] ELSE 0
        BY <3>1, <4>1, <2>3
      <4>3. i <= Len(g) => i \in 1 .. Larger(Len(f), offset + m)
        BY <2>2, <3>1
      <4>4. i <= Len(g) => g[i] = IF i <= Len(f) THEN f[i] ELSE 0
        BY <4>1, <4>3, <2>2
      <4>5. i <= Len(f) => i <= Len(g)
        BY <2>2, <3>1, <1>2 DEF Larger
      <4>6. k[i] = IF i <= Len(f) THEN f[i] ELSE 0
        BY <3>1, <3>4, <2>4
      <4> QED
        BY <4>2, <4>4, <4>5, <4>6
    <3> QED
      BY SMTT(20), <3>1, <3>2, <3>3, <3>4
  <2>7. h = k
    BY <2>3, <2>4, <2>5, <2>6, SeqEqual
  <2> QED
    BY <2>7 DEF h, k, g, p, q
<1> QED
  BY <1>5, <1>6, <1>7

(* A piece that fits into the file leaves the file within its bound.       *)
LEMMA OverlayFits ==
  ASSUME NEW f \in Seq(Byte), Len(f) <= MaxFileSize, NEW s \in Seq(Byte), NEW offset \in Nat,
         offset + Len(s) <= MaxFileSize
  PROVE  Overlay(f, s, offset) \in Seq(Byte) /\ Len(Overlay(f, s, offset)) <= MaxFileSize
<1>1. CASE s = << >>
  BY <1>1 DEF Overlay
<1>2. CASE s # << >>
  <2>1. Overlay(f, s, offset) \in Seq(Byte)
        /\ Len(Overlay(f, s, offset)) = Larger(Len(f), offset + Len(s))
    BY <1>2, OverlayElements
  <2> QED
    BY <2>1 DEF Larger
<1> QED
  BY <1>1, <1>2

-----------------------------------------------------------------------------
(* The inductive invariant *)

LEMMA NoCallFacts ==
  /\ NoCall \in [op : {"none", "pread", "pwrite", "write"}, nbytes : 0 .. MaxBytes, offset : Nat,
                 before : Seq(Byte), reopened : BOOLEAN]
  /\ NoCall.op = "none" /\ NoCall.nbytes = 0 /\ NoCall.reopened = FALSE
BY BoundsInNat, EmptySeq DEF NoCall

LEMMA InitFileInv == Init => FileInv
<1> SUFFICES ASSUME Init PROVE FileInv
  OBVIOUS
<1>1. << >> \in Seq(Byte) /\ Len(<< >>) = 0
  BY EmptySeq
<1>2. TypeOK
  BY <1>1, NoCallFacts, BoundsInNat, AttemptsAssumption, SizesAssumption DEF Init, TypeOK
<1>3. CallOK
  BY NoCallFacts DEF Init, CallOK
<1>4. Room /\ StandsBehind /\ OneDescriptor /\ InPlace
  BY NoCallFacts DEF Init, Room, StandsBehind, OneDescriptor, InPlace, PwriteInPlace,
    WriteInPlace, PreadInPlace
<1> QED
  BY <1>2, <1>3, <1>4 DEF FileInv

(* A descriptor that open() hands out is new.                              *)
LEMMA OpensFacts ==
  ASSUME NEW table, NEW offset \in Nat, DOMAIN table \subseteq Descriptors,
         \A d \in DOMAIN table : table[d] \in Nat, OpensAt(table, offset)
  PROVE  /\ fd' \in Descriptors /\ fd' \notin DOMAIN table /\ fd' # Closed
         /\ DOMAIN opened' = DOMAIN table \cup {fd'}
         /\ opened'[fd'] = offset
         /\ \A d \in DOMAIN opened' : opened'[d] \in Nat
         /\ exists' = TRUE
BY BoundsInNat DEF OpensAt, Spare, Closed

(* Between two transfers only the file and the descriptors matter.         *)
LEMMA IdleFileInv ==
  ASSUME FileInv, pc' = "idle", call' = NoCall, moved' = 0, buf' \in Seq(Byte),
         times' \in 0 .. MAX_DISK_TIMES - 1, closes' = closes,
         fd' \in Descriptors \cup {Closed},
         DOMAIN opened' \subseteq Descriptors, DOMAIN opened' \subseteq {fd', 0},
         \A d \in DOMAIN opened' : opened'[d] \in Nat,
         exists' \in BOOLEAN, file' \in Seq(Byte), Len(file') <= MaxFileSize,
         ~exists' => file' = << >> /\ fd' = Closed
  PROVE  FileInv'
<1>1. TypeOK'
  BY NoCallFacts DEF TypeOK, FileInv
<1>2. CallOK'
  BY NoCallFacts DEF CallOK
<1>3. Room' /\ StandsBehind' /\ OneDescriptor' /\ InPlace'
  BY NoCallFacts DEF Room, StandsBehind, OneDescriptor, InPlace, PwriteInPlace, WriteInPlace,
    PreadInPlace
<1> QED
  BY <1>1, <1>2, <1>3 DEF FileInv

(* A transfer that returns leaves the file and the descriptor, or, told    *)
(* that the descriptor is bad, forgets it.                                 *)
LEMMA ReturnFileInv ==
  ASSUME FileInv, NEW answer, Return(answer), UNCHANGED kernel,
         fd' = fd \/ (~IsOpen(fd) /\ fd' = Closed)
  PROVE  FileInv'
<1>1. << >> \in Seq(Byte) /\ 0 \in 0 .. MAX_DISK_TIMES - 1
  BY EmptySeq, AttemptsAssumption
<1>2. DOMAIN opened \subseteq {fd', 0}
  BY DEF FileInv, OneDescriptor, IsOpen
<1> QED
  BY <1>1, <1>2, IdleFileInv DEF Return, FileInv, TypeOK, CallOK, kernel

LEMMA BeginFileInv == ASSUME FileInv, Begin PROVE FileInv'
<1>1. PICK op \in {"pread", "pwrite", "write"}, nbytes \in 0 .. MaxBytes, offset \in Nat :
        /\ Start(op, nbytes, offset)
        /\ op # "pread" => offset + nbytes <= MaxFileSize
        /\ op = "write" => offset = IF fd # Closed /\ IsOpen(fd) THEN opened[fd] ELSE 0
  <2>1. ASSUME NEW nbytes \in 0 .. MaxBytes, NEW offset \in 0 .. MaxFileSize,
               PreadFile(nbytes, offset) \/ PwriteFile(nbytes, offset)
        PROVE  \E op \in {"pread", "pwrite"} :
                 /\ Start(op, nbytes, offset) /\ offset \in Nat
                 /\ op = "pwrite" => offset + nbytes <= MaxFileSize
    BY <2>1, BoundsInNat DEF PreadFile, PwriteFile
  <2>2. ASSUME NEW nbytes \in 0 .. MaxBytes, WriteFile(nbytes)
        PROVE  \E offset \in Nat :
                 /\ Start("write", nbytes, offset) /\ offset + nbytes <= MaxFileSize
                 /\ offset = IF fd # Closed /\ IsOpen(fd) THEN opened[fd] ELSE 0
    BY <2>2 DEF WriteFile, FileInv, TypeOK, IsOpen
  <2> QED
    BY <2>1, <2>2 DEF Begin
<1>2. /\ pc' = "check" /\ moved' = 0 /\ times' = 0 /\ buf' = << >>
      /\ call' = [op |-> op, nbytes |-> nbytes, offset |-> offset, before |-> file,
                  reopened |-> FALSE]
      /\ UNCHANGED <<fd, opened, exists, file, closes>>
  BY <1>1 DEF Start, kernel
<1>3. << >> \in Seq(Byte) /\ Len(<< >>) = 0 /\ 0 \in 0 .. MAX_DISK_TIMES - 1
      /\ Payload(0) = << >>
  BY EmptySeq, AttemptsAssumption, PayloadElements, BoundsInNat
<1>4. TypeOK'
  BY <1>2, <1>3, BoundsInNat DEF FileInv, TypeOK
<1>5. CallOK'
  BY <1>2 DEF FileInv, TypeOK, CallOK
<1>6. Room'
  <2>1. fd # Closed \/ ~IsOpen(fd)
    BY BoundsInNat DEF FileInv, TypeOK, Closed, IsOpen
  <2>2. op = "write" /\ IsOpen(fd) => offset = opened[fd]
    BY <1>1, <2>1
  <2> QED
    BY <1>1, <1>2, <2>2, BoundsInNat DEF Room, IsOpen
<1>7. StandsBehind'
  BY <1>1, <1>2, BoundsInNat DEF FileInv, TypeOK, StandsBehind, IsOpen, Closed
<1>8. OneDescriptor'
  BY <1>2 DEF FileInv, OneDescriptor
<1>9. InPlace'
  BY <1>2, <1>3 DEF InPlace, PwriteInPlace, WriteInPlace, PreadInPlace, Wrote, Overlay
<1> QED
  BY <1>4, <1>5, <1>6, <1>7, <1>8, <1>9 DEF FileInv

(* A transfer on its way to its next attempt.                              *)
LEMMA CheckFileInv == ASSUME FileInv, CheckFile PROVE FileInv'
<1>1. /\ pc = "check" /\ pc' = "transfer" /\ moved < call.nbytes /\ times' = times + 1
      /\ times + 1 < MAX_DISK_TIMES
      /\ UNCHANGED <<fd, opened, exists, file, call, moved, buf, closes>>
  BY DEF CheckFile, Attempt, kernel
<1>2. times \in Nat
  BY DEF FileInv, TypeOK
<1>3. TypeOK'
  BY <1>1, <1>2, AttemptsAssumption DEF FileInv, TypeOK
<1>4. CallOK'
  BY <1>1, <1>2 DEF FileInv, CallOK
<1>5. Room' /\ StandsBehind' /\ OneDescriptor'
  BY <1>1, <1>2 DEF FileInv, Room, StandsBehind, OneDescriptor, IsOpen
<1>6. InPlace'
  BY <1>1 DEF FileInv, InPlace, PwriteInPlace, WriteInPlace, PreadInPlace, Wrote
<1> QED
  BY <1>3, <1>4, <1>5, <1>6 DEF FileInv

(* check_file opens the file again at its beginning.                       *)
LEMMA CheckFileOpensInv == ASSUME FileInv, CheckFileOpens PROVE FileInv'
<1>1. /\ pc = "check" /\ pc' = "transfer" /\ moved < call.nbytes /\ times' = times + 1
      /\ times + 1 < MAX_DISK_TIMES /\ fd = Closed
      /\ call' = [call EXCEPT !.reopened = times > 0,
                              !.before = IF times = 0 THEN file' ELSE @]
      /\ UNCHANGED <<moved, buf, closes>>
  BY DEF CheckFileOpens, Attempt
<1>2. times \in Nat /\ file \in Seq(Byte) /\ exists \in BOOLEAN
  BY DEF FileInv, TypeOK
<1>3. file' = file
  BY <1>2 DEF CheckFileOpens, Opens, Contents, FileInv, CallOK
<1>4. /\ fd' \in Descriptors /\ fd' # Closed
      /\ DOMAIN opened' = DOMAIN opened \cup {fd'}
      /\ opened'[fd'] = 0
      /\ \A d \in DOMAIN opened' : opened'[d] \in Nat
      /\ exists' = TRUE
  BY OpensFacts DEF CheckFileOpens, Opens, FileInv, TypeOK
<1>5. /\ call \in [op : {"none", "pread", "pwrite", "write"}, nbytes : 0 .. MaxBytes, offset : Nat,
                   before : Seq(Byte), reopened : BOOLEAN]
      /\ moved \in Nat
  BY BoundsInNat DEF FileInv, CallOK, TypeOK
<1>6. /\ call'.op = call.op /\ call'.nbytes = call.nbytes /\ call'.offset = call.offset
      /\ call'.reopened = (times > 0)
      /\ call'.before = IF times = 0 THEN file ELSE call.before
  BY <1>1, <1>3, <1>5
<1>7. call' \in [op : {"none", "pread", "pwrite", "write"}, nbytes : 0 .. MaxBytes, offset : Nat,
                 before : Seq(Byte), reopened : BOOLEAN]
  <2>1. (times > 0) \in BOOLEAN /\ (IF times = 0 THEN file' ELSE call.before) \in Seq(Byte)
    BY <1>2, <1>3, <1>5
  <2> QED
    BY <1>1, <1>5, <2>1
<1>8. TypeOK'
  BY <1>1, <1>2, <1>3, <1>4, <1>6, AttemptsAssumption DEF FileInv, TypeOK
<1>9. CallOK'
  <2>1. call.op # "none"
    BY <1>1 DEF FileInv, CallOK
  <2> QED
    BY <1>1, <1>2, <1>4, <1>6, <1>7, <2>1 DEF CallOK
<1>10. Room'
  BY <1>1, <1>4, <1>5, <1>6, BoundsInNat DEF FileInv, Room, IsOpen
<1>11. StandsBehind'
  <2>1. ~call'.reopened => times = 0 /\ moved = 0
    <3>1. ~(times > 0) => times = 0
      BY <1>2
    <3> QED
      BY <3>1, <1>6 DEF FileInv, CallOK
  <2>2. call.op = "write" /\ times = 0 => ~call.reopened
    BY DEF FileInv, CallOK
  <2> QED
    BY <1>1, <1>4, <1>6, <2>1, <2>2 DEF FileInv, StandsBehind, IsOpen
<1>12. OneDescriptor'
  BY <1>1, <1>4, BoundsInNat DEF FileInv, TypeOK, OneDescriptor, Closed
<1>13. InPlace'
  <2>1. CASE times = 0
    <3>1. moved = 0 /\ Payload(0) = << >> /\ call'.before = file
      BY <2>1, <1>6, PayloadElements, BoundsInNat DEF FileInv, CallOK
    <3>2. Wrote(call, moved)'
      BY <1>1, <1>3, <3>1 DEF Wrote, Overlay
    <3>3. PreadInPlace'
      BY <1>1, <1>3, <1>6 DEF FileInv, InPlace, PreadInPlace
    <3> QED
      BY <3>2, <3>3 DEF InPlace, PwriteInPlace, WriteInPlace
  <2>2. CASE times # 0
    <3>1. call'.reopened /\ call'.before = call.before
      <4>1. times > 0
        BY <2>2, <1>2
      <4> QED
        BY <4>1, <2>2, <1>6
    <3>2. PwriteInPlace' /\ PreadInPlace'
      BY <3>1, <1>1, <1>3, <1>6 DEF FileInv, InPlace, PwriteInPlace, PreadInPlace, Wrote
    <3> QED
      BY <3>1, <3>2 DEF InPlace, WriteInPlace
  <2> QED
    BY <2>1, <2>2
<1> QED
  BY <1>8, <1>9, <1>10, <1>11, <1>12, <1>13 DEF FileInv

(* An interrupted attempt changes nothing, a bad descriptor only itself.   *)
LEMMA RetryFileInv ==
  ASSUME FileInv, pc = "transfer", pc' = "check",
         fd' = fd \/ (~IsOpen(fd) /\ fd' = Closed),
         UNCHANGED <<kernel, call, moved, times, buf, status, closes>>
  PROVE  FileInv'
<1>1. UNCHANGED <<opened, exists, file>> /\ times > 0
  BY DEF kernel, FileInv, CallOK
<1>2. fd' # fd => ~IsOpen(fd)' /\ fd \notin DOMAIN opened
  BY <1>1, BoundsInNat DEF FileInv, TypeOK, IsOpen, Closed
<1>3. TypeOK' /\ CallOK'
  BY <1>1 DEF FileInv, TypeOK, CallOK
<1>4. Room'
  BY <1>1, <1>2 DEF FileInv, Room, IsOpen
<1>5. StandsBehind'
  BY <1>1, <1>2 DEF FileInv, StandsBehind, IsOpen
<1>6. OneDescriptor'
  BY <1>1, <1>2 DEF FileInv, OneDescriptor
<1>7. InPlace'
  BY <1>1 DEF FileInv, InPlace, PwriteInPlace, WriteInPlace, PreadInPlace, Wrote
<1> QED
  BY <1>3, <1>4, <1>5, <1>6, <1>7 DEF FileInv

LEMMA PreadSomeInv == ASSUME FileInv, PreadSome PROVE FileInv'
<1>1. PICK len \in 1 .. call.nbytes - moved :
        /\ (call.offset + moved) + len <= Len(file)
        /\ buf' = buf \o SubSeq(file, (call.offset + moved) + 1, (call.offset + moved) + len)
        /\ moved' = moved + len
  BY DEF PreadSome
<1>2. /\ pc = "transfer" /\ pc' = "check" /\ call.op = "pread"
      /\ UNCHANGED <<fd, opened, exists, file, call, times, closes>>
  BY DEF PreadSome, kernel
<1>3. /\ call.nbytes \in Nat /\ call.offset \in Nat /\ moved \in Nat /\ len \in Nat
      /\ moved' \in 0 .. call.nbytes /\ times > 0 /\ times \in Nat
      /\ file \in Seq(Byte) /\ buf \in Seq(Byte)
  BY <1>1, <1>2, BoundsInNat DEF FileInv, CallOK, TypeOK
<1> DEFINE from == call.offset + moved
           piece == SubSeq(file, from + 1, from + len)
<1>4. from \in Nat /\ from + len <= Len(file) /\ Len(file) \in Nat
  <2>1. from \in Nat
    BY <1>3
  <2>2. Len(file) \in Nat
    BY <1>3, LenProperties
  <2> QED
    BY <2>1, <2>2, <1>1
<1>5. piece \in Seq(Byte) /\ Len(piece) = len /\ \A i \in 1 .. len : piece[i] = file[from + i]
  <2> HIDE DEF from
  <2>1. \A i \in from + 1 .. from + len : file[i] \in Byte
    BY <1>3, <1>4, ElementOfSeq
  <2>2. /\ piece \in Seq(Byte)
        /\ Len(piece) = IF from + 1 <= from + len THEN (from + len) - (from + 1) + 1 ELSE 0
        /\ \A i \in 1 .. (from + len) - (from + 1) + 1 : piece[i] = file[(from + 1) + i - 1]
    BY <2>1, <1>3, <1>4, SubSeqProperties
  <2> HIDE DEF piece
  <2>3. /\ from + 1 <= from + len /\ (from + len) - (from + 1) + 1 = len
        /\ \A i \in 1 .. len : (from + 1) + i - 1 = from + i
    BY <1>3, <1>4
  <2>4. \A i \in 1 .. len : piece[i] = file[from + i]
    BY <2>2, <2>3
  <2> QED
    BY <2>2, <2>3, <2>4
<1> HIDE DEF piece
<1>6. /\ buf' \in Seq(Byte) /\ Len(buf') = Len(buf) + len
      /\ \A i \in 1 .. Len(buf) + len :
           buf'[i] = IF i <= Len(buf) THEN buf[i] ELSE piece[i - Len(buf)]
  <2>1. buf' = buf \o piece
    BY <1>1 DEF piece
  <2> QED
    BY <2>1, <1>3, <1>5, ConcatProperties
<1>7. TypeOK'
  BY <1>2, <1>3, <1>6 DEF FileInv, TypeOK
<1>8. CallOK'
  BY <1>2, <1>3 DEF FileInv, CallOK
<1>9. Room' /\ StandsBehind' /\ OneDescriptor'
  BY <1>2 DEF FileInv, Room, StandsBehind, OneDescriptor
<1>10. PreadInPlace'
  <2>1. /\ Len(buf) = moved
        /\ \A i \in 1 .. moved : call.offset + i <= Len(file) /\ buf[i] = file[call.offset + i]
    BY <1>2 DEF FileInv, InPlace, PreadInPlace
  <2>2. ASSUME NEW i \in 1 .. moved + len
        PROVE  call.offset + i <= Len(file) /\ buf'[i] = file[call.offset + i]
    <3>1. CASE i <= moved
      <4>1. i \in 1 .. moved
        BY <3>1
      <4> QED
        BY <3>1, <4>1, <2>1, <1>6
    <3>2. CASE ~(i <= moved)
      <4>1. i - moved \in 1 .. len /\ from + (i - moved) = call.offset + i
            /\ from + (i - moved) <= from + len
        BY <3>2, <1>3
      <4>2. buf'[i] = piece[i - moved]
        BY <3>2, <2>1, <1>6
      <4>3. piece[i - moved] = file[from + (i - moved)]
        BY <4>1, <1>5
      <4>4. call.offset + i <= Len(file)
        BY SMTT(20), <4>1, <1>3, <1>4
      <4> QED
        BY <4>1, <4>2, <4>3, <4>4
    <3> QED
      BY <3>1, <3>2
  <2> QED
    BY <2>1, <2>2, <1>1, <1>2, <1>6 DEF PreadInPlace
<1>11. PwriteInPlace' /\ WriteInPlace'
  BY <1>2 DEF PwriteInPlace, WriteInPlace
<1> QED
  BY <1>7, <1>8, <1>9, <1>10, <1>11 DEF FileInv, InPlace

(* The next piece of a write, at a place where it fits.                    *)
LEMMA PieceWritten ==
  ASSUME FileInv, pc = "transfer", NEW len \in 0 .. call.nbytes - moved, NEW at \in Nat,
         at + (call.nbytes - moved) <= MaxFileSize,
         file' = Overlay(file, SubSeq(Payload(call.nbytes), moved + 1, moved + len), at)
  PROVE  /\ file' \in Seq(Byte) /\ Len(file') <= MaxFileSize
         /\ Wrote(call, moved) /\ at = call.offset + moved
              => file' = Overlay(call.before, Payload(moved + len), call.offset)
<1>1. /\ call.nbytes \in 0 .. MaxBytes /\ moved \in Nat /\ len \in Nat /\ call.nbytes \in Nat
      /\ moved + len <= call.nbytes /\ call.before \in Seq(Byte) /\ call.offset \in Nat
      /\ file \in Seq(Byte) /\ Len(file) <= MaxFileSize
  BY BoundsInNat DEF FileInv, CallOK, TypeOK
<1> DEFINE s == SubSeq(Payload(call.nbytes), moved + 1, moved + len)
<1>2. IsPiece(s, moved, len)
  BY <1>1, PieceElements
<1>3. file' = Overlay(file, s, at)
  OBVIOUS
<1> HIDE DEF s
<1>4. file' \in Seq(Byte) /\ Len(file') <= MaxFileSize
  <2>1. s \in Seq(Byte) /\ at + Len(s) <= MaxFileSize
    BY <1>1, <1>2, BoundsInNat DEF IsPiece
  <2> QED
    BY <2>1, <1>1, <1>3, OverlayFits
<1>5. ASSUME Wrote(call, moved), at = call.offset + moved
      PROVE  file' = Overlay(call.before, Payload(moved + len), call.offset)
  <2>1. file = Overlay(call.before, Payload(moved), call.offset)
    BY <1>5 DEF Wrote
  <2> DEFINE n == moved + len
  <2>2. n \in 0 .. MaxBytes /\ n = moved + len
    BY <1>1, BoundsInNat
  <2> HIDE DEF n
  <2>3. Overlay(Overlay(call.before, Payload(moved), call.offset), s, at)
          = Overlay(call.before, Payload(n), call.offset)
    <3>1. \A f \in Seq(Byte), o \in Nat : at = o + moved =>
            Overlay(Overlay(f, Payload(moved), o), s, at) = Overlay(f, Payload(n), o)
      BY <1>1, <1>2, <2>2, OverlayMore
    <3> QED
      BY <1>1, <1>5, <3>1
  <2> QED
    BY <2>1, <2>2, <2>3, <1>3
<1> QED
  BY <1>4, <1>5

LEMMA PwriteSomeInv == ASSUME FileInv, PwriteSome PROVE FileInv'
<1>1. PICK len \in 0 .. call.nbytes - moved :
        /\ file' = Overlay(file, SubSeq(Payload(call.nbytes), moved + 1, moved + len),
                           call.offset + moved)
        /\ moved' = moved + len
  BY DEF PwriteSome
<1>2. /\ pc = "transfer" /\ pc' = "check" /\ call.op = "pwrite" /\ IsOpen(fd)
      /\ UNCHANGED <<fd, opened, exists, call, times, buf, closes>>
  BY DEF PwriteSome
<1>3. /\ call.nbytes \in Nat /\ call.offset \in Nat /\ moved \in Nat /\ len \in Nat
      /\ moved' \in 0 .. call.nbytes /\ times > 0 /\ times \in Nat
      /\ call.offset + call.nbytes <= MaxFileSize
  BY <1>1, <1>2, BoundsInNat DEF FileInv, CallOK, TypeOK, Room
<1> DEFINE at == call.offset + moved
<1>4. at \in Nat /\ at + (call.nbytes - moved) <= MaxFileSize
  BY <1>3, BoundsInNat
<1>5. Wrote(call, moved)
  BY <1>2 DEF FileInv, InPlace, PwriteInPlace
<1>6. /\ file' \in Seq(Byte) /\ Len(file') <= MaxFileSize
      /\ file' = Overlay(call.before, Payload(moved + len), call.offset)
  <2>1. file' = Overlay(file, SubSeq(Payload(call.nbytes), moved + 1, moved + len), at)
    BY <1>1
  <2>2. at = call.offset + moved
    OBVIOUS
  <2> HIDE DEF at
  <2> QED
    BY <1>2, <1>4, <1>5, <2>1, <2>2, PieceWritten
<1>7. TypeOK'
  BY <1>2, <1>3, <1>6 DEF FileInv, TypeOK
<1>8. CallOK'
  BY SMTT(20), <1>2, <1>3, BoundsInNat DEF FileInv, CallOK, TypeOK, IsOpen, Closed
<1>9. Room' /\ StandsBehind' /\ OneDescriptor'
  BY <1>2 DEF FileInv, Room, StandsBehind, OneDescriptor
<1>10. InPlace'
  BY <1>1, <1>2, <1>6 DEF InPlace, PwriteInPlace, WriteInPlace, PreadInPlace, Wrote
<1> QED
  BY <1>7, <1>8, <1>9, <1>10 DEF FileInv

LEMMA WriteSomeInv == ASSUME FileInv, WriteSome PROVE FileInv'
<1>1. PICK len \in 0 .. call.nbytes - moved :
        /\ file' = Overlay(file, SubSeq(Payload(call.nbytes), moved + 1, moved + len), opened[fd])
        /\ opened' = [opened EXCEPT ![fd] = @ + len]
        /\ moved' = moved + len
  BY DEF WriteSome
<1>2. /\ pc = "transfer" /\ pc' = "check" /\ call.op = "write" /\ IsOpen(fd)
      /\ UNCHANGED <<fd, exists, call, times, buf, closes>>
  BY DEF WriteSome
<1>3. /\ call.nbytes \in Nat /\ call.offset \in Nat /\ moved \in Nat /\ len \in Nat
      /\ moved' \in 0 .. call.nbytes /\ times > 0 /\ times \in Nat
      /\ opened[fd] \in Nat /\ fd # Closed
      /\ opened[fd] + (call.nbytes - moved) <= MaxFileSize
  <2>1. call.nbytes \in Nat /\ call.offset \in Nat /\ moved \in Nat /\ moved <= call.nbytes
        /\ times > 0 /\ times \in Nat
    BY <1>2, BoundsInNat DEF FileInv, CallOK, TypeOK
  <2>2. opened[fd] \in Nat /\ fd # Closed
    BY <1>2, BoundsInNat DEF FileInv, TypeOK, IsOpen, Closed
  <2>3. opened[fd] + (call.nbytes - moved) <= MaxFileSize
    BY <1>2 DEF FileInv, Room
  <2> QED
    BY <1>1, <2>1, <2>2, <2>3
<1>4. /\ DOMAIN opened' = DOMAIN opened /\ opened'[fd] = opened[fd] + len
      /\ \A d \in DOMAIN opened' : opened'[d] \in Nat
  BY <1>1, <1>2, <1>3 DEF FileInv, TypeOK, IsOpen
<1>5. /\ file' \in Seq(Byte) /\ Len(file') <= MaxFileSize
      /\ Wrote(call, moved) /\ opened[fd] = call.offset + moved
           => file' = Overlay(call.before, Payload(moved + len), call.offset)
  BY <1>1, <1>2, <1>3, PieceWritten
<1>6. TypeOK'
  BY <1>2, <1>3, <1>4, <1>5 DEF FileInv, TypeOK
<1>7. CallOK'
  BY <1>2, <1>3 DEF FileInv, CallOK
<1>8. Room'
  BY <1>1, <1>2, <1>3, <1>4 DEF FileInv, Room, IsOpen
<1>9. StandsBehind'
  BY <1>1, <1>2, <1>3, <1>4 DEF FileInv, StandsBehind, IsOpen
<1>10. OneDescriptor'
  BY <1>2, <1>4 DEF FileInv, OneDescriptor
<1>11. InPlace'
  <2>1. ~call.reopened => Wrote(call, moved)'
    BY <1>1, <1>2, <1>5 DEF FileInv, InPlace, WriteInPlace, StandsBehind, Wrote
  <2> QED
    BY <2>1, <1>2 DEF InPlace, PwriteInPlace, WriteInPlace, PreadInPlace
<1> QED
  BY <1>6, <1>7, <1>8, <1>9, <1>10, <1>11 DEF FileInv

(* Somebody else closes the descriptor.                                    *)
LEMMA ClosedElsewhereInv == ASSUME FileInv, ClosedElsewhere PROVE FileInv'
<1>1. /\ opened' = Without(opened, fd) /\ closes' = closes + 1 /\ closes < MaxCloses
      /\ UNCHANGED <<fd, exists, file, pc, call, moved, times, buf>>
  BY DEF ClosedElsewhere, transfer
<1>2. /\ DOMAIN opened' = DOMAIN opened \ {fd} /\ \A d \in DOMAIN opened' : opened'[d] = opened[d]
      /\ ~IsOpen(fd)'
  BY <1>1 DEF Without, IsOpen
<1>3. TypeOK'
  BY <1>1, <1>2, SizesAssumption DEF FileInv, TypeOK
<1>4. CallOK'
  BY <1>1 DEF FileInv, CallOK
<1>5. Room' /\ StandsBehind' /\ OneDescriptor'
  BY <1>1, <1>2 DEF FileInv, Room, StandsBehind, OneDescriptor, IsOpen
<1>6. InPlace'
  BY <1>1 DEF FileInv, InPlace, PwriteInPlace, WriteInPlace, PreadInPlace, Wrote
<1> QED
  BY <1>3, <1>4, <1>5, <1>6 DEF FileInv

(* The operations between transfers.                                       *)
LEMMA ManageInv == ASSUME FileInv, Manage PROVE FileInv'
<1>1. /\ pc = "idle" /\ call = NoCall /\ moved = 0
      /\ UNCHANGED <<pc, call, moved, times, buf, closes>>
      /\ times \in 0 .. MAX_DISK_TIMES - 1 /\ buf \in Seq(Byte)
  BY DEF Manage, OpenFile, CloseFile, UseFile, UnlinkFile, Renew, FtruncateFile, SeekFile,
    transfer, FileInv, CallOK, TypeOK
<1>2. /\ fd \in Descriptors \cup {Closed} /\ exists \in BOOLEAN
      /\ DOMAIN opened \subseteq Descriptors /\ DOMAIN opened \subseteq {fd, 0}
      /\ \A d \in DOMAIN opened : opened[d] \in Nat
      /\ file \in Seq(Byte) /\ Len(file) <= MaxFileSize
      /\ ~exists => file = << >> /\ fd = Closed
  BY DEF FileInv, TypeOK, CallOK, OneDescriptor
<1>3. << >> \in Seq(Byte) /\ Len(<< >>) <= MaxFileSize
  BY EmptySeq, BoundsInNat
<1>4. Contents \in Seq(Byte) /\ Len(Contents) <= MaxFileSize
  BY <1>2, <1>3 DEF Contents
<1>5. fd = Closed \/ fd > 0 \/ fd = 0
  BY <1>2, BoundsInNat
<1>6. /\ DOMAIN Without(opened, fd) = DOMAIN opened \ {fd}
      /\ \A d \in DOMAIN Without(opened, fd) : Without(opened, fd)[d] = opened[d]
  BY DEF Without
<1>7. ASSUME NEW table, NEW offset \in Nat, DOMAIN table \subseteq DOMAIN opened,
             DOMAIN table \subseteq {0}, \A d \in DOMAIN table : table[d] = opened[d],
             OpensAt(table, offset), file' \in Seq(Byte), Len(file') <= MaxFileSize
      PROVE  FileInv'
  <2>1. /\ fd' \in Descriptors /\ DOMAIN opened' = DOMAIN table \cup {fd'}
        /\ \A d \in DOMAIN opened' : opened'[d] \in Nat
        /\ exists' = TRUE
    BY <1>2, <1>7, OpensFacts
  <2>2. DOMAIN opened' \subseteq Descriptors /\ DOMAIN opened' \subseteq {fd', 0}
    BY <1>2, <1>7, <2>1
  <2> QED
    BY <1>1, <1>7, <2>1, <2>2, IdleFileInv
<1>8. DOMAIN opened \subseteq {0} \/ fd > 0
  BY <1>2, <1>5, BoundsInNat DEF Closed
<1>9. DOMAIN Without(opened, fd) \subseteq {0}
  BY <1>2, <1>6
<1>10. fd = Closed => ~(fd > 0)
  BY DEF Closed
<1>11. ASSUME fd' = Closed, opened' = Without(opened, fd) \/ (opened' = opened /\ ~(fd > 0)),
              \/ UNCHANGED <<exists, file>>
              \/ exists' = FALSE /\ file' = << >>
       PROVE  FileInv'
  <2>1. /\ DOMAIN opened' \subseteq Descriptors /\ DOMAIN opened' \subseteq {fd', 0}
        /\ \A d \in DOMAIN opened' : opened'[d] \in Nat
    BY <1>2, <1>6, <1>8, <1>9, <1>11
  <2> QED
    <3>1. /\ exists' \in BOOLEAN /\ file' \in Seq(Byte) /\ Len(file') <= MaxFileSize
          /\ ~exists' => file' = << >> /\ fd' = Closed
          /\ fd' \in Descriptors \cup {Closed}
      <4>1. CASE UNCHANGED <<exists, file>>
        BY <1>2, <1>11, <4>1
      <4>2. CASE exists' = FALSE /\ file' = << >>
        BY <1>3, <1>11, <4>2
      <4> QED
        BY <1>11, <4>1, <4>2
    <3> QED
      BY <1>1, <2>1, <3>1, IdleFileInv
<1>12. CASE OpenFile
  <2> DEFINE table == IF fd > 0 THEN Without(opened, fd) ELSE opened
  <2>1. /\ DOMAIN table \subseteq DOMAIN opened /\ DOMAIN table \subseteq {0}
        /\ \A d \in DOMAIN table : table[d] = opened[d]
    BY <1>6, <1>8, <1>9
  <2>2. CASE Opens(table)
    BY <1>4, <1>7, <2>1, <2>2 DEF Opens
  <2>3. CASE fd' = Closed /\ opened' = table /\ UNCHANGED <<exists, file>>
    BY <1>11, <2>3
  <2> QED
    BY <1>12, <2>2, <2>3 DEF OpenFile
<1>13. CASE CloseFile \/ UnlinkFile \/ Renew
  BY <1>11, <1>13 DEF CloseFile, UnlinkFile, Renew
<1>14. CASE UseFile
  BY <1>4, <1>7, <1>8, <1>10, <1>14 DEF UseFile, Opens
<1>15. ASSUME NEW length \in 0 .. MaxFileSize, FtruncateFile(length) PROVE FileInv'
  <2>1. length \in Nat /\ \A i \in 1 .. length :
          (IF i <= Len(Contents) THEN Contents[i] ELSE 0) \in Byte
    <3>1. length \in Nat /\ Len(Contents) \in Nat
      BY <1>4, BoundsInNat, LenProperties
    <3> QED
      BY <1>4, <3>1, ElementOfSeq, BoundsInNat DEF Byte
  <2>2. file' \in Seq(Byte) /\ Len(file') <= MaxFileSize
    BY <1>15, <2>1, IsASeq, BoundsInNat DEF FtruncateFile, Resized
  <2>3. CASE fd # Closed /\ UNCHANGED <<fd, opened, exists>>
    BY <1>1, <1>2, <2>2, <2>3, IdleFileInv
  <2>4. CASE fd = Closed /\ OpensAt(opened, 0)
    BY <1>7, <1>8, <1>10, <2>2, <2>4
  <2> QED
    BY <1>15, <2>3, <2>4 DEF FtruncateFile
<1>16. ASSUME NEW offset \in 0 .. MaxFileSize, SeekFile(offset) PROVE FileInv'
  <2>1. offset \in Nat /\ file' = Contents
    BY <1>16, BoundsInNat DEF SeekFile
  <2>2. CASE /\ fd # Closed /\ IsOpen(fd) /\ opened' = [opened EXCEPT ![fd] = offset]
             /\ UNCHANGED <<fd, exists>>
    <3>1. DOMAIN opened' = DOMAIN opened /\ \A d \in DOMAIN opened' : opened'[d] \in Nat
      BY <1>2, <2>1, <2>2
    <3> QED
      BY <1>1, <1>2, <1>4, <2>1, <2>2, <3>1, IdleFileInv
  <2>3. CASE fd = Closed /\ OpensAt(opened, offset)
    BY <1>4, <1>7, <1>8, <1>10, <2>1, <2>3
  <2> QED
    BY <1>16, <2>2, <2>3 DEF SeekFile
<1> QED
  BY <1>12, <1>13, <1>14, <1>15, <1>16 DEF Manage

(* Every step keeps the invariant.                                         *)
LEMMA NextFileInv == ASSUME FileInv, [Next]_vars PROVE FileInv'
<1>1. CASE Begin
  BY <1>1, BeginFileInv
<1>2. CASE Transfer
  <2>1. CASE Done \/ GiveUp \/ CheckFileFails \/ Fails \/ EndOfFile
    BY <2>1, ReturnFileInv DEF Done, GiveUp, CheckFileFails, Fails, EndOfFile
  <2>2. CASE BadDescriptor /\ call.op = "pread"
    BY <2>2, ReturnFileInv, RetryFileInv DEF BadDescriptor
  <2>3. CASE BadDescriptor /\ call.op # "pread"
    BY <2>3, RetryFileInv DEF BadDescriptor
  <2>4. CASE Interrupted
    BY <2>4, RetryFileInv DEF Interrupted
  <2> QED
    BY <1>2, <2>1, <2>2, <2>3, <2>4, CheckFileInv, CheckFileOpensInv, PreadSomeInv, PwriteSomeInv,
      WriteSomeInv DEF Transfer
<1>3. CASE Manage
  BY <1>3, ManageInv
<1>4. CASE ClosedElsewhere
  BY <1>4, ClosedElsewhereInv
<1>5. CASE UNCHANGED vars
  <2>1. UNCHANGED <<fd, opened, exists, file, pc, call, moved, times, buf, closes>>
    BY <1>5 DEF vars, kernel, transfer
  <2>2. TypeOK' /\ CallOK' /\ Room' /\ StandsBehind' /\ OneDescriptor'
    BY <2>1 DEF FileInv, TypeOK, CallOK, Room, StandsBehind, OneDescriptor, IsOpen
  <2>3. InPlace'
    BY <2>1 DEF FileInv, InPlace, PwriteInPlace, WriteInPlace, PreadInPlace, Wrote
  <2> QED
    BY <2>2, <2>3 DEF FileInv
<1> QED
  BY <1>1, <1>2, <1>3, <1>4, <1>5 DEF Next

(* The invariant holds for every operation of the class (file_op.cpp).     *)
THEOREM FileCorrect == Spec => []FileInv
BY InitFileInv, NextFileInv, PTL DEF Spec

(* Types, and the bounds of the loops: fewer attempts than MAX_DISK_TIMES, *)
(* no byte more than was asked for (file_op.cpp, the while loops).         *)
THEOREM FileTypeCorrect == Spec => []TypeOK
<1>1. FileInv => TypeOK
  BY DEF FileInv
<1> QED
  BY <1>1, FileCorrect, PTL

(* pwrite_file has put what it has written where it was asked to, after    *)
(* any mixture of short writes, interrupts and reopenings.                 *)
THEOREM PwritesInPlace == Spec => []PwriteInPlace
<1>1. FileInv => PwriteInPlace
  BY DEF FileInv, InPlace
<1> QED
  BY <1>1, FileCorrect, PTL

(* write_file has, unless it opened the file again on the way: one that    *)
(* did starts over at the beginning of the file.                           *)
THEOREM WritesInPlace == Spec => []WriteInPlace
<1>1. FileInv => WriteInPlace
  BY DEF FileInv, InPlace
<1> QED
  BY <1>1, FileCorrect, PTL

(* pread_file has put in the buffer what the file holds there.             *)
THEOREM PreadsInPlace == Spec => []PreadInPlace
<1>1. FileInv => PreadInPlace
  BY DEF FileInv, InPlace
<1> QED
  BY <1>1, FileCorrect, PTL

(* An object never loses a descriptor other than 0 (file_op.cpp:29).       *)
THEOREM DescriptorsKept == Spec => []OneDescriptor
<1>1. FileInv => OneDescriptor
  BY DEF FileInv
<1> QED
  BY <1>1, FileCorrect, PTL

(* A transfer reports success if and only if all bytes are where they were *)
(* asked for: success when the loop ends with nothing left, an error when  *)
(* it ends for any other reason.  Only write_file, which goes on where the *)
(* descriptor stands, is excepted once it has opened the file again; the   *)
(* other two give the place with each system call.                         *)
THEOREM SuccessesComplete == Spec => SuccessIsComplete
<1> DEFINE Complete == IF call.op = "pread"
                       THEN Len(buf) = call.nbytes
                            /\ \A i \in 1 .. Len(buf) : buf[i] = file[call.offset + i]
                       ELSE moved = call.nbytes /\ Wrote(call, call.nbytes)
           A == pc # "idle" /\ pc' = "idle" /\ ~(call.op = "write" /\ call.reopened)
                  => (status' = "TFS_SUCCESS" <=> Complete)
<1>1. ASSUME FileInv, [Next]_vars PROVE [A]_vars
  <2> SUFFICES ASSUME Next, pc # "idle", pc' = "idle", call.op = "write" => ~call.reopened
               PROVE  status' = "TFS_SUCCESS" <=> Complete
    BY <1>1
  <2>1. CASE Done
    <3>1. moved = call.nbytes /\ status' = "TFS_SUCCESS"
      BY <2>1 DEF Done, Return
    <3>2. CASE call.op = "pread"
      BY <1>1, <3>1, <3>2 DEF FileInv, InPlace, PreadInPlace
    <3>3. CASE call.op # "pread"
      <4>1. call.op = "write" \/ call.op = "pwrite"
        BY <1>1, <2>1, <3>3 DEF Done, FileInv, CallOK
      <4> QED
        BY <1>1, <3>1, <3>3, <4>1 DEF FileInv, InPlace, PwriteInPlace, WriteInPlace
    <3> QED
      BY <3>2, <3>3
  <2>2. CASE ~Done
    <3>1. moved < call.nbytes /\ status' # "TFS_SUCCESS"
      BY <1>1, <2>2 DEF Next, Begin, PreadFile, PwriteFile, WriteFile, Start, Transfer, GiveUp,
        CheckFile, CheckFileOpens, CheckFileFails, Attempt, Interrupted, Fails, BadDescriptor,
        EndOfFile, PreadSome, PwriteSome, WriteSome, Return, Manage, OpenFile, CloseFile, UseFile,
        UnlinkFile, Renew, FtruncateFile, SeekFile, ClosedElsewhere, transfer, FileInv, CallOK
    <3>2. moved # call.nbytes
      BY <1>1, <3>1, BoundsInNat DEF FileInv, CallOK, TypeOK
    <3>3. call.op = "pread" => Len(buf) = moved
      BY <1>1 DEF FileInv, InPlace, PreadInPlace
    <3> QED
      BY <3>1, <3>2, <3>3
  <2> QED
    BY <2>1, <2>2
<1> QED
  BY <1>1, FileCorrect, PTL DEF Spec, SuccessIsComplete

-----------------------------------------------------------------------------
(* How long a transfer takes *)

(* The checks and system calls the running transfer has yet to make, at    *)
(* most.                                                                   *)
StepsLeft ==
  CASE pc = "idle" -> 0
    [] pc = "check" -> 2 * (MAX_DISK_TIMES - times)
    [] pc = "transfer" -> 2 * (MAX_DISK_TIMES - times) + 1

(* An attempt is one check and one system call; only a check counts.       *)
LEMMA StepNearer ==
  ASSUME TypeOK, Next, pc # "idle"
  PROVE  StepsLeft' <= StepsLeft /\ (Transfer => StepsLeft' < StepsLeft)
<1>1. /\ MAX_DISK_TIMES \in Nat /\ times \in Nat /\ MAX_DISK_TIMES - times >= 1
      /\ pc = "check" \/ pc = "transfer"
  BY AttemptsAssumption DEF TypeOK
<1>2. StepsLeft \in Nat /\ StepsLeft >= 2
  BY <1>1 DEF StepsLeft
<1>3. CASE pc' = "idle"
  <2>1. StepsLeft' = 0
    BY <1>3 DEF StepsLeft
  <2> QED
    BY <1>2, <2>1
<1>4. CASE CheckFile \/ CheckFileOpens
  <2>1. pc = "check" /\ pc' = "transfer" /\ times' = times + 1
    BY <1>4 DEF CheckFile, CheckFileOpens, Attempt
  <2>2. StepsLeft = 2 * (MAX_DISK_TIMES - times)
    BY <2>1 DEF StepsLeft
  <2>3. StepsLeft' = 2 * (MAX_DISK_TIMES - (times + 1)) + 1
    BY <2>1 DEF StepsLeft
  <2> QED
    BY <1>1, <2>2, <2>3
<1>5. CASE Transfer /\ ~(CheckFile \/ CheckFileOpens) /\ pc' # "idle"
  <2>1. pc = "transfer" /\ pc' = "check" /\ times' = times
    BY <1>5 DEF Transfer, Done, GiveUp, CheckFileFails, Interrupted, Fails, BadDescriptor,
         EndOfFile, PreadSome, PwriteSome, WriteSome, Return
  <2>2. StepsLeft = 2 * (MAX_DISK_TIMES - times) + 1
    BY <2>1 DEF StepsLeft
  <2>3. StepsLeft' = 2 * (MAX_DISK_TIMES - times)
    BY <2>1 DEF StepsLeft
  <2> QED
    BY <1>1, <2>2, <2>3
<1>6. CASE ~Transfer
  <2>1. ClosedElsewhere
    BY <1>1, <1>6 DEF Next, Begin, PreadFile, PwriteFile, WriteFile, Start, Manage, OpenFile,
         CloseFile, UseFile, UnlinkFile, Renew, FtruncateFile, SeekFile
  <2>2. pc' = pc /\ times' = times
    BY <2>1 DEF ClosedElsewhere, transfer
  <2>3. StepsLeft' = StepsLeft
    BY <2>2 DEF StepsLeft
  <2> QED
    BY <1>2, <1>6, <2>3
<1> QED
  BY <1>3, <1>4, <1>5, <1>6

(* A transfer has never more to do than two steps for each attempt.        *)
THEOREM TransfersAreShort == Spec => [](StepsLeft \in 0 .. 2 * MAX_DISK_TIMES)
<1>1. FileInv => StepsLeft \in 0 .. 2 * MAX_DISK_TIMES
  <2> SUFFICES ASSUME FileInv PROVE StepsLeft \in 0 .. 2 * MAX_DISK_TIMES
    OBVIOUS
  <2>1. /\ MAX_DISK_TIMES \in Nat /\ times \in Nat /\ MAX_DISK_TIMES - times >= 1
        /\ pc = "transfer" => times > 0
        /\ pc \in {"idle", "check", "transfer"}
    BY AttemptsAssumption DEF FileInv, TypeOK, CallOK
  <2> QED
    BY <2>1 DEF StepsLeft
<1> QED
  BY <1>1, FileCorrect, PTL

(* Each step of a transfer brings it nearer to its end, whatever the       *)
(* system call did: short, zero-length and interrupted transfers count as  *)
(* attempts.  A descriptor closed by somebody else does not set it back.   *)
THEOREM TransfersGoOn ==
  Spec => [][pc # "idle" => StepsLeft' <= StepsLeft /\ (Transfer => StepsLeft' < StepsLeft)]_vars
<1>1. FileInv /\ [Next]_vars
        => [pc # "idle" => StepsLeft' <= StepsLeft /\ (Transfer => StepsLeft' < StepsLeft)]_vars
  BY StepNearer DEF FileInv
<1> QED
  BY <1>1, FileCorrect, PTL DEF Spec
=============================================================================
