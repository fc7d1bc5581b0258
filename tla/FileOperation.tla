---------------------------- MODULE FileOperation ----------------------------
(***************************************************************************)
(* One FileOperation object (mmap/file_op.cpp): a file name, a descriptor  *)
(* that is opened when first needed, and transfers that repeat the system  *)
(* call until everything is moved, an error is final, or the attempts are  *)
(* used up.                                                                *)
(*                                                                         *)
(* The system calls are modelled by the outcomes the code tells apart: a   *)
(* transfer may be short, interrupted, refused for a descriptor that is    *)
(* not open, or fail.  Descriptors are numbers the kernel hands out lowest *)
(* first; somebody else in the process may close one.                      *)
(***************************************************************************)
EXTENDS Integers, Sequences

CONSTANTS
  MAX_DISK_TIMES,   \* attempts of a transfer are numbered below this
  CREAT,            \* whether open_flags_ has O_CREAT
  FirstDescriptor,  \* the lowest descriptor the process has free at start
  Descriptors,      \* descriptors the process may have
  MaxBytes,         \* bound: length of a transfer
  MaxFileSize,      \* bound: length of the file
  MaxCloses         \* bound: descriptors closed by somebody else

ASSUME AttemptsAssumption == MAX_DISK_TIMES \in Nat \ {0}
ASSUME FlagsAssumption == CREAT \in BOOLEAN
ASSUME DescriptorsAssumption == Descriptors \subseteq Nat /\ FirstDescriptor \in Descriptors
ASSUME SizesAssumption == MaxBytes \in Nat /\ MaxFileSize \in Nat /\ MaxCloses \in Nat

VARIABLES
  fd,         \* fd_
  opened,     \* the file offset of each descriptor the process has open
  exists,     \* whether the name is in its directory
  file,       \* the bytes of the file
  pc,         \* the next step of the running transfer
  call,       \* its arguments
  moved,      \* bytes transferred so far
  times,      \* attempts made, i in the code
  buf,        \* what a read has put in the caller's buffer
  status,     \* what the last transfer returned
  closes      \* how many descriptors were closed by somebody else

kernel   == <<opened, exists, file>>
transfer == <<pc, call, moved, times, buf, status>>
vars     == <<fd, kernel, transfer, closes>>

-----------------------------------------------------------------------------
Closed == -1
Byte == 0 .. MaxBytes      \* 0 is what a gap in the file reads as

(* The bytes of a caller's buffer, told apart by their place in it. *)
Payload(n) == [i \in 1 .. n |-> i]

Larger(m, n) == IF m > n THEN m ELSE n

(* The file after the bytes of s were written behind its first offset bytes. *)
Overlay(f, s, offset) ==
  IF s = << >> THEN f
  ELSE [i \in 1 .. Larger(Len(f), offset + Len(s)) |->
          IF i \in offset + 1 .. offset + Len(s) THEN s[i - offset]
          ELSE IF i <= Len(f) THEN f[i] ELSE 0]

NoCall == [op |-> "none", nbytes |-> 0, offset |-> 0, before |-> << >>, reopened |-> FALSE]

Init ==
  /\ fd = Closed
  /\ opened = [d \in {} |-> 0]
  /\ exists \in BOOLEAN
  /\ file = << >>
  /\ pc = "idle" /\ call = NoCall /\ moved = 0 /\ times = 0 /\ buf = << >>
  /\ status = "none"
  /\ closes = 0

-----------------------------------------------------------------------------
(* System calls *)

IsOpen(d) == d \in DOMAIN opened

(* The descriptors open() may still hand out; it fails when there is none. *)
Spare(table) == {d \in Descriptors : d >= FirstDescriptor /\ d \notin DOMAIN table}

(* open(file_name_, open_flags_, OPEN_MODE) into fd_, and the offset there. *)
OpensAt(table, offset) ==
  /\ exists \/ CREAT
  /\ \E d \in Spare(table) :
       /\ \A e \in Spare(table) : d <= e
       /\ fd' = d
       /\ opened' = [e \in DOMAIN table \cup {d} |-> IF e = d THEN offset ELSE table[e]]
  /\ exists' = TRUE

Contents == IF exists THEN file ELSE << >>

Opens(table) == OpensAt(table, 0) /\ file' = Contents

Without(table, d) == [e \in DOMAIN table \ {d} |-> table[e]]

-----------------------------------------------------------------------------
(* Variants with a bug each, which the properties have to notice.          *)

AttemptOneMore ==
  /\ pc = "check" /\ moved < call.nbytes
  /\ times + 1 <= MAX_DISK_TIMES

InterruptedUncounted ==
  /\ pc = "transfer"
  /\ times' = times - 1
  /\ pc' = "check"
  /\ UNCHANGED <<fd, kernel, call, moved, buf, status, closes>>

PwriteSomeKeepsOffset ==
  /\ pc = "transfer" /\ call.op = "pwrite" /\ IsOpen(fd)
  /\ \E len \in 0 .. call.nbytes - moved :
       /\ file' = Overlay(file, SubSeq(Payload(call.nbytes), moved + 1, moved + len), call.offset)
       /\ moved' = moved + len
  /\ pc' = "check"
  /\ UNCHANGED <<fd, opened, exists, call, times, buf, status, closes>>

PreadSomeKeepsOffset ==
  /\ pc = "transfer" /\ call.op = "pread" /\ IsOpen(fd)
  /\ \E len \in 1 .. call.nbytes - moved :
       /\ call.offset + len <= Len(file)
       /\ buf' = buf \o SubSeq(file, call.offset + 1, call.offset + len)
       /\ moved' = moved + len
  /\ pc' = "check"
  /\ UNCHANGED <<fd, kernel, call, times, status, closes>>

WriteSomeKeepsPointer ==
  /\ pc = "transfer" /\ call.op = "write" /\ IsOpen(fd)
  /\ \E len \in 0 .. call.nbytes - moved :
       /\ file' = Overlay(file, SubSeq(Payload(call.nbytes), 1, len), opened[fd])
       /\ opened' = [opened EXCEPT ![fd] = @ + len]
       /\ moved' = moved + len
  /\ pc' = "check"
  /\ UNCHANGED <<fd, exists, call, times, buf, status, closes>>

EndOfFileSucceeds ==
  /\ pc = "transfer" /\ call.op = "pread" /\ IsOpen(fd)
  /\ call.offset + moved >= Len(file)
  /\ pc' = "idle" /\ status' = "TFS_SUCCESS"
  /\ call' = NoCall /\ moved' = 0 /\ times' = 0 /\ buf' = << >>
  /\ UNCHANGED <<fd, kernel, closes>>

OpenFileKeepsOld ==
  /\ pc = "idle"
  /\ Opens(opened)
  /\ UNCHANGED <<transfer, closes>>

-----------------------------------------------------------------------------
(* pread_file, pwrite_file and write_file *)

Start(op, nbytes, offset) ==
  /\ pc = "idle"
  /\ pc' = "check"
  /\ call' = [op |-> op, nbytes |-> nbytes, offset |-> offset, before |-> file,
              reopened |-> FALSE]
  /\ moved' = 0 /\ times' = 0 /\ buf' = << >> /\ status' = "none"
  /\ UNCHANGED <<fd, kernel, closes>>

PreadFile(nbytes, offset) == Start("pread", nbytes, offset)

PwriteFile(nbytes, offset) ==
  offset + nbytes <= MaxFileSize /\ Start("pwrite", nbytes, offset)

(* The bytes go where the descriptor stands, which is 0 if it is yet to be opened. *)
WriteFile(nbytes) ==
  LET offset == IF fd # Closed /\ IsOpen(fd) THEN opened[fd] ELSE 0
  IN  offset + nbytes <= MaxFileSize /\ Start("write", nbytes, offset)

Return(answer) ==
  /\ pc' = "idle" /\ status' = answer
  /\ call' = NoCall /\ moved' = 0 /\ times' = 0 /\ buf' = << >>
  /\ UNCHANGED closes

Done ==
  /\ pc = "check" /\ moved = call.nbytes
  /\ Return("TFS_SUCCESS")
  /\ UNCHANGED <<fd, kernel>>

GiveUp ==
  /\ pc = "check" /\ moved < call.nbytes
  /\ times + 1 >= MAX_DISK_TIMES
  /\ Return("EXIT_DISK_OPER_INCOMPLETE")
  /\ UNCHANGED <<fd, kernel>>

Attempt ==
  /\ pc = "check" /\ moved < call.nbytes
  /\ times + 1 < MAX_DISK_TIMES

(* check_file with the descriptor it has. *)
CheckFile ==
  /\ Attempt /\ fd # Closed
  /\ times' = times + 1 /\ pc' = "transfer"
  /\ UNCHANGED <<fd, kernel, call, moved, buf, status, closes>>

(* check_file when there is none. *)
CheckFileOpens ==
  /\ Attempt /\ fd = Closed
  /\ Opens(opened)
  /\ times' = times + 1 /\ pc' = "transfer"
  /\ call' = [call EXCEPT !.reopened = times > 0,
                          !.before = IF times = 0 THEN file' ELSE @]
  /\ UNCHANGED <<moved, buf, status, closes>>

CheckFileFails ==
  /\ Attempt /\ fd = Closed
  /\ Return("-errno")
  /\ UNCHANGED <<fd, kernel>>

(* EINTR or EAGAIN *)
Interrupted ==
  /\ pc = "transfer"
  /\ pc' = "check"
  /\ UNCHANGED <<fd, kernel, call, moved, times, buf, status, closes>>

(* Any other error that is not about the descriptor. *)
Fails ==
  /\ pc = "transfer"
  /\ Return("-errno")
  /\ UNCHANGED <<fd, kernel>>

(* EBADF: the descriptor is forgotten, and a write opens the file again. *)
BadDescriptor ==
  /\ pc = "transfer" /\ ~IsOpen(fd)
  /\ fd' = Closed
  /\ \/ call.op = "pread" /\ Return("-errno")
     \/ /\ call.op # "pread"
        /\ pc' = "check"
        /\ UNCHANGED <<call, moved, times, buf, status, closes>>
  /\ UNCHANGED kernel

EndOfFile ==
  /\ pc = "transfer" /\ call.op = "pread" /\ IsOpen(fd)
  /\ call.offset + moved >= Len(file)
  /\ Return("EXIT_DISK_OPER_INCOMPLETE")
  /\ UNCHANGED <<fd, kernel>>

PreadSome ==
  /\ pc = "transfer" /\ call.op = "pread" /\ IsOpen(fd)
  /\ \E len \in 1 .. call.nbytes - moved :
       LET from == call.offset + moved
       IN  /\ from + len <= Len(file)
           /\ buf' = buf \o SubSeq(file, from + 1, from + len)
           /\ moved' = moved + len
  /\ pc' = "check"
  /\ UNCHANGED <<fd, kernel, call, times, status, closes>>

PwriteSome ==
  /\ pc = "transfer" /\ call.op = "pwrite" /\ IsOpen(fd)
  /\ \E len \in 0 .. call.nbytes - moved :
       /\ file' = Overlay(file, SubSeq(Payload(call.nbytes), moved + 1, moved + len),
                          call.offset + moved)
       /\ moved' = moved + len
  /\ pc' = "check"
  /\ UNCHANGED <<fd, opened, exists, call, times, buf, status, closes>>

WriteSome ==
  /\ pc = "transfer" /\ call.op = "write" /\ IsOpen(fd)
  /\ \E len \in 0 .. call.nbytes - moved :
       /\ file' = Overlay(file, SubSeq(Payload(call.nbytes), moved + 1, moved + len), opened[fd])
       /\ opened' = [opened EXCEPT ![fd] = @ + len]
       /\ moved' = moved + len
  /\ pc' = "check"
  /\ UNCHANGED <<fd, exists, call, times, buf, status, closes>>

-----------------------------------------------------------------------------
(* The operations that are one system call, after check_file. *)

(* open_file; a failing open leaves the descriptor closed as well. *)
OpenFile ==
  /\ pc = "idle"
  /\ LET table == IF fd > 0 THEN Without(opened, fd) ELSE opened
     IN  \/ Opens(table)
         \/ fd' = Closed /\ opened' = table /\ UNCHANGED <<exists, file>>
  /\ UNCHANGED <<transfer, closes>>

CloseFile ==
  /\ pc = "idle" /\ fd # Closed
  /\ opened' = Without(opened, fd) /\ fd' = Closed
  /\ UNCHANGED <<exists, file, transfer, closes>>

(* flush_file and get_file_size change something only if the file is not open. *)
UseFile ==
  /\ pc = "idle" /\ fd = Closed
  /\ Opens(opened)
  /\ UNCHANGED <<transfer, closes>>

UnlinkFile ==
  /\ pc = "idle" /\ exists
  /\ opened' = Without(opened, fd) /\ fd' = Closed
  /\ exists' = FALSE /\ file' = << >>
  /\ UNCHANGED <<transfer, closes>>

Resized(f, length) == [i \in 1 .. length |-> IF i <= Len(f) THEN f[i] ELSE 0]

FtruncateFile(length) ==
  /\ pc = "idle"
  /\ \/ fd # Closed /\ IsOpen(fd) /\ UNCHANGED <<fd, opened, exists>>
     \/ fd = Closed /\ OpensAt(opened, 0)
  /\ file' = Resized(Contents, length)
  /\ UNCHANGED <<transfer, closes>>

SeekFile(offset) ==
  /\ pc = "idle"
  /\ \/ /\ fd # Closed /\ IsOpen(fd)
        /\ opened' = [opened EXCEPT ![fd] = offset]
        /\ UNCHANGED <<fd, exists>>
     \/ fd = Closed /\ OpensAt(opened, offset)
  /\ file' = Contents
  /\ UNCHANGED <<transfer, closes>>

(* The destructor, and the constructor of the next object. *)
Renew ==
  /\ pc = "idle"
  /\ opened' = IF fd > 0 THEN Without(opened, fd) ELSE opened
  /\ fd' = Closed
  /\ UNCHANGED <<exists, file, transfer, closes>>

(* Somebody else closes the descriptor; the object does not notice. *)
ClosedElsewhere ==
  /\ fd # Closed /\ IsOpen(fd) /\ closes < MaxCloses
  /\ opened' = Without(opened, fd)
  /\ closes' = closes + 1
  /\ UNCHANGED <<fd, exists, file, transfer>>

Transfer ==
  \/ Done \/ GiveUp \/ CheckFile \/ CheckFileOpens \/ CheckFileFails
  \/ Interrupted \/ Fails \/ BadDescriptor \/ EndOfFile
  \/ PreadSome \/ PwriteSome \/ WriteSome

Begin ==
  \E nbytes \in 0 .. MaxBytes :
    \/ \E offset \in 0 .. MaxFileSize : PreadFile(nbytes, offset) \/ PwriteFile(nbytes, offset)
    \/ WriteFile(nbytes)

Manage ==
  \/ OpenFile \/ CloseFile \/ UseFile \/ UnlinkFile \/ Renew
  \/ \E length \in 0 .. MaxFileSize : FtruncateFile(length) \/ SeekFile(length)

Next == Begin \/ Transfer \/ Manage \/ ClosedElsewhere

Spec == Init /\ [][Next]_vars
FairSpec == Spec /\ WF_vars(Transfer)
=============================================================================
