--------------------------- MODULE FileProperties ---------------------------
(***************************************************************************)
(* What FileOperation promises its callers.                                *)
(***************************************************************************)
EXTENDS FileOperation

(* Every variable keeps to the values the class and the kernel give it; in *)
(* particular a transfer never makes more than MAX_DISK_TIMES - 1 attempts *)
(* and never moves more than it was asked to.                              *)
TypeOK ==
  /\ fd \in Descriptors \cup {Closed}
  /\ DOMAIN opened \subseteq Descriptors /\ \A d \in DOMAIN opened : opened[d] \in Nat
  /\ exists \in BOOLEAN
  /\ file \in Seq(Byte) /\ Len(file) <= MaxFileSize
  /\ pc \in {"idle", "check", "transfer"}
  /\ times \in 0 .. MAX_DISK_TIMES - 1
  /\ moved \in 0 .. call.nbytes
  /\ buf \in Seq(Byte)
  /\ closes \in 0 .. MaxCloses

(* A call that has written the first k bytes of its buffer. *)
Wrote(c, k) == file = Overlay(c.before, Payload(k), c.offset)

(* pwrite_file puts a prefix of the buffer at the offset it was given and  *)
(* touches nothing else, whatever mixture of short writes, interrupts and  *)
(* reopenings it meets.                                                    *)
PwriteInPlace == pc # "idle" /\ call.op = "pwrite" => Wrote(call, moved)

(* write_file does the same where the descriptor stands, unless it has to  *)
(* open the file again in the middle: the new descriptor stands at 0.      *)
WriteInPlace ==
  pc # "idle" /\ call.op = "write" /\ ~call.reopened => Wrote(call, moved)

(* pread_file has put in the buffer what the file holds at the offset it   *)
(* was given, as far as it got.                                            *)
PreadInPlace ==
  pc # "idle" /\ call.op = "pread" =>
    /\ Len(buf) = moved
    /\ \A i \in 1 .. moved : call.offset + i <= Len(file) /\ buf[i] = file[call.offset + i]

(* A transfer reports success if and only if all of the bytes are where    *)
(* they were asked for: never after a part of them, and never an error     *)
(* once the last one has arrived.  A pread_file or pwrite_file that had to *)
(* open the file again is no exception; a write_file is, as above.         *)
SuccessIsComplete ==
  [][pc # "idle" /\ pc' = "idle" /\ ~(call.op = "write" /\ call.reopened) =>
       (status' = "TFS_SUCCESS" <=>
          IF call.op = "pread"
          THEN Len(buf) = call.nbytes /\ \A i \in 1 .. Len(buf) : buf[i] = file[call.offset + i]
          ELSE moved = call.nbytes /\ Wrote(call, call.nbytes))]_vars

(* Reopening closes what was open (file_op.cpp:31): the object holds one   *)
(* descriptor at most, and the process none that the object has lost, but  *)
(* for descriptor 0, which open_file and the destructor take for none.     *)
OneDescriptor == DOMAIN opened \subseteq {fd, 0}

(* Every transfer returns: interrupts, zero-length writes and descriptors  *)
(* that go bad cannot keep it in its loop.                                 *)
TransferReturns == (pc # "idle") ~> (pc = "idle")
=============================================================================
