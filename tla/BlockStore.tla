----------------------------- MODULE BlockStore -----------------------------
(***************************************************************************)
(* What the programs on a block promise whoever runs them: files by id.    *)
(* A file that was said to be written is there with its data until it is   *)
(* deleted.  Of a write or a delete that has not said how it went, because *)
(* it died or failed, nothing is known until a later delete has succeeded. *)
(***************************************************************************)
EXTENDS Naturals, Sequences

VARIABLES
  files,      \* the data of each file that is promised
  doubtful,   \* ids that may or may not be stored
  program,    \* what is running
  file_id,    \* the id it works on
  data,       \* what it writes
  printed     \* what the last program said

vars == <<files, doubtful, program, file_id, data, printed>>

NotFound == "EXIT_META_NOT_FOUND_ERROR"
Errors == {"failed", "DISK_ERROR"}
Ids == DOMAIN files

Init == files = [k \in {} |-> << >>] /\ doubtful = {} /\ program = "none"

(* A write gets an id that no promised file has. *)
StartWrite ==
  /\ program = "none" /\ program' = "write"
  /\ file_id' \notin Ids
  /\ doubtful' = doubtful \cup {file_id'}
  /\ UNCHANGED files

StartRead ==
  /\ program = "none" /\ program' = "read"
  /\ UNCHANGED <<files, doubtful>>

StartDelete ==
  /\ program = "none" /\ program' = "delete"
  /\ files' = [k \in Ids \ {file_id'} |-> files[k]]
  /\ doubtful' = doubtful \cup {file_id'}

Finish(op) ==
  /\ program = op /\ program' = "none"
  /\ printed'.id = file_id

FinishWrite ==
  /\ Finish("write")
  /\ \/ /\ printed'.claim
        /\ files' = [k \in Ids \cup {file_id} |-> IF k = file_id THEN data ELSE files[k]]
        /\ doubtful' = doubtful \ {file_id}
     \/ ~printed'.claim /\ UNCHANGED <<files, doubtful>>

(* What a read may say of a promised id, of one that is not stored, and of *)
(* one that may be.                                                        *)
FinishRead ==
  /\ Finish("read")
  /\ \/ printed'.status \in Errors
     \/ file_id \in Ids /\ printed'.claim /\ printed'.data = files[file_id]
     \/ file_id \notin Ids \cup doubtful /\ printed'.status = NotFound
     \/ file_id \in doubtful
  /\ UNCHANGED <<files, doubtful>>

FinishDelete ==
  /\ Finish("delete")
  /\ \/ printed'.status \notin Errors /\ doubtful' = doubtful \ {file_id}
     \/ printed'.status \in Errors /\ UNCHANGED doubtful
  /\ UNCHANGED files

Die ==
  /\ program # "none" /\ program' = "none"
  /\ UNCHANGED <<files, doubtful, printed>>

Next == StartWrite \/ StartRead \/ StartDelete \/ FinishWrite \/ FinishRead \/ FinishDelete \/ Die

Spec == Init /\ [][Next]_vars
=============================================================================
