------------------------------ MODULE ByteFile ------------------------------
(***************************************************************************)
(* What MMapFileOperation promises its callers (mmap_file_op.h): a file    *)
(* that reads as zeros where nothing was written, transfers that move      *)
(* their units one after the other, and success only when all have moved.  *)
(* Whether a unit goes through a mapping or through the descriptor, and    *)
(* how mapping and file grow, cannot be told from outside.                 *)
(***************************************************************************)
EXTENDS Naturals, Sequences

CONSTANTS Procs, Zero

VARIABLES
  contents,   \* what each place of the file holds
  call,       \* the transfer each process is making
  buf,        \* what a read has found so far
  moved,      \* how much of it has moved
  ret         \* what the last transfer of each process returned

vars == <<contents, call, buf, moved, ret>>

NoCall == [op |-> "none", offset |-> 0, data |-> << >>]
Left(p) == moved[p] < Len(call[p].data)
Place(p) == call[p].offset + moved[p]

Init ==
  /\ \A i \in DOMAIN contents : contents[i] = Zero
  /\ call = [p \in Procs |-> NoCall]
  /\ buf = [p \in Procs |-> << >>] /\ moved = [p \in Procs |-> 0]
  /\ ret = [p \in Procs |-> [status |-> "none", found |-> << >>]]

Begin(p) ==
  /\ call[p] = NoCall
  /\ \A q \in Procs \ {p} : call'[q] = call[q]
  /\ call'[p].op \in {"read", "write"}
  /\ UNCHANGED <<contents, buf, moved, ret>>

Move(p) ==
  /\ Left(p)
  /\ \/ /\ call[p].op = "write"
        /\ contents' = [contents EXCEPT ![Place(p)] = call[p].data[moved[p] + 1]]
        /\ UNCHANGED buf
     \/ /\ call[p].op = "read"
        /\ buf' = [buf EXCEPT ![p] = Append(@, contents[Place(p)])]
        /\ UNCHANGED contents
  /\ moved' = [moved EXCEPT ![p] = @ + 1]
  /\ UNCHANGED <<call, ret>>

Leave(p) ==
  /\ call' = [call EXCEPT ![p] = NoCall]
  /\ buf' = [buf EXCEPT ![p] = << >>] /\ moved' = [moved EXCEPT ![p] = 0]
  /\ UNCHANGED contents

Return(p) ==
  /\ call[p] # NoCall
  /\ \E status \in {"TFS_SUCCESS", "error"} :
       /\ status = "TFS_SUCCESS" => ~Left(p)
       /\ ret' = [ret EXCEPT ![p] = [status |-> status, found |-> buf[p]]]
  /\ Leave(p)

Die(p) == call[p] # NoCall /\ Leave(p) /\ UNCHANGED ret

Next == \E p \in Procs : Begin(p) \/ Move(p) \/ Return(p) \/ Die(p)

Spec == Init /\ [][Next]_vars
=============================================================================
