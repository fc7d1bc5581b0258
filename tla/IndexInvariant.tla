--------------------------- MODULE IndexInvariant ---------------------------
(***************************************************************************)
(* The inductive invariant of IndexHandle: what holds between any two      *)
(* stores of an operation, and is enough to show that the next store keeps *)
(* it.  The proofs about the index rest on it.                             *)
(***************************************************************************)
EXTENDS IndexRefinement

(* Offsets that are about to be dereferenced start a record. *)
OffsetsUsable ==
  /\ pc \in {"found", "write", "link", "release", "push", "uncount"}
       => current_offset \in Nodes
  /\ pc = "allocate" \/ (pc = "find" /\ call.op = "write")
       => free_head_offset # Null \/ index_file_size \in Nodes

TypeInv == TypeOK /\ OffsetsUsable

(* The offsets in the file represent the lists. *)
Represented ==
  \A l \in Lists :
    /\ HeadOf(l) = At(lists[l], 1)
    /\ \A i \in 1 .. Len(lists[l]) : nodes[lists[l][i]].next = At(lists[l], i + 1)

(* No record has two places. *)
Disjoint ==
  \A l, m \in Lists : \A i \in 1 .. Len(lists[l]), j \in 1 .. Len(lists[m]) :
    lists[l][i] = lists[m][j] => l = m /\ i = j

BelowEnd ==
  /\ \A l \in Lists : \A i \in 1 .. Len(lists[l]) : lists[l][i] < index_file_size
  /\ index_file_size >= 1

(* Each file is in the chain of its bucket, and has one record. *)
Placed ==
  /\ \A s \in Slots : \A i \in 1 .. Len(lists[s]) : Slot(nodes[lists[s][i]].key) = s
  /\ \A s, t \in Slots : \A i \in 1 .. Len(lists[s]), j \in 1 .. Len(lists[t]) :
       nodes[lists[s][i]].key = nodes[lists[t][j]].key => s = t /\ i = j

(* What the file alone has to satisfy, whatever operation is running. *)
FileInv == Represented /\ Disjoint /\ BelowEnd /\ Placed

(* The record an operation has in hand is in the file but has no place. *)
HandFree ==
  pc \in {"write", "link", "release", "push"} =>
    /\ current_offset < index_file_size
    /\ \A l \in Lists : \A i \in 1 .. Len(lists[l]) : lists[l][i] # current_offset

Chain == lists[Slot(Key)]

NotIn(c, n) == \A j \in 1 .. n : nodes[c[j]].key # Key

(* The loop invariant of hash_find, and what it leaves to its callers. *)
Searched ==
  /\ pc = "find" =>
       \E i \in 1 .. Len(Chain) + 1 :
         pos = At(Chain, i) /\ previous_offset = At(Chain, i - 1) /\ NotIn(Chain, i - 1)
  /\ pc \in {"allocate", "write", "link"} =>
       previous_offset = At(Chain, Len(Chain)) /\ NotIn(Chain, Len(Chain))
  /\ pc = "found" =>
       \E i \in 1 .. Len(Chain) :
         /\ current_offset = Chain[i] /\ previous_offset = At(Chain, i - 1)
         /\ nodes[Chain[i]].key = Key

(* A record is complete before an offset to it is stored. *)
Prepared ==
  /\ pc = "link" => nodes[current_offset] = [call.meta EXCEPT !.next = Null]
  /\ pc = "push" => nodes[current_offset].next = free_head_offset

ListInv == FileInv /\ HandFree /\ Searched /\ Prepared

(* What a step knows of the call it belongs to: which operation it is, and *)
(* of a write that its data goes where the header said when it began.      *)
CallKnown ==
  /\ IF pc = "idle" THEN call = NoCall ELSE call.op # "none"
  /\ pc \in {"allocate", "write", "link", "commit", "account"} => call.op = "write"
  /\ pc = "found" => call.op # "write"
  /\ pc \in {"release", "push", "uncount"} => call.op = "delete"
  /\ call.op = "write" /\ pc # "account" => call.meta.offset = data_file_offset

(* Until a rollback gives back the wrong record, the offsets, the lists    *)
(* they stand for, and the cursor of the running operation agree.          *)
IndexInv == TypeInv /\ CallKnown /\ (~misrolled => ListInv)
=============================================================================
