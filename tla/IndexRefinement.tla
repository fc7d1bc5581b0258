-------------------------- MODULE IndexRefinement --------------------------
(***************************************************************************)
(* The index as its callers see it: the state of IndexHandle mapped to the *)
(* state of SegmentStore.  A write takes effect when its record is linked  *)
(* to the chain, a delete when the record is unlinked.                     *)
(***************************************************************************)
EXTENDS IndexProperties

Segment(meta) == [offset |-> meta.offset, size |-> meta.size]

RecordOf(k) == CHOOSE n \in Live : nodes[n].key = k

SegmentsOf ==
  [k \in {nodes[n].key : n \in Live} |-> Segment(nodes[RecordOf(k)])]

Store == INSTANCE SegmentStore WITH
  segments <- SegmentsOf,
  call <- [op |-> call.op, key |-> call.meta.key, segment |-> Segment(call.meta)],
  done <- pc \in {"commit", "account", "release", "push", "uncount"},
  ret <- [status |-> ret.status, segment |-> Segment(ret.meta)]

(* The index implements SegmentStore for as long as no rollback of         *)
(* hash_insert gives back a record that is not the last of the file: every *)
(* call takes effect at one step, answers what the map holds, and a write  *)
(* that fails, or a crash, leaves every other file where it was.           *)
ImplementsStore == Store!Init /\ [][misrolled' \/ Store!Next]_(Store!vars)
=============================================================================
