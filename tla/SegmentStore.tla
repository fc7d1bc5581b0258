---------------------------- MODULE SegmentStore ----------------------------
(***************************************************************************)
(* What the index of a block promises its callers (index_handle.h): a map  *)
(* from file ids to the place of each file in the main block, changed by   *)
(* one call at a time.  A call takes effect in one step or not at all.     *)
(* A write that reports an error has had no effect; a delete that reports  *)
(* a disk error, and any call the process died in, may have had it.        *)
(***************************************************************************)
EXTENDS Naturals

CONSTANT Keys      \* the file ids

VARIABLES
  segments,   \* the place of each file that is stored
  call,       \* the call under way
  done,       \* whether it has taken effect
  ret         \* what the last call returned

vars == <<segments, call, done, ret>>

Segments == [offset : Nat, size : Nat]
NoSegment == [offset |-> 0, size |-> 0]
Calls == [op : {"write", "read", "delete"}, key : Keys, segment : Segments]
NoCall == [op |-> "none", key |-> 0, segment |-> NoSegment]
Answer(status, segment) == [status |-> status, segment |-> segment]
Pending == Answer("pending", NoSegment)

Stored == DOMAIN segments

Init ==
  /\ segments = [k \in {} |-> NoSegment]
  /\ call = NoCall /\ done = FALSE
  /\ ret = Pending

Begin ==
  /\ call = NoCall
  /\ call' \in Calls
  /\ done' = FALSE /\ ret' = Pending
  /\ UNCHANGED segments

Insert ==
  /\ call.op = "write" /\ ~done
  /\ call.key \notin Stored
  /\ segments' = [k \in Stored \cup {call.key} |->
                    IF k = call.key THEN call.segment ELSE segments[k]]
  /\ done' = TRUE
  /\ UNCHANGED <<call, ret>>

Remove ==
  /\ call.op = "delete" /\ ~done
  /\ call.key \in Stored
  /\ segments' = [k \in Stored \ {call.key} |-> segments[k]]
  /\ done' = TRUE
  /\ UNCHANGED <<call, ret>>

(* The answers a call may give, from what the map holds as it returns. *)
Right(answer) ==
  \/ done /\ answer = Answer("TFS_SUCCESS", NoSegment)
  \/ /\ call.op = "read" /\ call.key \in Stored
     /\ answer = Answer("TFS_SUCCESS", segments[call.key])
  \/ /\ call.op = "write" /\ ~done /\ call.key \in Stored
     /\ answer = Answer("EXIT_META_UNEXPECT_FOUND_ERROR", NoSegment)
  \/ /\ call.op # "write" /\ ~done /\ call.key \notin Stored
     /\ answer = Answer("EXIT_META_NOT_FOUND_ERROR", NoSegment)
  \/ /\ done => call.op = "delete"
     /\ answer = Answer("DISK_ERROR", NoSegment)

Return ==
  /\ call # NoCall
  /\ Right(ret')
  /\ call' = NoCall /\ done' = FALSE
  /\ UNCHANGED segments

Crash ==
  /\ call # NoCall
  /\ call' = NoCall /\ done' = FALSE /\ ret' = Pending
  /\ UNCHANGED segments

Next == Begin \/ Insert \/ Remove \/ Return \/ Crash

Spec == Init /\ [][Next]_vars
=============================================================================
