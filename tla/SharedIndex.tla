----------------------------- MODULE SharedIndex -----------------------------
(***************************************************************************)
(* Several processes on the index of one block at once.  Each has the file *)
(* mapped MAP_SHARED and runs the operations of IndexHandle in a frame of  *)
(* its own; nothing locks the index.  The frame of the process that runs   *)
(* is in the variables of IndexHandle, those of the others are in frames,  *)
(* and the scheduler may switch between any two stores.                    *)
(***************************************************************************)
EXTENDS IndexHandle

CONSTANTS Writers, Deleters, Readers   \* the processes, by what they call

VARIABLES
  me,       \* the process that runs
  frames,   \* the frames of the others
  stored,   \* history: ids whose write has returned and that nobody deletes
  gone,     \* history: ids that somebody has ever begun to delete
  asked     \* history: the id each process reads, whether it was stored when
            \* the read began, and whether a delete was running meanwhile

Procs == Writers \cup Deleters \cup Readers
ASSUME ProcsAssumption == Procs # {}

index      == <<image, header, pc, call, cursor, ret, bad, lists>>
sharedvars == <<index, me, frames, stored, gone, asked>>

Frame(l, c, p, q, n, r) ==
  [pc |-> l, call |-> c, pos |-> p, previous_offset |-> q, current_offset |-> n, ret |-> r]
IdleFrame == Frame("idle", NoCall, Null, Null, Null, Pending)

SharedInit ==
  /\ Init
  /\ me \in Procs
  /\ frames = [p \in Procs |-> IdleFrame]
  /\ stored = {} /\ gone = {}
  /\ asked = [p \in Procs |-> [key |-> 0, stored |-> FALSE, disturbed |-> FALSE]]

Busy(p) == IF p = me THEN pc # "idle" ELSE frames[p].pc # "idle"

Switch(p) ==
  /\ p # me /\ me' = p
  /\ frames' = [frames EXCEPT
       ![me] = Frame(pc, call, pos, previous_offset, current_offset, ret),
       ![p] = IdleFrame]
  /\ pc' = frames[p].pc /\ call' = frames[p].call /\ ret' = frames[p].ret
  /\ pos' = frames[p].pos
  /\ previous_offset' = frames[p].previous_offset
  /\ current_offset' = frames[p].current_offset
  /\ UNCHANGED <<image, header, bad, lists, stored, gone, asked>>

(* block_write_test takes the id from the header. *)
CallWrite ==
  /\ me \in Writers
  /\ \E size \in Sizes : BeginWrite(block_info.seq_no, size)
  /\ UNCHANGED <<me, frames, stored, gone, asked>>

Deleting == \E p \in Deleters : frames[p].call.op = "delete"

CallRead(k) ==
  /\ me \in Readers
  /\ BeginRead(k)
  /\ asked' = [asked EXCEPT ![me] = [key |-> k, stored |-> k \in stored, disturbed |-> Deleting]]
  /\ UNCHANGED <<me, frames, stored, gone>>

CallDelete(k) ==
  /\ me \in Deleters
  /\ BeginDelete(k)
  /\ stored' = stored \ {k} /\ gone' = gone \cup {k}
  /\ asked' = [p \in Procs |->
       IF p \in Readers /\ Busy(p) THEN [asked[p] EXCEPT !.disturbed = TRUE] ELSE asked[p]]
  /\ UNCHANGED <<me, frames>>

Runs ==
  /\ Step
  /\ stored' = IF pc = "account" THEN stored \cup {Key} ELSE stored
  /\ UNCHANGED <<me, frames, gone, asked>>

Dies == Crash /\ UNCHANGED <<me, frames, stored, gone, asked>>

SharedNext ==
  \/ \E p \in Procs : Switch(p)
  \/ CallWrite \/ \E k \in Keys : CallRead(k) \/ CallDelete(k)
  \/ Runs \/ Dies

SharedSpec == SharedInit /\ [][SharedNext]_sharedvars

(* The scheduler runs every process again and again, and a process inside  *)
(* an operation goes on with it when it is run.                            *)
FairSharedSpec ==
  /\ SharedSpec
  /\ \A p \in Procs : WF_sharedvars(Switch(p)) /\ SF_sharedvars(me = p /\ Runs)

-----------------------------------------------------------------------------
Returned == me \in Readers /\ pc = "idle"

(* A read of an id that was stored when it began and that nobody has ever  *)
(* deleted gives the record of that id, whole, if it gives any             *)
(* (index_handle.h:116), although it looks at the record twice and others  *)
(* are deleted and used again around it; and so does a read of any id as   *)
(* long as nothing is deleted while it runs.                               *)
ReadOwnRecord ==
  /\ ~misrolled /\ Returned /\ ret.status = "TFS_SUCCESS"
  /\ asked[me].disturbed => asked[me].stored /\ asked[me].key \notin gone
  => ret.meta.key = asked[me].key /\ ret.meta.size \in Sizes

(* As long as nothing is deleted while it runs, a read finds every id      *)
(* whose write had returned when it began: a null offset means that the    *)
(* key is not in the index (index_handle.cpp:480), also while records are  *)
(* added to the chain it walks.                                            *)
NotFoundMeansAbsent ==
  /\ ~misrolled /\ Returned /\ ret.status = "EXIT_META_NOT_FOUND_ERROR"
  /\ ~asked[me].disturbed
  => ~asked[me].stored

(* A reader whose record is deleted and reused under it may be led from    *)
(* chain to chain and through the list of reusable records, but when the   *)
(* changes have come to an end, so does its hash_find: nothing it can walk *)
(* into is a cycle.                                                        *)
ReadEnds == \A p \in Readers : Busy(p) ~> ~Busy(p)
=============================================================================
