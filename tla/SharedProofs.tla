----------------------------- MODULE SharedProofs -----------------------------
(***************************************************************************)
(* A read beside a process that writes and deletes, for any number of      *)
(* readers, ids, buckets, records, crashes and errors: it gives the record *)
(* of the id it was asked for, and finds what is there.  One process       *)
(* changes the index; with two of them it would not stay intact.           *)
(***************************************************************************)
EXTENDS SharedIndex, IndexDataProofs

Changer == CHOOSE p \in Procs : p \in Writers \cup Deleters
OneChanger == Writers \cup Deleters = {Changer} /\ Changer \notin Readers

(* The frame of a process, wherever it is, and of the one that changes the *)
(* index. *)
FrameOf(p) ==
  IF p = me THEN Frame(pc, call, pos, previous_offset, current_offset, ret) ELSE frames[p]
Theirs == FrameOf(Changer)

FrameType ==
  [pc : {"idle", "find", "found", "allocate", "write", "link", "commit", "account",
         "release", "push", "uncount"},
   call : [op : {"none", "write", "read", "delete"}, meta : MetaInfo],
   pos : Nodes \cup {Null}, previous_offset : Nodes \cup {Null},
   current_offset : Nodes \cup {Null},
   ret : [status : {"pending", "TFS_SUCCESS", "EXIT_META_UNEXPECT_FOUND_ERROR",
                    "EXIT_META_NOT_FOUND_ERROR", "DISK_ERROR"},
          meta : MetaInfo]]

(* What a frame satisfies whatever the others do to the file. *)
FrameOK(f) ==
  /\ f.pc \in {"found", "write", "link", "release", "push", "uncount"} => f.current_offset \in Nodes
  /\ IF f.pc = "idle" THEN f.call = NoCall ELSE f.call.op # "none"
  /\ f.pc \in {"allocate", "write", "link", "commit", "account"} => f.call.op = "write"
  /\ f.pc = "found" => f.call.op # "write"
  /\ f.pc \in {"release", "push", "uncount"} => f.call.op = "delete"

(* The rest of TypeInv and CallKnown, for the process that changes it. *)
RoomFor(f) ==
  /\ f.pc = "allocate" \/ (f.pc = "find" /\ f.call.op = "write")
       => free_head_offset # Null \/ index_file_size \in Nodes
  /\ f.call.op = "write" /\ f.pc # "account" => f.call.meta.offset = data_file_offset

Framed ==
  /\ TypeOK /\ me \in Procs /\ frames \in [Procs -> FrameType]
  /\ \A p \in Procs : FrameOK(FrameOf(p))
  /\ \A p \in Procs \ {Changer} : FrameOf(p).call.op \in {"none", "read"}
  /\ RoomFor(Theirs)
  /\ stored \subseteq Nat
  /\ asked \in [Procs -> [key : Nat, stored : BOOLEAN, disturbed : BOOLEAN]]

(* ListInv of the process that changes the index. *)
ChainOf(f) == lists[Slot(f.call.meta.key)]
NotBefore(c, n, k) == \A j \in 1 .. n : nodes[c[j]].key # k

HandOf(f) ==
  f.pc \in {"write", "link", "release", "push"} =>
    /\ f.current_offset < index_file_size
    /\ \A l \in Lists : \A i \in 1 .. Len(lists[l]) : lists[l][i] # f.current_offset

SearchOf(f) ==
  /\ f.pc = "find" =>
       \E i \in 1 .. Len(ChainOf(f)) + 1 :
         /\ f.pos = At(ChainOf(f), i) /\ f.previous_offset = At(ChainOf(f), i - 1)
         /\ NotBefore(ChainOf(f), i - 1, f.call.meta.key)
  /\ f.pc \in {"allocate", "write", "link"} =>
       /\ f.previous_offset = At(ChainOf(f), Len(ChainOf(f)))
       /\ NotBefore(ChainOf(f), Len(ChainOf(f)), f.call.meta.key)
  /\ f.pc = "found" =>
       \E i \in 1 .. Len(ChainOf(f)) :
         /\ f.current_offset = ChainOf(f)[i] /\ f.previous_offset = At(ChainOf(f), i - 1)
         /\ nodes[ChainOf(f)[i]].key = f.call.meta.key

PreparedOf(f) ==
  /\ f.pc = "link" => nodes[f.current_offset] = [f.call.meta EXCEPT !.next = Null]
  /\ f.pc = "push" => nodes[f.current_offset].next = free_head_offset

ListsOf(f) == FileInv /\ HandOf(f) /\ SearchOf(f) /\ PreparedOf(f)

(* Which ids that process works on, and how far it is with them. *)
MeantBy(f) ==
  /\ f.call.op = "write" => f.call.meta.key = block_info.seq_no /\ f.call.meta.size \in Sizes
  /\ f.call.op = "delete" => f.call.meta.key \in gone \ stored /\ Changer \in Deleters
  /\ f.pc \in {"commit", "account"} =>
       f.current_offset \in Live /\ nodes[f.current_offset].key = f.call.meta.key
  /\ f.pc \in {"release", "push"} => nodes[f.current_offset].key = f.call.meta.key

(* What the records tell of the ids that were stored and deleted. *)
Told ==
  /\ \A k \in stored : k < block_info.seq_no /\ \E n \in Live : nodes[n].key = k
  /\ \A n \in Free : nodes[n].key \in gone
  /\ \A n \in Live : nodes[n].size \in Sizes

(* Records a reader may walk about in without ever meeting another record  *)
(* with the id k than that of the file. *)
Safe(U, k) ==
  /\ Live \subseteq U /\ Free \subseteq U
  /\ \A n \in U : nodes[n].next \in U \cup {Null} /\ (nodes[n].key = k => n \in Live)

(* Where a reader with the frame f stands, that has asked a. *)
Known(a) == a.stored /\ a.key \notin gone
Trusted(a) == a.disturbed => Known(a)

Asking(f, a) ==
  f.pc # "idle" =>
    /\ f.pc \in {"find", "found"}
    /\ f.call.op = "read" /\ f.call.meta.key = a.key
    /\ a.stored /\ Trusted(a) => a.key \in stored
    /\ ~a.disturbed => Theirs.call.op # "delete"

Walking(f, a) ==
  f.pc = "find" =>
    /\ Known(a) /\ f.pos # Null => \E U \in SUBSET Nodes : f.pos \in U /\ Safe(U, a.key)
    /\ ~a.disturbed =>
         IF f.pos = Null THEN ~a.stored
         ELSE \E i \in 1 .. Len(lists[Slot(a.key)]) :
                f.pos = lists[Slot(a.key)][i] /\ NotBefore(lists[Slot(a.key)], i - 1, a.key)

Standing(f, a) ==
  f.pc = "found" /\ Trusted(a) => f.current_offset \in Live /\ nodes[f.current_offset].key = a.key

Answered(f, a) ==
  f.pc = "idle" =>
    /\ f.ret.status = "TFS_SUCCESS" /\ Trusted(a) =>
         f.ret.meta.key = a.key /\ f.ret.meta.size \in Sizes
    /\ f.ret.status = "EXIT_META_NOT_FOUND_ERROR" /\ ~a.disturbed => ~a.stored

Reads(f, a) == Asking(f, a) /\ Walking(f, a) /\ Standing(f, a) /\ Answered(f, a)

(* The inductive invariant. *)
SharedInv ==
  /\ Framed
  /\ ~misrolled =>
       /\ ListsOf(Theirs) /\ MeantBy(Theirs) /\ Told
       /\ \A p \in Readers : Reads(FrameOf(p), asked[p])

-----------------------------------------------------------------------------
(* Frames *)

LEMMA Roles ==
  ASSUME OneChanger
  PROVE  /\ Changer \in Procs /\ Readers \subseteq Procs /\ Changer \notin Readers
         /\ \A p \in Procs : p = Changer \/ (p \in Readers /\ p \notin Writers \cup Deleters)
BY DEF OneChanger, Procs

(* The frame of the process that runs is in the variables of IndexHandle.  *)
LEMMA MyFrame ==
  /\ FrameOf(me).pc = pc /\ FrameOf(me).call = call /\ FrameOf(me).pos = pos
  /\ FrameOf(me).previous_offset = previous_offset
  /\ FrameOf(me).current_offset = current_offset /\ FrameOf(me).ret = ret
BY DEF FrameOf, Frame

LEMMA MyFrameNext ==
  ASSUME me' = me
  PROVE  /\ FrameOf(me)'.pc = pc' /\ FrameOf(me)'.call = call' /\ FrameOf(me)'.pos = pos'
         /\ FrameOf(me)'.previous_offset = previous_offset'
         /\ FrameOf(me)'.current_offset = current_offset' /\ FrameOf(me)'.ret = ret'
BY DEF FrameOf, Frame

(* A step of one process leaves the frames of the others.                  *)
LEMMA OthersFrame ==
  ASSUME UNCHANGED <<me, frames>>, NEW p \in Procs, p # me
  PROVE  FrameOf(p)' = FrameOf(p) /\ FrameOf(p) = frames[p]
BY DEF FrameOf

(* The scheduler changes no frame.                                         *)
LEMMA SwitchFrames ==
  ASSUME Framed, NEW q \in Procs, Switch(q), NEW p \in Procs
  PROVE  FrameOf(p)' = FrameOf(p)
<1>1. me \in Procs /\ frames \in [Procs -> FrameType] /\ q # me /\ me' = q
  BY DEF Framed, Switch
<1>2. CASE p = q
  <2>1. FrameOf(p)' = Frame(pc', call', pos', previous_offset', current_offset', ret')
    BY <1>1, <1>2 DEF FrameOf
  <2>2. frames[q] \in FrameType
    BY <1>1
  <2>3. frames[q] = Frame(frames[q].pc, frames[q].call, frames[q].pos, frames[q].previous_offset,
                          frames[q].current_offset, frames[q].ret)
    BY <2>2 DEF FrameType, Frame
  <2>4. FrameOf(p) = frames[q]
    BY <1>1, <1>2 DEF FrameOf
  <2> QED
    BY <2>1, <2>3, <2>4 DEF Switch
<1>3. CASE p = me
  <2>1. FrameOf(p)' = frames'[me]
    BY <1>1, <1>3 DEF FrameOf
  <2>2. frames'[me] = Frame(pc, call, pos, previous_offset, current_offset, ret)
    BY <1>1 DEF Switch
  <2> QED
    BY <1>3, <2>1, <2>2 DEF FrameOf
<1>4. CASE p # q /\ p # me
  <2>1. frames'[p] = frames[p]
    BY <1>1, <1>4 DEF Switch
  <2> QED
    BY <1>1, <1>4, <2>1 DEF FrameOf
<1> QED
  BY <1>2, <1>3, <1>4

-----------------------------------------------------------------------------
(* Types *)

LEMMA TypedWhoever == ASSUME OneChanger, Framed PROVE TypeInv /\ CallKnown
<1>1. FrameOK(FrameOf(me)) /\ TypeOK /\ me \in Procs
  BY DEF Framed
<1>2. me = Changer => RoomFor(FrameOf(me))
  BY DEF Framed, Theirs
<1>3. me # Changer => call.op \in {"none", "read"}
  BY <1>1, MyFrame DEF Framed
<1>4. OffsetsUsable
  BY <1>1, <1>2, <1>3, MyFrame DEF FrameOK, RoomFor, OffsetsUsable
<1>5. CallKnown
  BY <1>1, <1>2, <1>3, MyFrame DEF FrameOK, RoomFor, CallKnown
<1> QED
  BY <1>1, <1>4, <1>5 DEF TypeInv

(* The process that runs keeps to its types. *)
LEMMA RunFramed ==
  ASSUME OneChanger, Framed, UNCHANGED <<me, frames>>, TypeInv', CallKnown',
         me # Changer => /\ call'.op \in {"none", "read"}
                         /\ UNCHANGED <<free_head_offset, index_file_size, data_file_offset>>,
         stored' \subseteq Nat,
         asked' \in [Procs -> [key : Nat, stored : BOOLEAN, disturbed : BOOLEAN]]
  PROVE  Framed'
<1>1. me \in Procs /\ me' = me /\ frames' = frames /\ frames \in [Procs -> FrameType]
  BY DEF Framed
<1>2. FrameOK(FrameOf(me))'
  BY <1>1, MyFrameNext DEF FrameOK, TypeInv, OffsetsUsable, CallKnown
<1>3. ASSUME NEW p \in Procs PROVE FrameOK(FrameOf(p))'
  <2>1. CASE p = me
    BY <1>2, <2>1
  <2>2. CASE p # me
    <3>1. FrameOf(p)' = FrameOf(p)
      BY <2>2, OthersFrame
    <3>2. FrameOK(FrameOf(p))
      BY DEF Framed
    <3> QED
      BY <3>1, <3>2 DEF FrameOK
  <2> QED
    BY <2>1, <2>2
<1>4. ASSUME NEW p \in Procs \ {Changer} PROVE FrameOf(p)'.call.op \in {"none", "read"}
  <2>1. CASE p = me
    BY <1>1, <2>1, MyFrameNext
  <2>2. CASE p # me
    BY <2>2, OthersFrame DEF Framed
  <2> QED
    BY <2>1, <2>2
<1>5. RoomFor(Theirs)'
  <2>1. CASE me = Changer
    BY <1>1, <2>1, MyFrameNext DEF Theirs, RoomFor, TypeInv, OffsetsUsable, CallKnown
  <2>2. CASE me # Changer
    <3>1. Theirs' = Theirs
      BY <2>2, OthersFrame, Roles DEF Theirs
    <3>2. UNCHANGED <<free_head_offset, index_file_size, data_file_offset>>
      BY <2>2
    <3> QED
      BY <3>1, <3>2 DEF Framed, RoomFor
  <2> QED
    BY <2>1, <2>2
<1>6. FrameType' = FrameType
  BY DEF FrameType
<1> QED
  BY <1>1, <1>3, <1>4, <1>5 DEF Framed, TypeInv

LEMMA SwitchFramed ==
  ASSUME OneChanger, Framed, NEW q \in Procs, Switch(q)
  PROVE  Framed'
<1>1. me \in Procs /\ frames \in [Procs -> FrameType] /\ q # me /\ me' = q /\ TypeOK
  BY DEF Framed, Switch
<1>2. frames[q] \in FrameType
  BY <1>1
<1>3. TypeOK'
  <2>1. /\ pc' = frames[q].pc /\ call' = frames[q].call /\ ret' = frames[q].ret
        /\ pos' = frames[q].pos /\ previous_offset' = frames[q].previous_offset
        /\ current_offset' = frames[q].current_offset
        /\ UNCHANGED <<image, header, bad, lists>>
    BY DEF Switch
  <2> QED
    BY <1>1, <1>2, <2>1 DEF TypeOK, FrameType, image, header, bad
<1>4. frames' \in [Procs -> FrameType]
  <2>1. Frame(pc, call, pos, previous_offset, current_offset, ret) \in FrameType
    BY <1>1 DEF TypeOK, FrameType, Frame
  <2>2. IdleFrame \in FrameType
    BY NoMetaInMetaInfo DEF IdleFrame, FrameType, Frame, NoCall, Pending, Answer
  <2> QED
    BY <1>1, <2>1, <2>2 DEF Switch
<1>5. \A p \in Procs : FrameOf(p)' = FrameOf(p)
  BY SwitchFrames
<1>6. ASSUME NEW p \in Procs PROVE FrameOK(FrameOf(p))'
  <2>1. FrameOf(p)' = FrameOf(p) /\ FrameOK(FrameOf(p))
    BY <1>5 DEF Framed
  <2> QED
    BY <2>1 DEF FrameOK
<1>7. \A p \in Procs \ {Changer} : FrameOf(p)'.call.op \in {"none", "read"}
  BY <1>5 DEF Framed
<1>8. RoomFor(Theirs)'
  <2>1. Theirs' = Theirs
    BY <1>5, Roles DEF Theirs
  <2>2. UNCHANGED <<free_head_offset, index_file_size, data_file_offset>>
    BY DEF Switch, image, header
  <2> QED
    BY <2>1, <2>2 DEF Framed, RoomFor
<1>9. UNCHANGED <<stored, asked>>
  BY DEF Switch
<1> QED
  BY <1>1, <1>3, <1>4, <1>6, <1>7, <1>8, <1>9 DEF Framed

-----------------------------------------------------------------------------
(* Steps that change nothing of the index *)

(* What the running process knows of the lists is ListInv.                 *)
LEMMA MineLists ==
  ASSUME me = Changer
  PROVE  ListsOf(Theirs) <=> ListInv
BY MyFrame DEF Theirs, ListsOf, HandOf, SearchOf, PreparedOf, ChainOf, NotBefore,
  ListInv, HandFree, Searched, Prepared, Chain, Key, NotIn

LEMMA MineListsNext ==
  ASSUME me = Changer, me' = me
  PROVE  ListInv' => ListsOf(Theirs)'
<1>1. HandFree' => HandOf(Theirs)'
  BY MyFrameNext DEF Theirs, HandOf, HandFree
<1>2. Searched' => SearchOf(Theirs)'
  BY MyFrameNext DEF Theirs, SearchOf, ChainOf, NotBefore, Searched, Chain, Key, NotIn
<1>3. Prepared' => PreparedOf(Theirs)'
  BY MyFrameNext DEF Theirs, PreparedOf, Prepared
<1> QED
  BY <1>1, <1>2, <1>3 DEF ListsOf, ListInv

LEMMA SameLists ==
  ASSUME ListsOf(Theirs), Theirs' = Theirs, UNCHANGED <<image, lists>>
  PROVE  ListsOf(Theirs)'
<1>1. FileInv'
  BY FileInvUnchanged DEF ListsOf
<1>2. UNCHANGED <<nodes, index_file_size, free_head_offset, lists>>
  BY DEF image
<1>3. HandOf(Theirs)' /\ PreparedOf(Theirs)'
  BY <1>2 DEF ListsOf, HandOf, PreparedOf
<1>4. SearchOf(Theirs)'
  BY <1>2 DEF ListsOf, SearchOf, ChainOf, NotBefore, At
<1> QED
  BY <1>1, <1>3, <1>4 DEF ListsOf

LEMMA SameTold ==
  ASSUME MeantBy(Theirs), Told, Theirs' = Theirs, UNCHANGED <<image, header, lists, stored, gone>>
  PROVE  MeantBy(Theirs)' /\ Told'
<1>1. Live' = Live /\ Free' = Free
  BY OtherSetsSame
<1>2. UNCHANGED <<nodes, block_info, stored, gone>>
  BY DEF image, header
<1> QED
  BY <1>1, <1>2 DEF MeantBy, Told

LEMMA SameReads ==
  ASSUME NEW p \in Readers, Reads(FrameOf(p), asked[p]), FrameOf(p)' = FrameOf(p),
         asked'[p] = asked[p], Theirs' = Theirs, UNCHANGED <<image, lists, stored, gone>>
  PROVE  Reads(FrameOf(p), asked[p])'
<1> DEFINE f == FrameOf(p)
           a == asked[p]
<1>1. Live' = Live /\ Free' = Free
  BY OtherSetsSame
<1>2. UNCHANGED <<nodes, lists, stored, gone>> /\ f' = f /\ a' = a
  BY DEF image
<1>3. Known(a)' = Known(a) /\ Trusted(a)' = Trusted(a)
  BY <1>2 DEF Known, Trusted
<1> HIDE DEF f, a
<1>4. Asking(f, a)'
  BY <1>2, <1>3 DEF Reads, Asking, f, a
<1>5. \A U, k : Safe(U, k)' = Safe(U, k)
  BY <1>1, <1>2 DEF Safe
<1>6. Walking(f, a)'
  BY <1>2, <1>3, <1>5 DEF Reads, Walking, NotBefore, f, a
<1>7. Standing(f, a)' /\ Answered(f, a)'
  BY <1>1, <1>2, <1>3 DEF Reads, Standing, Answered, f, a
<1> QED
  BY <1>4, <1>6, <1>7 DEF Reads, f, a

(* All that a call with no step done keeps of its record.                  *)
LEMMA InitSharedInv == ASSUME OneChanger, SharedInit PROVE SharedInv
<1>1. TypeInv /\ ListInv
  BY InitTypeInv, InitListInv DEF SharedInit
<1>2. /\ pc = "idle" /\ call = NoCall /\ pos = Null /\ previous_offset = Null
      /\ current_offset = Null /\ ret = Pending
  BY DEF SharedInit, Init
<1>3. \A p \in Procs : FrameOf(p) = IdleFrame
  BY <1>2 DEF SharedInit, FrameOf, IdleFrame
<1>4. IdleFrame.pc = "idle" /\ IdleFrame.call = NoCall /\ IdleFrame.ret = Pending
  BY DEF IdleFrame, Frame
<1>5. Theirs = IdleFrame /\ Readers \subseteq Procs
  BY <1>3, Roles DEF Theirs
<1>6. Framed
  <2>1. IdleFrame \in FrameType
    BY NoMetaInMetaInfo DEF IdleFrame, FrameType, Frame, NoCall, Pending, Answer
  <2>2. frames \in [Procs -> FrameType]
    BY <2>1 DEF SharedInit
  <2>3. FrameOK(IdleFrame) /\ RoomFor(IdleFrame)
    BY <1>4 DEF FrameOK, RoomFor, NoCall
  <2>4. asked \in [Procs -> [key : Nat, stored : BOOLEAN, disturbed : BOOLEAN]]
    BY DEF SharedInit
  <2>5. me \in Procs /\ stored \subseteq Nat
    BY DEF SharedInit
  <2> QED
    BY <1>1, <1>3, <1>4, <1>5, <2>2, <2>3, <2>4, <2>5 DEF Framed, TypeInv, NoCall
<1>7. ListsOf(Theirs)
  BY <1>1, <1>4, <1>5 DEF ListsOf, ListInv, HandOf, SearchOf, PreparedOf
<1>8. MeantBy(Theirs)
  BY <1>4, <1>5 DEF MeantBy, NoCall
<1>9. Told
  <2>1. \A l \in Lists : lists[l] = << >>
    BY DEF SharedInit, Init
  <2>2. Live = {} /\ Free = {}
    BY <2>1, SlotFacts DEF Live, Free, Elements
  <2>3. stored = {}
    BY DEF SharedInit
  <2> QED
    BY <2>2, <2>3 DEF Told
<1>10. ASSUME NEW p \in Readers PROVE Reads(FrameOf(p), asked[p])
  <2>1. FrameOf(p) = IdleFrame /\ asked[p].stored = FALSE
    BY <1>3, <1>5 DEF SharedInit
  <2> QED
    BY <1>4, <2>1 DEF Reads, Asking, Walking, Standing, Answered, Pending, Answer
<1> QED
  BY <1>6, <1>7, <1>8, <1>9, <1>10 DEF SharedInv

(* The scheduler keeps it: it moves frames and changes nothing in them.    *)
LEMMA SwitchSharedInv ==
  ASSUME OneChanger, SharedInv, NEW q \in Procs, Switch(q)
  PROVE  SharedInv'
<1>1. Framed /\ Framed'
  BY SwitchFramed DEF SharedInv
<1>2. \A p \in Procs : FrameOf(p)' = FrameOf(p)
  BY <1>1, SwitchFrames
<1>3. Theirs' = Theirs /\ Readers \subseteq Procs
  BY <1>2, Roles DEF Theirs
<1>4. UNCHANGED <<image, header, bad, lists, stored, gone, asked>>
  BY DEF Switch
<1>5. CASE misrolled
  BY <1>1, <1>4, <1>5 DEF SharedInv, bad
<1>6. CASE ~misrolled
  <2>1. ListsOf(Theirs) /\ MeantBy(Theirs) /\ Told
    BY <1>6 DEF SharedInv
  <2>2. ListsOf(Theirs)'
    BY <1>3, <1>4, <2>1, SameLists
  <2>3. MeantBy(Theirs)' /\ Told'
    BY <1>3, <1>4, <2>1, SameTold
  <2>4. ASSUME NEW p \in Readers PROVE Reads(FrameOf(p), asked[p])'
    <3>1. Reads(FrameOf(p), asked[p]) /\ FrameOf(p)' = FrameOf(p)
      BY <1>2, <1>3, <1>6 DEF SharedInv
    <3> QED
      BY <1>3, <1>4, <3>1, SameReads
  <2> QED
    BY <1>1, <2>2, <2>3, <2>4 DEF SharedInv
<1> QED
  BY <1>5, <1>6

-----------------------------------------------------------------------------
(* Steps of a reader *)

(* The lists are safe for the reader of an id that nobody has deleted.     *)
LEMMA ListsSafe ==
  ASSUME TypeOK, FileInv, Told, NEW k, k \notin gone
  PROVE  Safe(Live \cup Free, k)
<1>1. ASSUME NEW l \in Lists, NEW i \in 1 .. Len(lists[l])
      PROVE  nodes[lists[l][i]].next \in Elements(lists[l]) \cup {Null}
  <2>1. nodes[lists[l][i]].next = At(lists[l], i + 1)
    BY DEF FileInv, Represented
  <2> QED
    BY <2>1, ListElements DEF At, Elements
<1>2. ASSUME NEW n \in Live PROVE nodes[n].next \in Live \cup Free \cup {Null}
  <2>1. PICK s \in Slots : n \in Elements(lists[s])
    BY DEF Live
  <2>2. PICK i \in 1 .. Len(lists[s]) : n = lists[s][i]
    BY <2>1 DEF Elements
  <2>3. nodes[n].next \in Elements(lists[s]) \cup {Null}
    BY <1>1, <2>2, SlotFacts
  <2> QED
    BY <2>3 DEF Live
<1>3. ASSUME NEW n \in Free PROVE nodes[n].next \in Live \cup Free \cup {Null}
  <2>1. PICK i \in 1 .. Len(lists[FreeList]) : n = lists[FreeList][i]
    BY DEF Free, Elements
  <2>2. nodes[n].next \in Elements(lists[FreeList]) \cup {Null}
    BY <1>1, <2>1, SlotFacts
  <2> QED
    BY <2>2 DEF Free
<1>4. \A n \in Live \cup Free : nodes[n].key = k => n \in Live
  BY DEF Told
<1> QED
  BY <1>2, <1>3, <1>4 DEF Safe

(* A file is in the chain in which hash_find looks for its id.             *)
LEMMA InItsChain ==
  ASSUME FileInv, NEW n \in Live, NEW k, nodes[n].key = k
  PROVE  \E i \in 1 .. Len(lists[Slot(k)]) : lists[Slot(k)][i] = n
<1>1. PICK s \in Slots : n \in Elements(lists[s])
  BY DEF Live
<1>2. PICK i \in 1 .. Len(lists[s]) : n = lists[s][i]
  BY <1>1 DEF Elements
<1>3. Slot(nodes[n].key) = s
  BY <1>2 DEF FileInv, Placed
<1> QED
  BY <1>2, <1>3

(* What a reader's step leaves of the invariant to show. *)
LEMMA ReaderStep ==
  ASSUME OneChanger, SharedInv, me # Changer,
         UNCHANGED <<me, frames, image, header, misrolled, lists, stored, gone>>,
         \A p \in Readers : p # me => asked'[p] = asked[p],
         Framed', ~misrolled => Reads(FrameOf(me), asked[me])'
  PROVE  SharedInv'
<1>1. CASE misrolled
  BY <1>1 DEF SharedInv
<1>2. CASE ~misrolled
  <2>1. ListsOf(Theirs) /\ MeantBy(Theirs) /\ Told
    BY <1>2 DEF SharedInv
  <2>2. Theirs' = Theirs /\ Readers \subseteq Procs
    BY OthersFrame, Roles DEF Theirs
  <2>3. ListsOf(Theirs)'
    BY <2>1, <2>2, SameLists
  <2>4. MeantBy(Theirs)' /\ Told'
    BY <2>1, <2>2, SameTold
  <2>5. ASSUME NEW p \in Readers PROVE Reads(FrameOf(p), asked[p])'
    <3>1. CASE p = me
      BY <1>2, <3>1
    <3>2. CASE p # me
      <4>1. Reads(FrameOf(p), asked[p]) /\ FrameOf(p)' = FrameOf(p) /\ asked'[p] = asked[p]
        BY <1>2, <2>2, <3>2, OthersFrame DEF SharedInv
      <4> QED
        BY <2>2, <4>1, SameReads
    <3> QED
      BY <3>1, <3>2
  <2> QED
    BY <2>3, <2>4, <2>5 DEF SharedInv
<1> QED
  BY <1>1, <1>2

(* When a read begins: if the id was stored and not deleted, the whole     *)
(* index is safe for it, and if the bucket is empty, it was not stored.    *)
LEMMA CallReadSharedInv ==
  ASSUME OneChanger, SharedInv, NEW k \in Keys, CallRead(k)
  PROVE  SharedInv'
<1> DEFINE meta == [NoMeta EXCEPT !.key = k]
           c == lists[Slot(k)]
<1>1. k \in Nat /\ meta \in MetaInfo /\ meta.key = k /\ k \in Nat
  BY KeysAssumption, NoMetaInMetaInfo DEF NoMeta, MetaInfo
<1>2. me \in Readers /\ me \in Procs /\ me # Changer /\ StartFind("read", meta)
      /\ UNCHANGED <<me, frames, stored, gone>>
  BY Roles DEF CallRead, BeginRead
<1> HIDE DEF meta
<1>3. /\ pc' = "find" /\ call' = [op |-> "read", meta |-> meta]
      /\ pos' = bucket_slot[Slot(k)] /\ UNCHANGED <<image, header, bad, lists>>
  BY <1>1, <1>2 DEF StartFind
<1>4. Framed /\ TypeInv
  BY TypedWhoever DEF SharedInv
<1>5. asked' = [asked EXCEPT ![me] = [key |-> k, stored |-> k \in stored, disturbed |-> Deleting]]
      /\ asked \in [Procs -> [key : Nat, stored : BOOLEAN, disturbed : BOOLEAN]]
  BY <1>4 DEF CallRead, Framed
<1>6. /\ asked'[me].key = k /\ (asked'[me].stored <=> k \in stored)
      /\ (asked'[me].disturbed <=> Deleting)
  BY <1>2, <1>5
<1>7. asked' \in [Procs -> [key : Nat, stored : BOOLEAN, disturbed : BOOLEAN]]
  <2>1. (k \in stored) \in BOOLEAN /\ Deleting \in BOOLEAN
    BY DEF Deleting
  <2>2. [key |-> k, stored |-> k \in stored, disturbed |-> Deleting]
          \in [key : Nat, stored : BOOLEAN, disturbed : BOOLEAN]
    BY <1>1, <2>1
  <2> QED
    BY <1>5, <2>2
<1>8. Framed'
  <2>1. TypeInv' /\ CallKnown'
    BY <1>1, <1>2, <1>4, CallTyped
  <2>2. stored' \subseteq Nat
    BY <1>2, <1>4 DEF Framed
  <2>3. UNCHANGED <<free_head_offset, index_file_size, data_file_offset>>
    BY <1>3 DEF image, header
  <2> QED
    BY <1>2, <1>3, <1>4, <1>7, <2>1, <2>2, <2>3, RunFramed
<1>9. ASSUME ~misrolled PROVE Reads(FrameOf(me), asked[me])'
  <2>1. FileInv /\ Told /\ MeantBy(Theirs)
    BY <1>9 DEF SharedInv, ListsOf
  <2>2. Slot(k) \in Slots /\ Slot(k) \in Lists /\ Slot(k) # FreeList
    BY <1>1, SlotInSlots
  <2>3. c \in Seq(Nodes) /\ Len(c) \in Nat /\ \A i \in 1 .. Len(c) : c[i] \in Nodes
    BY <1>4, <2>2, ListElements DEF TypeInv
  <2>4. pos' = At(c, 1)
    BY <1>3, <2>1, <2>2 DEF FileInv, Represented, HeadOf
  <2>5. FrameOf(me)'.pc = "find" /\ FrameOf(me)'.pos = pos' /\ FrameOf(me)'.call = call'
    BY <1>2, <1>3, MyFrameNext
  <2>6. ~Deleting => Theirs'.call.op # "delete"
    <3>1. Theirs' = Theirs /\ Theirs = frames[Changer]
      BY <1>2, OthersFrame, Roles DEF Theirs
    <3>2. Theirs.call.op = "delete" => Changer \in Deleters
      BY <2>1 DEF MeantBy
    <3> QED
      BY <3>1, <3>2 DEF Deleting
  <2>7. Asking(FrameOf(me), asked[me])'
    BY <1>1, <1>2, <1>3, <1>6, <2>5, <2>6 DEF Asking
  <2>8. ASSUME k \notin gone, pos' # Null PROVE \E U \in SUBSET Nodes : pos' \in U /\ Safe(U, k)'
    <3>1. PICK U \in SUBSET Nodes : U = Live \cup Free
      BY <1>4, LiveInNodes DEF TypeInv
    <3>2. Safe(U, k)
      BY <1>4, <2>1, <2>8, <3>1, ListsSafe DEF TypeInv
    <3>3. pos' \in U
      BY <2>2, <2>4, <2>8, <3>1 DEF At, Live, Elements
    <3>4. Live' = Live /\ Free' = Free /\ nodes' = nodes
      BY <1>3, OtherSetsSame DEF image
    <3>5. Safe(U, k)'
      BY <3>2, <3>4 DEF Safe
    <3> QED
      BY <3>3, <3>5
  <2>9. ASSUME pos' = Null PROVE k \notin stored
    <3>1. Len(c) = 0
      BY <2>3, <2>4, <2>9, NodesFacts DEF At
    <3>2. SUFFICES ASSUME k \in stored PROVE FALSE
      OBVIOUS
    <3>3. PICK n \in Live : nodes[n].key = k
      BY <2>1, <3>2 DEF Told
    <3>4. \E i \in 1 .. Len(c) : c[i] = n
      BY <2>1, <3>3, InItsChain
    <3> QED
      BY <3>1, <3>4
  <2>10. ASSUME pos' # Null PROVE 1 \in 1 .. Len(c) /\ pos' = c[1]
    BY <2>4, <2>10 DEF At
  <2>11. Walking(FrameOf(me), asked[me])'
    <3>1. Known(asked[me])' => k \notin gone
      BY <1>2, <1>6 DEF Known
    <3>2. lists' = lists /\ nodes' = nodes
      BY <1>3 DEF image
    <3>3. Known(asked[me])' /\ pos' # Null => \E U \in SUBSET Nodes : pos' \in U /\ Safe(U, k)'
      BY <2>8, <3>1
    <3>4. pos' # Null => \E i \in 1 .. Len(c) : pos' = c[i] /\ NotBefore(c, i - 1, k)'
      BY <2>10 DEF NotBefore
    <3>5. pos' = Null => ~asked'[me].stored
      BY <1>6, <2>9
    <3> QED
      BY <1>2, <1>6, <2>5, <3>2, <3>3, <3>4, <3>5 DEF Walking
  <2> QED
    BY <1>2, <2>5, <2>7, <2>11 DEF Reads, Standing, Answered
<1>10. \A p \in Readers : p # me => asked'[p] = asked[p]
  BY <1>2, <1>5, Roles
<1> QED
  BY <1>2, <1>3, <1>8, <1>9, <1>10, ReaderStep DEF bad

(* A reader that goes on: hash_find, whatever was changed around it since  *)
(* its last step, and the second look at the record.                       *)
LEMMA ReaderRunsSharedInv ==
  ASSUME OneChanger, SharedInv, me # Changer, Runs
  PROVE  SharedInv'
<1> DEFINE a == asked[me]
           k == a.key
           c == lists[Slot(k)]
<1>1. Framed /\ TypeInv /\ CallKnown /\ me \in Procs /\ me \in Readers
  BY TypedWhoever, Roles DEF SharedInv, Framed
<1>2. call.op \in {"none", "read"}
  BY <1>1, MyFrame DEF Framed
<1>3. Step /\ UNCHANGED <<me, frames, gone, asked>>
  BY DEF Runs
<1>4. call.op = "read" /\ \/ FindHit \/ FindNext \/ FindMiss \/ FindFails
                          \/ ReadNode \/ ReadNodeFails
  <2>1. pc # "idle"
    BY <1>3 DEF Step, Find, Insert, Delete, FindHit, FindNext, FindMiss, FindFails, AllocateReused,
      AllocateNew, AllocateFails, WriteNode, WriteNodeFails, LinkNode, LinkNodeFails,
      CommitDataOffset, AccountInsert, ReadNode, ReadNodeFails, UnlinkNode, UnlinkNodeFails,
      ReleaseNode, ReleaseNodeFails, PushFree, AccountDelete
  <2>2. call.op = "read"
    BY <1>1, <1>2, <2>1 DEF CallKnown
  <2>3. pc \notin {"allocate", "write", "link", "commit", "account", "release", "push", "uncount"}
    BY <1>1, <2>2 DEF CallKnown
  <2>4. ~Insert
    BY <2>3 DEF Insert, AllocateReused, AllocateNew, AllocateFails, WriteNode, WriteNodeFails,
      LinkNode, LinkNodeFails, CommitDataOffset, AccountInsert
  <2>5. ~Delete
    BY <2>2, <2>3 DEF Delete, UnlinkNode, UnlinkNodeFails, ReleaseNode, ReleaseNodeFails,
      PushFree, AccountDelete
  <2> QED
    BY <1>3, <2>2, <2>4, <2>5 DEF Step, Find
<1>5. UNCHANGED <<image, header, misrolled, lists>> /\ pc # "account"
  BY <1>4 DEF FindHit, FindNext, FindMiss, FindFails, ReadNode, ReadNodeFails, bad
<1>6. UNCHANGED stored
  BY <1>5 DEF Runs
<1>7. [Next]_vars
  BY <1>3 DEF Next
<1>8. call'.op \in {"none", "read"}
  BY <1>4 DEF FindHit, FindNext, FindMiss, FindFails, ReadNode, ReadNodeFails, Return, Leave,
    Goto, NoCall
<1>9. Framed'
  <2>1. TypeInv' /\ CallKnown'
    BY <1>1, <1>7, NextTypeInv, NextCallKnown
  <2>2. stored' \subseteq Nat /\ asked' \in [Procs -> [key : Nat, stored : BOOLEAN, disturbed : BOOLEAN]]
    BY <1>1, <1>3, <1>6 DEF Framed
  <2>3. UNCHANGED <<free_head_offset, index_file_size, data_file_offset>>
    BY <1>5 DEF image, header
  <2> QED
    BY <1>1, <1>3, <1>8, <2>1, <2>2, <2>3, RunFramed
<1>10. ASSUME ~misrolled PROVE Reads(FrameOf(me), asked[me])'
  <2>1. FileInv /\ Told /\ ListsOf(Theirs) /\ Reads(FrameOf(me), a)
    BY <1>1, <1>10 DEF SharedInv, ListsOf
  <2>2. k \in Nat /\ Slot(k) \in Slots /\ Slot(k) \in Lists
    BY <1>1, SlotInSlots DEF Framed
  <2>3. c \in Seq(Nodes) /\ Len(c) \in Nat /\ \A i \in 1 .. Len(c) : c[i] \in Nodes
    BY <1>1, <2>2, ListElements DEF TypeInv
  <2>4. /\ FrameOf(me)'.pc = pc' /\ FrameOf(me)'.call = call' /\ FrameOf(me)'.pos = pos'
        /\ FrameOf(me)'.current_offset = current_offset' /\ FrameOf(me)'.ret = ret'
    BY <1>3, MyFrameNext
  <2>5. asked'[me'] = a /\ asked[me]' = a
    BY <1>3
  <2>6. pc # "idle" /\ Theirs' = Theirs
    <3>1. pc # "idle"
      BY <1>4 DEF FindHit, FindNext, FindMiss, FindFails, ReadNode, ReadNodeFails
    <3> QED
      BY <1>3, <3>1, OthersFrame, Roles DEF Theirs
  <2>7. /\ Key = k /\ (a.stored /\ Trusted(a) => k \in stored)
        /\ ~a.disturbed => Theirs.call.op # "delete"
    BY <2>1, <2>6, MyFrame DEF Reads, Asking, Key
  <2>8. Trusted(a)' = Trusted(a) /\ Known(a)' = Known(a)
    BY <1>3 DEF Trusted, Known
  <2>9. pc' # "idle" => Asking(FrameOf(me), asked[me])'
    <3>1. pc' # "idle" => pc' \in {"find", "found"} /\ call' = call
      BY <1>4 DEF FindHit, FindNext, FindMiss, FindFails, ReadNode, ReadNodeFails, Return, Leave, Goto
    <3> QED
      BY <1>4, <1>6, <2>4, <2>5, <2>6, <2>7, <2>8, <3>1 DEF Asking, Key
  <2>10. CASE FindHit
    <3>1. pc = "find" /\ pos # Null /\ nodes[pos].key = k /\ pc' = "found" /\ current_offset' = pos
      BY <1>4, <2>7, <2>10 DEF FindHit
    <3>2. ASSUME Trusted(a) PROVE pos \in Live
      <4>1. CASE a.disturbed
        <5>1. Known(a)
          BY <3>2, <4>1 DEF Trusted
        <5>2. PICK U \in SUBSET Nodes : pos \in U /\ Safe(U, k)
          BY <2>1, <3>1, <5>1, MyFrame DEF Reads, Walking
        <5> QED
          BY <3>1, <5>2 DEF Safe
      <4>2. CASE ~a.disturbed
        <5>1. PICK i \in 1 .. Len(c) : pos = c[i]
          BY <2>1, <3>1, <4>2, MyFrame DEF Reads, Walking
        <5> QED
          BY <2>2, <5>1 DEF Live, Elements
      <4> QED
        BY <4>1, <4>2
    <3>3. Live' = Live /\ nodes' = nodes
      BY <1>5, OtherSetsSame DEF image
    <3>4. Standing(FrameOf(me), asked[me])'
      BY <2>4, <2>5, <2>8, <3>1, <3>2, <3>3 DEF Standing
    <3> QED
      BY <2>4, <2>9, <3>1, <3>4 DEF Reads, Walking, Answered
  <2>11. CASE FindNext
    <3>1. /\ pc = "find" /\ pc' = "find" /\ pos # Null /\ nodes[pos].key # k
          /\ pos' = nodes[pos].next
      BY <2>7, <2>11 DEF FindNext
    <3>2. ASSUME Known(a), pos' # Null
          PROVE  \E U \in SUBSET Nodes : pos' \in U /\ Safe(U, k)'
      <4>1. PICK U \in SUBSET Nodes : pos \in U /\ Safe(U, k)
        BY <2>1, <3>1, <3>2, MyFrame DEF Reads, Walking
      <4>2. Live' = Live /\ Free' = Free /\ nodes' = nodes
        BY <1>5, OtherSetsSame DEF image
      <4>3. k' = k
        BY <2>5
      <4>4. Safe(U, k)'
        BY <4>1, <4>2, <4>3 DEF Safe
      <4>5. pos' \in U
        BY <3>1, <3>2, <4>1 DEF Safe
      <4> QED
        BY <4>4, <4>5
    <3>3. ASSUME ~a.disturbed
          PROVE  IF pos' = Null THEN ~a.stored
                 ELSE \E i \in 1 .. Len(c) : pos' = c[i] /\ NotBefore(c, i - 1, k)
      <4>1. PICK i \in 1 .. Len(c) : pos = c[i] /\ NotBefore(c, i - 1, k)
        BY <2>1, <3>1, <3>3, MyFrame DEF Reads, Walking
      <4>2. NotBefore(c, i, k)
        BY <3>1, <4>1 DEF NotBefore
      <4>3. pos' = At(c, i + 1)
        BY <2>1, <2>2, <3>1, <4>1 DEF FileInv, Represented
      <4>4. CASE i = Len(c)
        <5>1. pos' = Null
          BY <2>3, <4>3, <4>4 DEF At
        <5>2. ASSUME a.stored PROVE FALSE
          <6>1. k \in stored
            BY <2>7, <3>3, <5>2 DEF Trusted
          <6>2. PICK n \in Live : nodes[n].key = k
            BY <2>1, <6>1 DEF Told
          <6>3. PICK j \in 1 .. Len(c) : c[j] = n
            BY <2>1, <6>2, InItsChain
          <6> QED
            BY <4>2, <4>4, <6>2, <6>3 DEF NotBefore
        <5> QED
          BY <5>1, <5>2
      <4>5. CASE i # Len(c)
        <5>1. i + 1 \in 1 .. Len(c) /\ (i + 1) - 1 = i
          BY <2>3, <4>5
        <5>2. pos' = c[i + 1] /\ pos' # Null
          BY <2>3, <4>3, <5>1, NodesFacts DEF At
        <5> QED
          BY <4>2, <5>1, <5>2
      <4> QED
        BY <4>4, <4>5
    <3>4. lists' = lists /\ nodes' = nodes
      BY <1>5 DEF image
    <3>5. Walking(FrameOf(me), asked[me])'
      BY <2>4, <2>5, <2>8, <3>2, <3>3, <3>4 DEF Walking, NotBefore
    <3> QED
      BY <2>4, <2>9, <3>1, <3>5 DEF Reads, Standing, Answered
  <2>12. CASE FindMiss
    <3>1. pc = "find" /\ pos = Null /\ pc' = "idle" /\ ret'.status = "EXIT_META_NOT_FOUND_ERROR"
      BY <1>4, <2>12 DEF FindMiss, Return, Leave, Answer
    <3>2. ~a.disturbed => ~a.stored
      BY <2>1, <3>1, MyFrame DEF Reads, Walking
    <3> QED
      BY <2>4, <2>5, <3>1, <3>2 DEF Reads, Asking, Walking, Standing, Answered
  <2>13. CASE FindFails \/ ReadNodeFails
    <3>1. pc' = "idle" /\ ret'.status = "DISK_ERROR"
      BY <2>13 DEF FindFails, ReadNodeFails, Return, Leave, Answer
    <3> QED
      BY <2>4, <3>1 DEF Reads, Asking, Walking, Standing, Answered
  <2>14. CASE ReadNode
    <3>1. /\ pc = "found" /\ pc' = "idle" /\ ret'.status = "TFS_SUCCESS"
          /\ ret'.meta = nodes[current_offset]
      BY <2>14 DEF ReadNode, Return, Leave, Answer
    <3>2. Trusted(a) => current_offset \in Live /\ nodes[current_offset].key = k
      BY <2>1, <3>1, MyFrame DEF Reads, Standing
    <3>3. Trusted(a) => nodes[current_offset].size \in Sizes
      BY <2>1, <3>2 DEF Told
    <3> QED
      BY <2>4, <2>5, <2>8, <3>1, <3>2, <3>3 DEF Reads, Asking, Walking, Standing, Answered
  <2> QED
    BY <1>4, <2>10, <2>11, <2>12, <2>13, <2>14
<1> QED
  BY <1>1, <1>3, <1>5, <1>6, <1>9, <1>10, ReaderStep

(* A reader that dies. *)
LEMMA ReaderDiesSharedInv ==
  ASSUME OneChanger, SharedInv, me # Changer, Dies
  PROVE  SharedInv'
<1>1. Framed /\ TypeInv /\ CallKnown /\ me \in Procs /\ me \in Readers
  BY TypedWhoever, Roles DEF SharedInv, Framed
<1>2. /\ Crash /\ pc' = "idle" /\ call' = NoCall /\ ret' = Pending
      /\ UNCHANGED <<me, frames, image, header, misrolled, lists, stored, gone, asked>>
  BY DEF Dies, Crash, Leave
<1>3. Framed'
  <2>1. TypeInv' /\ CallKnown'
    BY <1>1, <1>2, NextTypeInv, NextCallKnown DEF Next
  <2>2. stored' \subseteq Nat /\ asked' \in [Procs -> [key : Nat, stored : BOOLEAN, disturbed : BOOLEAN]]
    BY <1>1, <1>2 DEF Framed
  <2>3. UNCHANGED <<free_head_offset, index_file_size, data_file_offset>>
    BY <1>2 DEF image, header
  <2> QED
    BY <1>1, <1>2, <2>1, <2>2, <2>3, RunFramed DEF NoCall
<1>4. Reads(FrameOf(me), asked[me])'
  <2>1. FrameOf(me)'.pc = "idle" /\ FrameOf(me)'.ret = Pending
    BY <1>2, MyFrameNext
  <2> QED
    BY <2>1 DEF Reads, Asking, Walking, Standing, Answered, Pending, Answer
<1> QED
  BY <1>1, <1>2, <1>3, <1>4, ReaderStep

-----------------------------------------------------------------------------
(* What a step of the process that changes the index does to the records   *)
(* under a reader                                                          *)

(* The list of reusable records begins with one of them.                   *)
LEMMA FreeHead == ASSUME TypeInv, FileInv PROVE free_head_offset \in Free \cup {Null}
<1>1. free_head_offset = At(lists[FreeList], 1)
  BY SlotFacts DEF FileInv, Represented, HeadOf
<1> QED
  BY <1>1 DEF At, Free, Elements

(* The records a reader of k may walk about in stay safe for it, and those *)
(* that join them are too, unless the step is about k.                     *)
LEMMA SafeKept ==
  ASSUME IndexInv, ListInv, [Next]_vars, NEW k, NEW U \in SUBSET Nodes, Safe(U, k),
         pc = "write" => Key # k,
         UnlinkNode => Key # k,
         pc = "push" => nodes[current_offset].key # k
  PROVE  \E V \in SUBSET Nodes : U \subseteq V /\ Safe(V, k)'
<1>1. TypeInv /\ TypeOK /\ FileInv /\ nodes \in [Nodes -> MetaInfo]
  BY DEF IndexInv, TypeInv, TypeOK, ListInv
<1>2. /\ Live \subseteq U /\ Free \subseteq U
      /\ \A n \in U : nodes[n].next \in U \cup {Null} /\ (nodes[n].key = k => n \in Live)
  BY DEF Safe
<1>3. free_head_offset \in U \cup {Null}
  BY <1>1, <1>2, FreeHead
<1>4. CASE LinkNode
  <2>1. /\ pc = "link" /\ current_offset \in Nodes
        /\ nodes[current_offset] = [call.meta EXCEPT !.next = Null]
    BY <1>1, <1>4 DEF LinkNode, TypeInv, OffsetsUsable, ListInv, Prepared
  <2>2. Live' = Live \cup {current_offset} /\ Free' = Free
    BY <1>1, <1>4, LinkNodeSets
  <2>3. PICK V \in SUBSET Nodes : V = U \cup {current_offset}
    BY <2>1
  <2>4. ASSUME NEW n \in Nodes
        PROVE  /\ nodes'[n].key = nodes[n].key
               /\ nodes'[n].next = nodes[n].next \/ nodes'[n].next = current_offset
    BY <1>1, <1>4 DEF LinkNode, MetaInfo
  <2>5. nodes[current_offset].next = Null
    BY <1>1, <2>1 DEF TypeOK, MetaInfo
  <2>6. \A n \in V : nodes'[n].next \in V \cup {Null}
    BY <1>2, <2>3, <2>4, <2>5
  <2>7. \A n \in V : nodes'[n].key = k => n \in Live'
    BY <1>2, <2>2, <2>3, <2>4
  <2> QED
    BY <1>2, <2>2, <2>3, <2>6, <2>7 DEF Safe
<1>5. CASE PushFree
  <2>1. /\ pc = "push" /\ current_offset \in Nodes /\ nodes' = nodes
        /\ nodes[current_offset].next = free_head_offset
    BY <1>1, <1>5 DEF PushFree, TypeInv, OffsetsUsable, ListInv, Prepared
  <2>2. Live' = Live /\ Free' = Free \cup {current_offset}
    BY <1>1, <1>5, PushFreeSets
  <2>3. PICK V \in SUBSET Nodes : V = U \cup {current_offset}
    BY <2>1
  <2>4. \A n \in V : nodes'[n].next \in V \cup {Null}
    BY <1>2, <1>3, <2>1, <2>3
  <2>5. \A n \in V : nodes'[n].key = k => n \in Live'
    BY <1>2, <2>1, <2>2, <2>3
  <2> QED
    BY <1>2, <2>2, <2>3, <2>4, <2>5 DEF Safe
<1>6. CASE UnlinkNode
  <2>1. /\ Live' = Live \ {current_offset} /\ Free' = Free /\ current_offset \in Live
        /\ nodes[current_offset].key = Key /\ Key # k
    BY <1>1, <1>6, UnlinkNodeSets
  <2>2. ASSUME NEW n \in Nodes
        PROVE  /\ nodes'[n].key = nodes[n].key
               /\ nodes'[n].next = nodes[n].next \/ nodes'[n].next = nodes[current_offset].next
    BY <1>1, <1>6 DEF UnlinkNode, MetaInfo
  <2>3. \A n \in U : nodes'[n].next \in U \cup {Null}
    BY <1>2, <2>1, <2>2
  <2>4. \A n \in U : nodes'[n].key = k => n \in Live'
    BY <1>2, <2>1, <2>2
  <2> QED
    BY <1>2, <2>1, <2>3, <2>4 DEF Safe
<1>7. CASE AllocateReused
  <2>1. Live' = Live /\ Free' = Free \ {free_head_offset} /\ nodes' = nodes
    BY <1>1, <1>7, AllocateReusedSets DEF AllocateReused
  <2> QED
    BY <1>2, <2>1 DEF Safe
<1>8. CASE ~LinkNode /\ ~UnlinkNode /\ ~AllocateReused /\ ~PushFree
  <2>1. Live' = Live /\ Free' = Free
    BY <1>8, OtherListsSame, OtherSetsSame
  <2>2. ASSUME NEW n \in Nodes
        PROVE  \/ nodes'[n] = nodes[n]
               \/ nodes'[n].key # k /\ nodes'[n].next = Null
               \/ nodes'[n].key = nodes[n].key /\ nodes'[n].next = free_head_offset
    <3>1. CASE WriteNode
      BY <1>1, <3>1 DEF WriteNode, Key, TypeOK, MetaInfo
    <3>2. CASE ReleaseNode
      BY <1>1, <3>2 DEF ReleaseNode, MetaInfo
    <3>3. CASE ~WriteNode /\ ~ReleaseNode
      <4>1. nodes' = nodes
        BY <1>8, <3>3 DEF Next, Begin, BeginRead, BeginDelete, BeginWrite, StartFind, Step, Find,
          Insert, Delete, FindHit, FindNext, FindMiss, FindFails, AllocateNew, AllocateFails,
          WriteNodeFails, LinkNodeFails, Rollback, CommitDataOffset, AccountInsert, ReadNode,
          ReadNodeFails, UnlinkNodeFails, ReleaseNodeFails, AccountDelete, Crash, image, vars
      <4> QED
        BY <4>1
    <3> QED
      BY <3>1, <3>2, <3>3
  <2>3. \A n \in U : nodes'[n].next \in U \cup {Null}
    BY <1>2, <1>3, <2>2
  <2>4. \A n \in U : nodes'[n].key = k => n \in Live'
    BY <1>2, <2>1, <2>2
  <2> QED
    BY <1>2, <2>1, <2>3, <2>4 DEF Safe
<1> QED
  BY <1>4, <1>5, <1>6, <1>7, <1>8

(* What a reader relies on stays when another process changes the index.   *)
LEMMA ReadsKept ==
  ASSUME NEW p \in Readers, Reads(FrameOf(p), asked[p]), FrameOf(p)' = FrameOf(p),
         asked'[p].key = asked[p].key, asked'[p].stored = asked[p].stored,
         asked[p].disturbed => asked'[p].disturbed,
         asked[p].key \in Nat,
         gone \subseteq gone',
         \* An id that was stored still is, or its deletion has begun.
         FrameOf(p).pc # "idle" =>
           /\ \A k \in stored : k \in stored' \/ (asked'[p].disturbed /\ k \in gone')
           /\ ~asked'[p].disturbed => Theirs'.call.op # "delete",
         \* Where it stands is still safe, live, and in the same chain.
         \A k \in stored \ gone' : \A U \in SUBSET Nodes :
           Safe(U, k) => \E V \in SUBSET Nodes : U \subseteq V /\ Safe(V, k)',
         \A n \in Live :
           /\ nodes'[n].key = nodes[n].key
           /\ n \in Live' \/ (nodes[n].key \in gone' /\ Theirs.call.op = "delete"),
         Theirs.call.op # "delete" =>
           \A s \in Slots :
             /\ Len(lists[s]) \in Nat /\ Len(lists'[s]) \in Nat /\ Len(lists[s]) <= Len(lists'[s])
             /\ \A i \in 1 .. Len(lists[s]) : lists'[s][i] = lists[s][i]
  PROVE  Reads(FrameOf(p), asked[p])'
<1> DEFINE f == FrameOf(p)
           a == asked[p]
           k == a.key
<1>1. f' = f /\ a'.key = k /\ a'.stored = a.stored /\ (a.disturbed => a'.disturbed) /\ k' = k
  OBVIOUS
<1>2. (Known(a)' => Known(a)) /\ (Trusted(a)' => Trusted(a)) /\ (Known(a)' => k \notin gone')
  BY <1>1 DEF Known, Trusted
<1>3. Slot(k) \in Slots
  BY SlotInSlots
<1>4. f.pc # "idle" => /\ a.stored /\ Trusted(a) => k \in stored
                       /\ ~a.disturbed => Theirs.call.op # "delete"
  BY DEF Reads, Asking
<1>5. Asking(f, a)'
  <2>1. f.pc # "idle" /\ a'.stored /\ Trusted(a)' => k \in stored'
    <3> SUFFICES ASSUME f.pc # "idle", a'.stored, Trusted(a)' PROVE k \in stored'
      OBVIOUS
    <3>1. k \in stored
      BY <1>1, <1>2, <1>4
    <3>2. a'.disturbed => k \notin gone'
      BY <1>2 DEF Trusted
    <3> QED
      BY <3>1, <3>2
  <2>2. f.pc # "idle" => /\ f.pc \in {"find", "found"} /\ f.call.op = "read" /\ f.call.meta.key = k
                         /\ ~a'.disturbed => Theirs'.call.op # "delete"
    BY DEF Reads, Asking
  <2> QED
    BY <1>1, <2>1, <2>2 DEF Asking
<1>6. Walking(f, a)'
  <2> SUFFICES ASSUME f.pc = "find" PROVE Walking(f, a)'
    BY <1>1 DEF Walking
  <2>1. ASSUME Known(a)', f.pos # Null PROVE \E V \in SUBSET Nodes : f.pos \in V /\ Safe(V, k)'
    <3>1. k \in stored \ gone' /\ Known(a)
      BY <1>2, <1>4, <2>1 DEF Trusted, Known
    <3>2. PICK U \in SUBSET Nodes : f.pos \in U /\ Safe(U, k)
      BY <2>1, <3>1 DEF Reads, Walking
    <3>3. PICK kk \in Nat : kk = k
      OBVIOUS
    <3>4. PICK V \in SUBSET Nodes : U \subseteq V /\ Safe(V, kk)'
      BY <3>1, <3>2, <3>3
    <3>5. Safe(V, k)'
      BY <1>1, <3>3, <3>4 DEF Safe
    <3> QED
      BY <3>2, <3>4, <3>5
  <2>2. ASSUME ~a'.disturbed, f.pos # Null
        PROVE  \E i \in 1 .. Len(lists'[Slot(k)]) :
                 f.pos = lists'[Slot(k)][i] /\ \A j \in 1 .. i - 1 : nodes'[lists'[Slot(k)][j]].key # k
    <3>1. ~a.disturbed /\ Theirs.call.op # "delete"
      BY <1>1, <1>4, <2>2
    <3>2. PICK i \in 1 .. Len(lists[Slot(k)]) :
            f.pos = lists[Slot(k)][i] /\ NotBefore(lists[Slot(k)], i - 1, k)
      BY <2>2, <3>1 DEF Reads, Walking
    <3>3. /\ Len(lists[Slot(k)]) \in Nat /\ Len(lists'[Slot(k)]) \in Nat
          /\ Len(lists[Slot(k)]) <= Len(lists'[Slot(k)])
          /\ \A j \in 1 .. Len(lists[Slot(k)]) : lists'[Slot(k)][j] = lists[Slot(k)][j]
      BY <1>3, <3>1
    <3>4. ASSUME NEW j \in 1 .. i - 1 PROVE nodes'[lists'[Slot(k)][j]].key # k
      <4>1. j \in 1 .. Len(lists[Slot(k)])
        BY <3>3
      <4>2. lists[Slot(k)][j] \in Live
        BY <1>3, <4>1 DEF Live, Elements
      <4>3. nodes[lists[Slot(k)][j]].key # k
        BY <3>2 DEF NotBefore
      <4> QED
        BY <3>3, <4>1, <4>2, <4>3
    <3> QED
      BY <3>2, <3>3, <3>4
  <2>3. ~a'.disturbed /\ f.pos = Null => ~a.stored
    BY <1>1 DEF Reads, Walking
  <2> QED
    BY <1>1, <2>1, <2>2, <2>3 DEF Walking, NotBefore
<1>7. Standing(f, a)'
  <2> SUFFICES ASSUME f.pc = "found", Trusted(a)'
               PROVE  f.current_offset \in Live' /\ nodes'[f.current_offset].key = k
    BY <1>1 DEF Standing
  <2>1. f.current_offset \in Live /\ nodes[f.current_offset].key = k
    BY <1>2 DEF Reads, Standing
  <2>2. a'.disturbed => k \notin gone'
    BY <1>2 DEF Trusted
  <2>3. ~a'.disturbed => Theirs.call.op # "delete"
    BY <1>1, <1>4
  <2> QED
    BY <2>1, <2>2, <2>3
<1>8. Answered(f, a)'
  BY <1>1, <1>2 DEF Reads, Answered
<1> QED
  BY <1>5, <1>6, <1>7, <1>8 DEF Reads

-----------------------------------------------------------------------------
(* Steps of the process that changes the index *)

(* A call of it leaves the file as it is. *)
LEMMA ChangerCalls ==
  ASSUME OneChanger, SharedInv, me = Changer, UNCHANGED <<me, frames>>,
         NEW op \in {"write", "delete"}, NEW meta \in MetaInfo, StartFind(op, meta),
         op = "write" => /\ free_head_offset # Null \/ index_file_size \in Nodes
                         /\ meta.offset = data_file_offset
                         /\ meta.key = block_info.seq_no /\ meta.size \in Sizes,
         op = "delete" => meta.key \in gone' \ stored' /\ Changer \in Deleters,
         stored' \subseteq stored, gone \subseteq gone', stored \subseteq stored' \cup gone',
         asked' \in [Procs -> [key : Nat, stored : BOOLEAN, disturbed : BOOLEAN]],
         \A p \in Readers :
           /\ asked'[p].key = asked[p].key /\ asked'[p].stored = asked[p].stored
           /\ asked[p].disturbed => asked'[p].disturbed
           /\ frames[p].pc # "idle" =>
                /\ asked'[p].disturbed \/ stored' = stored
                /\ op = "delete" => asked'[p].disturbed
  PROVE  SharedInv'
<1>1. Framed /\ IndexInv
  BY TypedWhoever, MineLists DEF SharedInv, IndexInv
<1>2. /\ pc' = "find" /\ call' = [op |-> op, meta |-> meta]
      /\ UNCHANGED <<image, header, bad, lists>>
  BY DEF StartFind
<1>3. IndexInv'
  BY <1>1, CallKeepsIndex
<1>4. Framed'
  <2>1. stored' \subseteq Nat
    BY <1>1 DEF Framed
  <2> QED
    BY <1>1, <1>3, <2>1, RunFramed DEF IndexInv
<1>5. CASE misrolled
  BY <1>2, <1>4, <1>5 DEF SharedInv, bad
<1>6. CASE ~misrolled
  <2>1. ListsOf(Theirs) /\ MeantBy(Theirs) /\ Told
    BY <1>6 DEF SharedInv
  <2>2. ListsOf(Theirs)'
    BY <1>2, <1>3, <1>6, MineListsNext DEF IndexInv, bad
  <2>3. Theirs'.pc = "find" /\ Theirs'.call = [op |-> op, meta |-> meta]
    BY <1>2, MyFrameNext DEF Theirs
  <2>4. Live' = Live /\ Free' = Free /\ UNCHANGED <<nodes, block_info, lists>>
    BY <1>2, OtherSetsSame DEF image, header
  <2>5. MeantBy(Theirs)' /\ Told'
    BY <2>1, <2>3, <2>4 DEF MeantBy, Told
  <2>6. ASSUME NEW p \in Readers PROVE Reads(FrameOf(p), asked[p])'
    <3>1. Reads(FrameOf(p), asked[p]) /\ p \in Procs /\ p # me
      BY <1>6, Roles DEF SharedInv
    <3>2. FrameOf(p)' = FrameOf(p) /\ FrameOf(p) = frames[p]
      BY <3>1, OthersFrame
    <3>3. asked[p].key \in Nat
      BY <1>1, <3>1 DEF Framed
    <3>4. ASSUME NEW k, NEW U \in SUBSET Nodes, Safe(U, k)
          PROVE  \E V \in SUBSET Nodes : U \subseteq V /\ Safe(V, k)'
      <4>1. Safe(U, k)'
        BY <2>4, <3>4 DEF Safe
      <4> QED
        BY <4>1
    <3>5. \A s \in Slots : Len(lists[s]) \in Nat /\ lists'[s] = lists[s]
      BY <1>1, <2>4, ListElements, SlotFacts DEF Framed
    <3>6. FrameOf(p).pc # "idle" =>
            /\ \A k \in stored : k \in stored' \/ (asked'[p].disturbed /\ k \in gone')
            /\ ~asked'[p].disturbed => Theirs'.call.op # "delete"
      BY <2>3, <3>2
    <3>7. \A n \in Live : nodes'[n].key = nodes[n].key /\ n \in Live'
      BY <2>4
    <3> QED
      BY <3>1, <3>2, <3>3, <3>4, <3>5, <3>6, <3>7, ReadsKept
  <2> QED
    BY <1>4, <2>2, <2>5, <2>6 DEF SharedInv
<1> QED
  BY <1>5, <1>6

(* The id of a write comes from the header, so no file has it yet.         *)
LEMMA CallWriteSharedInv == ASSUME OneChanger, SharedInv, CallWrite PROVE SharedInv'
<1>1. Framed /\ TypeOK
  BY DEF SharedInv, Framed
<1>2. me = Changer /\ UNCHANGED <<me, frames, stored, gone, asked>>
  BY <1>1, Roles DEF CallWrite, Framed
<1>3. PICK size \in Sizes : BeginWrite(block_info.seq_no, size)
  BY DEF CallWrite
<1> DEFINE meta == [key |-> block_info.seq_no, offset |-> data_file_offset,
                    size |-> size, next |-> Null]
<1>4. StartFind("write", meta) /\ (free_head_offset # Null \/ index_file_size \in Nodes)
  BY <1>3 DEF BeginWrite
<1>5. meta \in MetaInfo /\ meta.key = block_info.seq_no /\ meta.offset = data_file_offset
      /\ meta.size \in Sizes
  BY <1>1, SizesAssumption DEF TypeOK, MetaInfo
<1>6. asked \in [Procs -> [key : Nat, stored : BOOLEAN, disturbed : BOOLEAN]]
  BY <1>1 DEF Framed
<1> HIDE DEF meta
<1> QED
  BY <1>2, <1>4, <1>5, <1>6, ChangerCalls

(* A delete disturbs the reads that are under way.                         *)
LEMMA CallDeleteSharedInv ==
  ASSUME OneChanger, SharedInv, NEW k \in Keys, CallDelete(k)
  PROVE  SharedInv'
<1> DEFINE meta == [NoMeta EXCEPT !.key = k]
<1>1. Framed
  BY DEF SharedInv
<1>2. /\ me = Changer /\ me \in Deleters /\ UNCHANGED <<me, frames>>
      /\ stored' = stored \ {k} /\ gone' = gone \cup {k}
  BY <1>1, Roles DEF CallDelete, Framed
<1>3. StartFind("delete", meta)
  BY DEF CallDelete, BeginDelete
<1>4. meta \in MetaInfo /\ meta.key = k
  BY KeysAssumption, NoMetaInMetaInfo DEF NoMeta, MetaInfo
<1>5. asked \in [Procs -> [key : Nat, stored : BOOLEAN, disturbed : BOOLEAN]]
  BY <1>1 DEF Framed
<1>6. asked' = [p \in Procs |->
        IF p \in Readers /\ Busy(p) THEN [asked[p] EXCEPT !.disturbed = TRUE] ELSE asked[p]]
  BY DEF CallDelete
<1>7. asked' \in [Procs -> [key : Nat, stored : BOOLEAN, disturbed : BOOLEAN]]
  BY <1>5, <1>6
<1>8. ASSUME NEW p \in Readers
      PROVE  /\ asked'[p].key = asked[p].key /\ asked'[p].stored = asked[p].stored
             /\ asked[p].disturbed => asked'[p].disturbed
             /\ frames[p].pc # "idle" => asked'[p].disturbed
  <2>1. p \in Procs /\ p # me
    BY <1>2, Roles
  <2>2. Busy(p) <=> frames[p].pc # "idle"
    BY <2>1 DEF Busy
  <2> QED
    BY <1>5, <1>6, <2>1, <2>2
<1> HIDE DEF meta
<1> QED
  BY <1>2, <1>3, <1>4, <1>7, <1>8, ChangerCalls

(* What a step makes of the call it belongs to: nothing, or its end.       *)
LEMMA CallStays ==
  ASSUME TypeOK, Step \/ Crash
  PROVE  /\ (call' = NoCall /\ pc' = "idle") \/ (call' = call /\ block_info' = block_info)
         /\ block_info'.seq_no >= block_info.seq_no
<1>1. CASE AccountInsert
  <2>1. pc = "account" /\ UpdateBlockInfo("C_OPER_INSERT", call.meta.size) /\ call.meta.size \in Nat
    BY <1>1 DEF AccountInsert, TypeOK, MetaInfo
  <2>2. block_info'.seq_no = block_info.seq_no + 1 /\ block_info.seq_no \in Nat
    BY <2>1, InsertCounted DEF TypeOK
  <2> QED
    BY <1>1, <2>2 DEF AccountInsert, Return, Leave
<1>2. CASE AccountDelete
  <2>1. pc = "uncount" /\ UpdateBlockInfo("C_OPER_DELETE", nodes[current_offset].size)
    BY <1>2 DEF AccountDelete
  <2>2. block_info'.seq_no = block_info.seq_no
    BY <2>1 DEF UpdateBlockInfo, TypeOK
  <2> QED
    BY <1>2, <2>2 DEF AccountDelete, Return, Leave, TypeOK
<1>3. CASE ~AccountInsert /\ ~AccountDelete
  <2>1. block_info' = block_info
    BY <1>3 DEF Step, Find, Insert, Delete, FindHit, FindNext, FindMiss, FindFails, AllocateReused,
      AllocateNew, AllocateFails, WriteNode, WriteNodeFails, LinkNode, LinkNodeFails, Rollback,
      CommitDataOffset, ReadNode, ReadNodeFails, UnlinkNode, UnlinkNodeFails, ReleaseNode,
      ReleaseNodeFails, PushFree, Crash, header
  <2>2. (call' = NoCall /\ pc' = "idle") \/ call' = call
    BY <1>3 DEF Step, Find, Insert, Delete, FindHit, FindNext, FindMiss, FindFails, AllocateReused,
      AllocateNew, AllocateFails, WriteNode, WriteNodeFails, LinkNode, LinkNodeFails, Rollback,
      CommitDataOffset, ReadNode, ReadNodeFails, UnlinkNode, UnlinkNodeFails, ReleaseNode,
      ReleaseNodeFails, PushFree, Crash, Return, Leave, Goto
  <2> QED
    BY <2>1, <2>2 DEF TypeOK
<1> QED
  BY <1>1, <1>2, <1>3

(* The steps that come to the labels at which MeantBy speaks of a record. *)
LEMMA Comes ==
  ASSUME Step \/ Crash
  PROVE  /\ pc' = "commit" => LinkNode
         /\ pc' = "account" => CommitDataOffset
         /\ pc' = "release" => UnlinkNode
         /\ pc' = "push" => ReleaseNode
<1>1. pc' = "commit" => LinkNode
  BY DEF Step, Find, Insert, Delete, FindHit, FindNext, FindMiss, FindFails, AllocateReused,
    AllocateNew, AllocateFails, WriteNode, WriteNodeFails, LinkNodeFails, Rollback,
    CommitDataOffset, AccountInsert, ReadNode, ReadNodeFails, UnlinkNode, UnlinkNodeFails,
    ReleaseNode, ReleaseNodeFails, PushFree, AccountDelete, Crash, Return, Leave, Goto
<1>2. pc' = "account" => CommitDataOffset
  BY DEF Step, Find, Insert, Delete, FindHit, FindNext, FindMiss, FindFails, AllocateReused,
    AllocateNew, AllocateFails, WriteNode, WriteNodeFails, LinkNode, LinkNodeFails, Rollback,
    AccountInsert, ReadNode, ReadNodeFails, UnlinkNode, UnlinkNodeFails, ReleaseNode,
    ReleaseNodeFails, PushFree, AccountDelete, Crash, Return, Leave, Goto
<1>3. pc' = "release" => UnlinkNode
  BY DEF Step, Find, Insert, Delete, FindHit, FindNext, FindMiss, FindFails, AllocateReused,
    AllocateNew, AllocateFails, WriteNode, WriteNodeFails, LinkNode, LinkNodeFails, Rollback,
    CommitDataOffset, AccountInsert, ReadNode, ReadNodeFails, UnlinkNodeFails, ReleaseNode,
    ReleaseNodeFails, PushFree, AccountDelete, Crash, Return, Leave, Goto
<1>4. pc' = "push" => ReleaseNode
  BY DEF Step, Find, Insert, Delete, FindHit, FindNext, FindMiss, FindFails, AllocateReused,
    AllocateNew, AllocateFails, WriteNode, WriteNodeFails, LinkNode, LinkNodeFails, Rollback,
    CommitDataOffset, AccountInsert, ReadNode, ReadNodeFails, UnlinkNode, UnlinkNodeFails,
    ReleaseNodeFails, PushFree, AccountDelete, Crash, Return, Leave, Goto
<1> QED
  BY <1>1, <1>2, <1>3, <1>4

(* It goes on with its operation, or dies. *)
LEMMA ChangerGoes ==
  ASSUME OneChanger, SharedInv, me = Changer, Step \/ Crash, UNCHANGED <<me, frames, gone, asked>>,
         stored' = stored \/ (AccountInsert /\ stored' = stored \cup {Key})
  PROVE  SharedInv'
<1>1. Framed /\ IndexInv /\ [Next]_vars
  BY TypedWhoever, MineLists DEF SharedInv, IndexInv, Next
<1>2. TypeInv /\ TypeOK /\ CallKnown
  BY <1>1 DEF IndexInv, TypeInv
<1>3. TypeInv' /\ CallKnown'
  BY <1>1, <1>2, NextTypeInv, NextCallKnown
<1>4. Framed'
  <2>1. stored' \subseteq Nat
    BY <1>1, <1>2, KeyInNat DEF Framed
  <2>2. asked' \in [Procs -> [key : Nat, stored : BOOLEAN, disturbed : BOOLEAN]]
    BY <1>1 DEF Framed
  <2> QED
    BY <1>1, <1>3, <2>1, <2>2, RunFramed
<1>5. CASE misrolled'
  BY <1>4, <1>5 DEF SharedInv
<1>6. CASE ~misrolled'
  <2>1. ~misrolled /\ ListInv
    BY <1>1, <1>2, <1>6, MisrolledStays DEF IndexInv
  <2>2. MeantBy(Theirs) /\ Told /\ \A p \in Readers : Reads(FrameOf(p), asked[p])
    BY <2>1 DEF SharedInv
  <2>3. ListsOf(Theirs)'
    BY <1>1, <1>2, <1>6, <2>1, NextListInv, MineListsNext
  <2>4. /\ call.op = "write" => Key = block_info.seq_no /\ call.meta.size \in Sizes
        /\ call.op = "delete" => Key \in gone \ stored /\ Changer \in Deleters
        /\ pc \in {"commit", "account"} => current_offset \in Live /\ nodes[current_offset].key = Key
        /\ pc \in {"release", "push"} => nodes[current_offset].key = Key
    BY <2>2, MyFrame DEF MeantBy, Theirs, Key
  <2>5. /\ Theirs.call = call /\ Theirs'.call = call' /\ Theirs'.pc = pc'
        /\ Theirs'.current_offset = current_offset'
    BY MyFrame, MyFrameNext DEF Theirs
  <2>6. \A n \in Live : /\ nodes'[n].key = nodes[n].key
                        /\ nodes'[n].size = nodes[n].size
    BY <1>1, <1>6, LiveEntriesKept
  <2>7. \A n \in Nodes : ~(pc = "write" /\ n = current_offset) => nodes'[n].key = nodes[n].key
    BY <1>1, <1>2, EntriesKept
  <2>8. UnlinkNode => /\ call.op = "delete" /\ current_offset \in Live
                      /\ nodes[current_offset].key = Key
    BY <1>2, <2>1, UnlinkNodeSets DEF UnlinkNode
  <2>9. LinkNode => /\ call.op = "write" /\ pc = "link" /\ current_offset \in Nodes
                    /\ nodes[current_offset].key = Key /\ nodes[current_offset].size = call.meta.size
                    /\ current_offset \in Live' /\ nodes'[current_offset].key = Key
                    /\ nodes'[current_offset].size = call.meta.size
    <3> SUFFICES ASSUME LinkNode
                 PROVE  /\ call.op = "write" /\ pc = "link" /\ current_offset \in Nodes
                        /\ nodes[current_offset].key = Key /\ nodes[current_offset].size = call.meta.size
                        /\ current_offset \in Live' /\ nodes'[current_offset].key = Key
                        /\ nodes'[current_offset].size = call.meta.size
      OBVIOUS
    <3>1. pc = "link" /\ call.op = "write" /\ current_offset \in Nodes
      BY <1>2 DEF LinkNode, CallKnown, TypeInv, OffsetsUsable
    <3>2. nodes[current_offset] = [call.meta EXCEPT !.next = Null]
      BY <2>1, <3>1 DEF ListInv, Prepared
    <3>3. nodes[current_offset].key = Key /\ nodes[current_offset].size = call.meta.size
      BY <1>2, <3>2 DEF TypeOK, MetaInfo, Key
    <3>4. current_offset \in Live'
      BY <1>2, <2>1, LinkNodeSets
    <3>5. nodes'[current_offset].key = nodes[current_offset].key
          /\ nodes'[current_offset].size = nodes[current_offset].size
      BY <1>1, <1>2, <3>1, EntriesKept
    <3> QED
      BY <3>1, <3>3, <3>4, <3>5
  <2>10. PushFree => /\ call.op = "delete" /\ pc = "push" /\ current_offset \in Nodes
                     /\ nodes[current_offset].key = Key
    BY <1>2, <2>4 DEF PushFree, CallKnown, TypeInv, OffsetsUsable
  <2>11. ASSUME NEW n \in Live PROVE n \in Live' \/ (nodes[n].key \in gone' /\ call.op = "delete")
    <3>1. n \in Live' \/ (UnlinkNode /\ n = current_offset)
      BY <1>1, <1>2, <2>1, SetsChange
    <3> QED
      BY <2>4, <2>8, <3>1
  <2>12. MeantBy(Theirs)'
    <3>1. CASE call' = NoCall /\ pc' = "idle"
      BY <2>5, <3>1 DEF MeantBy, NoCall
    <3>2. CASE call' = call /\ block_info' = block_info
      <4>1. stored' = stored
        <5>1. ~AccountInsert
          BY <1>2, <3>2 DEF AccountInsert, Return, Leave, NoCall, CallKnown
        <5> QED
          BY <5>1
      <4>2. call.op # "none" => /\ call'.op = "write" => call'.meta.key = block_info'.seq_no /\ call'.meta.size \in Sizes
                                /\ call'.op = "delete" => call'.meta.key \in gone' \ stored' /\ Changer \in Deleters
        BY <2>4, <3>2, <4>1 DEF Key
      <4>3. pc' = "commit" => current_offset' \in Live' /\ nodes'[current_offset'].key = Key
        BY <2>9, Comes DEF LinkNode, Goto, cursor
      <4>4. pc' = "account" => current_offset' \in Live' /\ nodes'[current_offset'].key = Key
        <5> SUFFICES ASSUME CommitDataOffset
                     PROVE  current_offset' \in Live' /\ nodes'[current_offset'].key = Key
          BY Comes
        <5>1. pc = "commit" /\ current_offset' = current_offset /\ lists' = lists /\ nodes' = nodes
          BY DEF CommitDataOffset, Goto, cursor, image
        <5> QED
          BY <2>4, <5>1, OtherSetsSame
      <4>5. pc' = "release" => nodes'[current_offset'].key = Key
        <5> SUFFICES ASSUME UnlinkNode PROVE nodes'[current_offset'].key = Key
          BY Comes
        <5>1. current_offset' = current_offset
          BY DEF UnlinkNode, Goto, cursor
        <5> QED
          BY <2>6, <2>8, <5>1
      <4>6. pc' = "push" => nodes'[current_offset'].key = Key
        <5> SUFFICES ASSUME ReleaseNode PROVE nodes'[current_offset'].key = Key
          BY Comes
        <5>1. pc = "release" /\ current_offset' = current_offset /\ current_offset \in Nodes
          BY <1>2 DEF ReleaseNode, Goto, cursor, TypeInv, OffsetsUsable
        <5> QED
          BY <2>4, <2>7, <5>1
      <4> QED
        BY <2>5, <3>2, <4>2, <4>3, <4>4, <4>5, <4>6 DEF MeantBy, Key
    <3> QED
      BY <1>2, <3>1, <3>2, CallStays
  <2>13. Told'
    <3>1. ASSUME NEW k \in stored' PROVE k < block_info'.seq_no /\ \E n \in Live' : nodes'[n].key = k
      <4>1. CASE k \in stored
        <5>1. PICK n \in Live : nodes[n].key = k
          BY <2>2, <4>1 DEF Told
        <5>2. k < block_info.seq_no
          BY <2>2, <4>1 DEF Told
        <5>3. n \in Live'
          <6>1. n \in Live' \/ (UnlinkNode /\ n = current_offset)
            BY <1>1, <1>2, <2>1, SetsChange
          <6> QED
            BY <2>4, <2>8, <4>1, <5>1, <6>1
        <5>4. /\ block_info'.seq_no >= block_info.seq_no /\ block_info.seq_no \in Nat
              /\ block_info'.seq_no \in Nat /\ k \in Nat
          BY <1>1, <1>2, <1>3, <4>1, CallStays DEF TypeOK, TypeInv, Framed
        <5> QED
          BY <2>6, <5>1, <5>2, <5>3, <5>4
      <4>2. CASE k \notin stored
        <5>1. AccountInsert /\ k = Key /\ pc = "account" /\ call.op = "write"
          BY <1>2, <4>2 DEF AccountInsert, CallKnown
        <5>2. /\ k = block_info.seq_no /\ current_offset \in Live
              /\ nodes[current_offset].key = k
          BY <2>4, <5>1
        <5>3. Live' = Live
          BY <5>1, OtherSetsSame DEF AccountInsert
        <5>4. block_info'.seq_no = block_info.seq_no + 1 /\ block_info.seq_no \in Nat
          BY <1>2, <5>1, InsertCounted DEF AccountInsert, TypeOK, MetaInfo
        <5> QED
          BY <2>6, <5>2, <5>3, <5>4
      <4> QED
        BY <4>1, <4>2
    <3>2. ASSUME NEW n \in Free' PROVE nodes'[n].key \in gone'
      <4>1. CASE n \in Free
        <5>1. n \in Nodes /\ nodes[n].key \in gone
          BY <1>2, <2>2, <4>1, LiveInNodes DEF Told
        <5>2. ~(pc = "write" /\ n = current_offset)
          BY <2>1, <4>1, SlotFacts DEF ListInv, HandFree, Free, Elements
        <5> QED
          BY <2>7, <5>1, <5>2
      <4>2. CASE n \notin Free
        <5>1. PushFree /\ n = current_offset
          BY <1>1, <1>2, <2>1, <4>2, SetsChange
        <5> QED
          BY <2>4, <2>7, <2>10, <5>1
      <4> QED
        BY <4>1, <4>2
    <3>3. ASSUME NEW n \in Live' PROVE nodes'[n].size \in Sizes
      <4>1. CASE n \in Live
        BY <2>2, <2>6, <4>1 DEF Told
      <4>2. CASE n \notin Live
        <5>1. LinkNode /\ n = current_offset
          BY <1>1, <1>2, <2>1, <4>2, SetsChange
        <5> QED
          BY <2>4, <2>9, <5>1
      <4> QED
        BY <4>1, <4>2
    <3> QED
      BY <3>1, <3>2, <3>3 DEF Told
  <2>14. ASSUME NEW p \in Readers PROVE Reads(FrameOf(p), asked[p])'
    <3>1. Reads(FrameOf(p), asked[p]) /\ p \in Procs /\ p # me
      BY <2>2, Roles
    <3>2. FrameOf(p)' = FrameOf(p) /\ asked' = asked /\ gone' = gone
      BY <3>1, OthersFrame
    <3>3. asked[p].key \in Nat
      BY <1>1, <3>1 DEF Framed
    <3>4. ASSUME NEW k \in stored \ gone', NEW U \in SUBSET Nodes, Safe(U, k)
          PROVE  \E V \in SUBSET Nodes : U \subseteq V /\ Safe(V, k)'
      <4>1. k < block_info.seq_no /\ k \in Nat /\ block_info.seq_no \in Nat /\ k \notin gone
        BY <1>1, <1>2, <2>2, <3>2 DEF Told, Framed, TypeOK
      <4>2. pc = "write" => Key # k
        BY <1>2, <2>4, <4>1 DEF CallKnown
      <4>3. UnlinkNode => Key # k
        BY <2>4, <2>8, <4>1
      <4>4. pc = "push" => nodes[current_offset].key # k
        BY <1>2, <2>4, <4>1 DEF CallKnown
      <4> QED
        BY <1>1, <2>1, <3>4, <4>2, <4>3, <4>4, SafeKept
    <3>5. ASSUME call.op # "delete", NEW s \in Slots
          PROVE  /\ Len(lists[s]) \in Nat /\ Len(lists'[s]) \in Nat /\ Len(lists[s]) <= Len(lists'[s])
                 /\ \A i \in 1 .. Len(lists[s]) : lists'[s][i] = lists[s][i]
      <4>1. Len(lists[s]) \in Nat
        BY <1>2, ListElements, SlotFacts
      <4>2. lists'[s] \in Seq(Nodes)
        BY <1>3, SlotFacts DEF TypeInv, TypeOK
      <4>3. Len(lists'[s]) \in Nat
        BY <4>2, LenProperties
      <4> QED
        BY <1>1, <1>2, <2>1, <2>8, <3>5, <4>1, <4>3, ChainGrows
    <3>6. FrameOf(p).pc # "idle" =>
            /\ \A k \in stored : k \in stored' \/ (asked'[p].disturbed /\ k \in gone')
            /\ ~asked'[p].disturbed => Theirs'.call.op # "delete"
      <4>1. stored \subseteq stored'
        OBVIOUS
      <4>2. FrameOf(p).pc # "idle" /\ ~asked[p].disturbed => call.op # "delete"
        BY <2>5, <3>1 DEF Reads, Asking
      <4>3. call'.op = call.op \/ call'.op = "none"
        BY <1>2, CallStays DEF NoCall
      <4> QED
        BY <2>5, <3>2, <4>1, <4>2, <4>3
    <3>7. \A n \in Live : /\ nodes'[n].key = nodes[n].key
                          /\ n \in Live' \/ (nodes[n].key \in gone' /\ Theirs.call.op = "delete")
      BY <2>5, <2>6, <2>11
    <3> QED
      BY <2>5, <3>1, <3>2, <3>3, <3>4, <3>5, <3>6, <3>7, ReadsKept
  <2> QED
    BY <1>4, <2>3, <2>12, <2>13, <2>14 DEF SharedInv
<1> QED
  BY <1>5, <1>6

(* Nothing happens. *)
LEMMA StaysSharedInv ==
  ASSUME OneChanger, SharedInv, UNCHANGED sharedvars
  PROVE  SharedInv'
<1>1. /\ UNCHANGED <<image, header, bad, lists, pc, call, cursor, ret>>
      /\ UNCHANGED <<me, frames, stored, gone, asked>>
  BY DEF sharedvars, index
<1>2. Framed /\ TypeInv /\ CallKnown
  BY TypedWhoever DEF SharedInv
<1>3. \A p \in Procs : FrameOf(p)' = FrameOf(p)
  BY <1>1 DEF FrameOf, cursor
<1>4. Theirs' = Theirs /\ Readers \subseteq Procs
  BY <1>3, Roles DEF Theirs
<1>5. Framed'
  <2>1. TypeInv' /\ CallKnown'
    BY <1>1, <1>2, NextTypeInv, NextCallKnown DEF vars
  <2>2. me # Changer => call'.op \in {"none", "read"}
    BY <1>1, <1>2, MyFrame DEF Framed
  <2>3. UNCHANGED <<free_head_offset, index_file_size, data_file_offset>>
    BY <1>1 DEF image, header
  <2>4. stored' \subseteq Nat /\ asked' \in [Procs -> [key : Nat, stored : BOOLEAN, disturbed : BOOLEAN]]
    BY <1>1, <1>2 DEF Framed
  <2> QED
    BY <1>1, <1>2, <2>1, <2>2, <2>3, <2>4, RunFramed
<1>6. CASE misrolled
  BY <1>1, <1>5, <1>6 DEF SharedInv, bad
<1>7. CASE ~misrolled
  <2>1. ListsOf(Theirs) /\ MeantBy(Theirs) /\ Told
    BY <1>7 DEF SharedInv
  <2>2. ListsOf(Theirs)'
    BY <1>1, <1>4, <2>1, SameLists
  <2>3. MeantBy(Theirs)' /\ Told'
    BY <1>1, <1>4, <2>1, SameTold
  <2>4. ASSUME NEW p \in Readers PROVE Reads(FrameOf(p), asked[p])'
    <3>1. Reads(FrameOf(p), asked[p]) /\ FrameOf(p)' = FrameOf(p)
      BY <1>3, <1>4, <1>7 DEF SharedInv
    <3> QED
      BY <1>1, <1>4, <3>1, SameReads
  <2> QED
    BY <1>5, <2>2, <2>3, <2>4 DEF SharedInv
<1> QED
  BY <1>6, <1>7

-----------------------------------------------------------------------------
(* Theorems *)

(* The invariant holds whatever the processes do, as long as one of them   *)
(* writes and deletes.                                                     *)
LEMMA SharedCorrect == ASSUME OneChanger PROVE SharedSpec => []SharedInv
<1>1. SharedInit => SharedInv
  BY InitSharedInv
<1>2. SharedInv /\ [SharedNext]_sharedvars => SharedInv'
  <2> SUFFICES ASSUME SharedInv, [SharedNext]_sharedvars PROVE SharedInv'
    OBVIOUS
  <2>1. CASE \E p \in Procs : Switch(p)
    BY <2>1, SwitchSharedInv
  <2>2. CASE CallWrite
    BY <2>2, CallWriteSharedInv
  <2>3. CASE \E k \in Keys : CallRead(k) \/ CallDelete(k)
    BY <2>3, CallReadSharedInv, CallDeleteSharedInv
  <2>4. CASE Runs
    <3>1. CASE me = Changer
      <4>1. pc = "account" => AccountInsert
        BY <2>4 DEF Runs, Step, Find, Insert, Delete, FindHit, FindNext, FindMiss, FindFails,
          AllocateReused, AllocateNew, AllocateFails, WriteNode, WriteNodeFails, LinkNode,
          LinkNodeFails, CommitDataOffset, ReadNode, ReadNodeFails, UnlinkNode, UnlinkNodeFails,
          ReleaseNode, ReleaseNodeFails, PushFree, AccountDelete
      <4> QED
        BY <2>4, <3>1, <4>1, ChangerGoes DEF Runs
    <3> QED
      BY <2>4, <3>1, ReaderRunsSharedInv
  <2>5. CASE Dies
    <3>1. CASE me = Changer
      BY <2>5, <3>1, ChangerGoes DEF Dies
    <3> QED
      BY <2>5, <3>1, ReaderDiesSharedInv
  <2>6. CASE UNCHANGED sharedvars
    BY <2>6, StaysSharedInv
  <2> QED
    BY <2>1, <2>2, <2>3, <2>4, <2>5, <2>6 DEF SharedNext
<1> QED
  BY <1>1, <1>2, PTL DEF SharedSpec

(* A read gives the record of the id it asked for, whole, whatever another *)
(* process writes and deletes meanwhile, as long as nobody has ever        *)
(* deleted that id, or nothing is deleted while it runs                    *)
(* (read_segment_meta, index_handle.cpp: hash_find, then the second        *)
(* pread_file of the record).                                              *)
THEOREM ReadsGiveOwnRecord == ASSUME OneChanger PROVE SharedSpec => []ReadOwnRecord
<1>1. SharedInv => ReadOwnRecord
  <2> SUFFICES ASSUME SharedInv, ~misrolled, me \in Readers, pc = "idle" PROVE ReadOwnRecord
    BY DEF ReadOwnRecord, Returned
  <2>1. Answered(FrameOf(me), asked[me])
    BY DEF SharedInv, Reads
  <2> QED
    BY <2>1, MyFrame DEF Answered, Trusted, Known, ReadOwnRecord
<1> QED
  BY <1>1, SharedCorrect, PTL

(* It finds every file whose write had returned when it began, if nothing  *)
(* is deleted while it runs, also while records are added to the chain     *)
(* that hash_find walks.                                                   *)
THEOREM ReadsFindWhatIsThere == ASSUME OneChanger PROVE SharedSpec => []NotFoundMeansAbsent
<1>1. SharedInv => NotFoundMeansAbsent
  <2> SUFFICES ASSUME SharedInv, ~misrolled, me \in Readers, pc = "idle" PROVE NotFoundMeansAbsent
    BY DEF NotFoundMeansAbsent, Returned
  <2>1. Answered(FrameOf(me), asked[me])
    BY DEF SharedInv, Reads
  <2> QED
    BY <2>1, MyFrame DEF Answered, NotFoundMeansAbsent
<1> QED
  BY <1>1, SharedCorrect, PTL

(* Readers never disturb it: the chains and the list of reusable records   *)
(* stay null-terminated lists with no record in two places.                *)
THEOREM SharedListsStayIntact == ASSUME OneChanger PROVE SharedSpec => []ListsIntact
<1>1. SharedInv => ListsIntact
  BY DEF SharedInv, ListsOf, FileInv, Represented, Disjoint, ListsIntact
<1> QED
  BY <1>1, SharedCorrect, PTL
=============================================================================
