------------------------- MODULE LifeCycleProperties -------------------------
(***************************************************************************)
(* What the life cycle of an index promises, stated over IndexLifeCycle.   *)
(***************************************************************************)
EXTENDS IndexLifeCycle

(* A file has the header, the mapping, and a record in each place. *)
MaxLength == max_map_size_ + MaxFiles

(* Every variable keeps to the values of its declaration.  What a process  *)
(* has mapped is in the file, as far as the header and the buckets go, and *)
(* all of it until two processes have been at the same file.               *)
LifeTypeOK ==
  /\ made \in 0 .. MaxInodes /\ dir \in 0 .. made
  /\ inodes \in [Inodes -> [length : 0 .. MaxLength, written : 0 .. Units,
                            used : 0 .. MaxFiles, at : [Places -> 0 .. MaxFiles]]]
  /\ \A i \in Inodes :
       /\ inodes[i].written <= inodes[i].length
       /\ \A n \in Places : inodes[i].at[n] # NoFile => Units + n <= inodes[i].length
  /\ handle \in [Procs ->
       [pc : {"none", "idle", "open", "size", "write", "sync", "stat", "truncate", "map",
              "check", "memcpy", "pwrite", "unlink"},
        op : {"none", "create", "load", "store", "read"},
        is_load_ : BOOLEAN, map_file_ : {"null", "alive", "deleted"},
        map_size_ : 0 .. max_map_size_, inode : 0 .. made, size : 0 .. MaxLength,
        done : 0 .. Units, place : 0 .. MaxFiles,
        verdict : {"none", "TFS_SUCCESS", "TFS_ERROR", "EXIT_INDEX_ALREADY_LOADED_ERROR",
                   "EXIT_META_UNEXPECT_FOUND_ERROR", "EXIT_INDEX_CORRUPT_ERROR",
                   "EXIT_BUCKET_CONFIGURE_ERROR"}]]
  /\ \A p \in Procs : handle[p].map_file_ = "alive" =>
       /\ inodes[handle[p].inode].length >= first_map_size_
       /\ ~clash => inodes[handle[p].inode].length >= handle[p].map_size_
  /\ handles \in 0 .. MaxHandles /\ stores \in 0 .. MaxFiles /\ faults \in 0 .. MaxFaults

(* No step takes a stored file out of an index file: no create that finds  *)
(* one which is whole, which a create cut off in the middle has left and a *)
(* second load has accepted, or which was removed while its users went on; *)
(* no ftruncate; no file stored after it.  That is so until two processes  *)
(* have been creating, lengthening or storing into the same file at once:  *)
(* until a file was opened while another process was writing its header, a *)
(* process found it short while another was about to lengthen it, or two   *)
(* took a place for their records.                                         *)
FilesStay == [][~clash' => \A i \in Inodes : Files(i) \subseteq Files(i)']_lifevars

(* Unless a create was cut off or two processes were at the same file at   *)
(* once, what a program has stored in an index it had loaded or created is *)
(* in the index the directory names, whatever other programs created,      *)
(* loaded, failed to load, removed, or died in since.                      *)
ReportedIsStored ==
  ~aborted /\ ~clash /\ reported # {} => dir # NoFile /\ reported \subseteq Files(dir)

(* Loading an index that does not exist makes an empty file, and does no   *)
(* harm: create is refused only where a create has begun to write.         *)
RefusedOnlyIfBegun ==
  \A p \in Procs :
    handle[p].verdict = "EXIT_META_UNEXPECT_FOUND_ERROR" =>
      inodes[handle[p].inode].written > 0

(* An index without a whole header is accepted only by a load that finds   *)
(* the file as long as an earlier load has made it: the one that sees what *)
(* create has left refuses it, also when others load it at the same time.  *)
IncompleteIsRefused ==
  \A p \in Procs :
    handle[p].is_load_ /\ handle[p].inode # NoFile /\ inodes[handle[p].inode].written < HeaderUnits
      => handle[p].size >= first_map_size_
=============================================================================
