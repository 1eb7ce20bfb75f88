---------------------------- MODULE CachePersist ----------------------------
(***************************************************************************)
(* Persistence of the answer cache (src/cache.rs, src/main.rs): the        *)
(* periodic save and the save at shutdown write one temporary file and     *)
(* rename it over the cache file; a start loads the cache file.            *)
(*                                                                         *)
(* The content of the cache is a version.  A file is an inode holding      *)
(* Chunks chunks, each of the version whose save wrote it; a writer keeps  *)
(* its own offset into the inode it opened, wherever that inode is linked. *)
(***************************************************************************)
EXTENDS Integers

CONSTANTS
  Savers,      \* the periodic save, the save at shutdown
  Inodes, Chunks,
  Faults,      \* the calls that may fail (disk full, I/O error)
  MaxVersion,  \* bound on the number of changes of the cache
  NoInode

ASSUME ChunksAssumption == Chunks \in Nat \ {0}
ASSUME FaultsAssumption == Faults \subseteq {"create", "write", "close", "rename"}
ASSUME NoInodeAssumption == NoInode \notin Inodes

VARIABLES
  alive,      \* the process runs
  content,    \* version of the cache in memory
  newest,     \* the newest version there has been
  tmp, path,  \* the inodes linked as cache.tmp and as the cache file
  disk,       \* disk[i][p]: the version of chunk p of inode i
  saver,      \* saver[s]: where save s is
  saved       \* the version of the save that was last renamed (history)

persistVars == <<alive, content, newest, tmp, path, disk, saver, saved>>

Empty == 0   \* the version of an empty cache
Hole == -1   \* a chunk never written, or truncated
Blank == [p \in 1..Chunks |-> Hole]
Quiet == [at |-> "idle", ino |-> NoInode, version |-> Empty, pos |-> 0]
Opened(i) == [at |-> "collect", ino |-> i, version |-> Empty, pos |-> 0]

PersistTypeOK ==
  /\ alive \in BOOLEAN
  /\ content \in Nat /\ newest \in Nat /\ saved \in Nat
  /\ tmp \in Inodes \cup {NoInode} /\ path \in Inodes \cup {NoInode}
  /\ disk \in [Inodes -> [1..Chunks -> Nat \cup {Hole}]]
  /\ saver \in [Savers -> [at : {"idle", "collect", "writing", "rename"},
                           ino : Inodes \cup {NoInode}, version : Nat, pos : 0..Chunks]]

PersistInit ==
  /\ alive = TRUE /\ content = Empty /\ newest = Empty /\ saved = Empty
  /\ tmp = NoInode /\ path = NoInode
  /\ disk = [i \in Inodes |-> Blank]
  /\ saver = [s \in Savers |-> Quiet]

\* Inode i holds one whole save, which is what parses as a JSON map.
Whole(i) == disk[i][1] # Hole /\ \A p \in 1..Chunks : disk[i][p] = disk[i][1]

InUse == {tmp, path} \cup {saver[s].ino : s \in Savers}
Fails(s) == saver' = [saver EXCEPT ![s] = Quiet]

\* Variant of Create: the cache file itself is opened, if there is one.
CreateInPlace(s) ==
  /\ alive /\ saver[s].at = "idle"
  /\ \E i \in IF path = NoInode THEN Inodes \ InUse ELSE {path} :
       /\ tmp' = i
       /\ disk' = [disk EXCEPT ![i] = Blank]
       /\ saver' = [saver EXCEPT ![s] = Opened(i)]
  /\ UNCHANGED <<alive, content, newest, path, saved>>

\* File::create truncates the temporary file that is there, or makes one.
Create(s) ==
  /\ alive /\ saver[s].at = "idle"
  /\ \/ "create" \in Faults /\ UNCHANGED <<tmp, disk, saver>>
     \/ \E i \in IF tmp = NoInode THEN Inodes \ InUse ELSE {tmp} :
          /\ tmp' = i
          /\ disk' = [disk EXCEPT ![i] = Blank]
          /\ saver' = [saver EXCEPT ![s] = Opened(i)]
  /\ UNCHANGED <<alive, content, newest, path, saved>>

\* The entries that are not Expired are collected.
Collect(s) ==
  /\ alive /\ saver[s].at = "collect"
  /\ saver' = [saver EXCEPT ![s].at = "writing", ![s].version = content]
  /\ UNCHANGED <<alive, content, newest, tmp, path, disk, saved>>

Put(s) ==
  disk' = [disk EXCEPT ![saver[s].ino][saver[s].pos + 1] = saver[s].version]

\* Variant of Write: a failed write is not noticed.
WriteUnchecked(s) ==
  /\ alive /\ saver[s].at = "writing" /\ saver[s].pos < Chunks - 1
  /\ Put(s) \/ ("write" \in Faults /\ UNCHANGED disk)
  /\ saver' = [saver EXCEPT ![s].pos = @ + 1]
  /\ UNCHANGED <<alive, content, newest, tmp, path, saved>>

\* serde_json::to_writer fills the BufWriter, which writes full buffers; an
\* error ends the save and leaves the temporary file behind.
Write(s) ==
  /\ alive /\ saver[s].at = "writing" /\ saver[s].pos < Chunks - 1
  /\ \/ Put(s) /\ saver' = [saver EXCEPT ![s].pos = @ + 1]
     \/ "write" \in Faults /\ Fails(s) /\ UNCHANGED disk
  /\ UNCHANGED <<alive, content, newest, tmp, path, saved>>

\* to_writer owns the BufWriter: the last buffer is written when it is
\* dropped, where an error goes unnoticed.
Close(s) ==
  /\ alive /\ saver[s].at = "writing" /\ saver[s].pos = Chunks - 1
  /\ Put(s) \/ ("close" \in Faults /\ UNCHANGED disk)
  /\ saver' = [saver EXCEPT ![s].at = "rename", ![s].pos = Chunks]
  /\ UNCHANGED <<alive, content, newest, tmp, path, saved>>

\* The temporary file becomes the cache file, if it is (still) there.
Rename(s) ==
  /\ alive /\ saver[s].at = "rename"
  /\ \/ /\ tmp # NoInode
        /\ path' = tmp /\ tmp' = NoInode /\ saved' = saver[s].version
     \/ /\ (tmp = NoInode) \/ ("rename" \in Faults)
        /\ UNCHANGED <<tmp, path, saved>>
  /\ Fails(s)
  /\ UNCHANGED <<alive, content, newest, disk>>

\* The resolver changes the cache.
Change ==
  /\ alive /\ newest < MaxVersion
  /\ newest' = newest + 1 /\ content' = newest + 1
  /\ UNCHANGED <<alive, tmp, path, disk, saver, saved>>

\* The process ends: after the save at shutdown, or by a crash at any point.
Stop ==
  /\ alive
  /\ alive' = FALSE /\ content' = Empty
  /\ saver' = [s \in Savers |-> Quiet]
  /\ UNCHANGED <<newest, tmp, path, disk, saved>>

\* load_cache_from_disk: what does not parse is ignored.
Restart ==
  /\ ~alive
  /\ alive' = TRUE
  /\ content' = IF path # NoInode /\ Whole(path) THEN disk[path][1] ELSE Empty
  /\ UNCHANGED <<newest, tmp, path, disk, saver, saved>>

PersistNext ==
  \/ \E s \in Savers : Create(s) \/ Collect(s) \/ Write(s) \/ Close(s) \/ Rename(s)
  \/ Change
  \/ Stop
  \/ Restart

PersistSpec == PersistInit /\ [][PersistNext]_persistVars

(***************************************************************************)
(* Properties                                                              *)
(***************************************************************************)
\* "Persistence uses an atomic temporary-file write followed by rename": the
\* cache file is at every moment one whole save, so a crash finds it usable.
CacheFileWhole == path # NoInode => Whole(path)

\* One saver never publishes less than its save, except for the last buffer,
\* whose loss goes unnoticed when the BufWriter is dropped.
OnlyTailLost ==
  path # NoInode =>
    \A p \in 1..(Chunks - 1) : disk[path][p] # Hole /\ disk[path][p] = disk[path][1]

\* A start restores the save that was last renamed, or nothing, wherever the
\* process stopped and whatever it left in the temporary file: never a part of
\* a save, and never one that was not completed.
RestoresLastSaveOrNothing == [][~alive /\ alive' => content' \in {saved, Empty}]_persistVars
=============================================================================
