----------------------------- MODULE FatVolume -----------------------------
(***************************************************************************)
(* The volume FatFs (Middleware/FatFs/ff.c) keeps on the card: one sector  *)
(* window through which the file allocation table and the directory are    *)
(* read and changed, the chains of clusters, and the calls that change     *)
(* them.  A step is the piece of a call up to the next write of a sector,  *)
(* so that the power may go, and a transfer may fail, between any two      *)
(* writes that reach the card.                                             *)
(*                                                                         *)
(* FF_FS_REENTRANT and FF_FS_LOCK are 0 (ffconf.h): one task is in FatFs   *)
(* at a time, and no file is opened twice, removed or renamed while open.  *)
(* Names of files are the model's; a cluster is one sector and a file is   *)
(* written by whole sectors; the directory has the entries it has.         *)
(***************************************************************************)
EXTENDS Integers, FiniteSets, Sequences

CONSTANTS
  Names,           \* names of files
  NEntries,        \* entries of the directory
  NClusters,       \* clusters of the volume: n_fatent - 2
  FatSector,       \* the sector of the FAT an entry of it is in
  DirSector,       \* the sector of the directory an entry is in
  MaxSize,         \* bound: the length of a file, in sectors
  MaxFaults        \* bound: transfers that fail, and restarts

n_fatent == NClusters + 2
Clusters == 2 .. n_fatent - 1
EOC      == n_fatent                 \* any value that is not below n_fatent
Entries  == 1 .. NEntries

FatSectors == {FatSector[c] : c \in Clusters}
InfoSector == "FSInfo"
NoSector   == "none"
NotSaved   == <<0>>

\* The first byte of an entry of the directory: a name, 0 or DDEM.
Blank   == "blank"
Deleted == "deleted"

ASSUME VolumeAssumption ==
  /\ NEntries \in Nat \ {0} /\ NClusters \in Nat \ {0} /\ MaxSize \in Nat \ {0}
  /\ MaxFaults \in Nat
  /\ DOMAIN FatSector = Clusters /\ DOMAIN DirSector = Entries
  /\ \A c \in Clusters, s \in Entries : FatSector[c] # DirSector[s]
  /\ \A c \in Clusters : FatSector[c] \notin {InfoSector, NoSector}
  /\ \A s \in Entries  : DirSector[s] \notin {InfoSector, NoSector}
  /\ {Blank, Deleted} \cap Names = {}

VARIABLES
  disk, view,      \* FAT and directory: on the card, and as FatFs sees them
  winsect, wflag,  \* the sector in the window; it is to be written back
  info,            \* the count of free clusters in the FSInfo sector
  free_clst, fsi,  \* that count in memory; it is to be written
  file,            \* the file objects, one for each name
  call,            \* the call in progress
  faults,          \* bound: transfers that failed, and restarts
  saved,           \* history: the clusters of the file that was made safe
  emptied,         \* history: files f_truncate cut to nothing whose entry was
                   \* not written to the card since
  cut              \* history: a rename was cut short, or the power went at
                   \* a moment when the card held a damaged volume

window == <<disk, view, winsect, wflag, faults>>
vars == <<window, info, free_clst, fsi, file, call, saved, emptied, cut>>

(***************************************************************************)
(* Entries, files and calls.                                               *)
(***************************************************************************)
Entry(n, c, z) == [name |-> n, clust |-> c, size |-> z]
Volume == [fat : [Clusters -> {0} \cup Clusters \cup {EOC}],
           dir : [Entries -> [name  : Names \cup {Blank, Deleted},
                              clust : {0} \cup Clusters, size : 0..MaxSize]]]

File == [open : BOOLEAN, entry : {0} \cup Entries, sclust : {0} \cup Clusters,
         objsize : 0..MaxSize, fptr : 0..MaxSize,
         clust : {0} \cup Clusters \cup {EOC}, modified : BOOLEAN, err : BOOLEAN]
Closed == [open |-> FALSE, entry |-> 0, sclust |-> 0, objsize |-> 0,
           fptr |-> 0, clust |-> 0, modified |-> FALSE, err |-> FALSE]
Opened(s, c, z, m) ==
  [open |-> TRUE, entry |-> s, sclust |-> c, objsize |-> z,
   fptr |-> 0, clust |-> 0, modified |-> m, err |-> FALSE]

Call == [op   : {"none", "create", "write", "truncate", "sync", "close",
                 "unlink", "rename"},
         at   : {"none", "remove", "back", "data", "link", "sync", "info", "unname"},
         name : Names \cup {Blank}, clst : {0} \cup Clusters,
         ncl  : {0} \cup Clusters \cup Entries]
NoCall == [op |-> "none", at |-> "none", name |-> Blank, clst |-> 0, ncl |-> 0]
Calling(op, at, n, c, nc) ==
  [op |-> op, at |-> at, name |-> n, clst |-> c, ncl |-> nc]
At(place)  == call.at = place
Goes(place, c, nc) == call' = [call EXCEPT !.at = place, !.clst = c, !.ncl = nc]

Idle       == call = NoCall
Returns    == call' = NoCall

Has(n)     == \E s \in Entries : view.dir[s].name = n
Slot(n)    == CHOOSE s \in Entries : view.dir[s].name = n
IsFree(s)  == view.dir[s].name \in {Blank, Deleted}

\* The sectors dir_find reads up to entry s, and up to the end of the table.
UpTo(s)    == {DirSector[t] : t \in 1..s}
ToTheEnd   == UpTo(IF \E s \in Entries : view.dir[s].name = Blank
                   THEN CHOOSE s \in Entries :
                          /\ view.dir[s].name = Blank
                          /\ \A t \in 1 .. s-1 : view.dir[t].name # Blank
                   ELSE NEntries)
FirstFree(s) == IsFree(s) /\ \A t \in 1 .. s-1 : ~IsFree(t)

\* The k-th cluster of the chain that begins at c; 1 is an internal error.
Chain(fat, c) ==
  LET w[k \in 1 .. MaxSize+1] ==
        IF k = 1 THEN c
        ELSE IF w[k-1] \in Clusters THEN fat[w[k-1]] ELSE 1
  IN  w

\* The clusters of a file; a truncation that was cut short leaves fewer of them
\* than its size tells.
ChainOf(f) ==
  LET w == Chain(view.fat, f.sclust)
      has == {k \in 1..f.objsize : w[k] \in Clusters}
  IN [k \in 1..Cardinality(has) |-> w[k]]

Init ==
  /\ view = [fat |-> [c \in Clusters |-> 0],
             dir |-> [s \in Entries |-> Entry(Blank, 0, 0)]]
  /\ disk = view
  /\ winsect = InfoSector /\ wflag = FALSE
  /\ info = NClusters /\ free_clst = info /\ fsi = FALSE
  /\ file = [n \in Names |-> Closed]
  /\ call = NoCall
  /\ faults = 0
  /\ saved = [n \in Names |-> NotSaved]
  /\ emptied = {} /\ cut = FALSE

(***************************************************************************)
(* The window.  A call moves it over the sectors S and ends at s, which is *)
(* one of them: if one of S is not in the window, what was changed in the  *)
(* window is written first.  The other sectors were only read.             *)
(***************************************************************************)
Moves(S) == \E t \in S : t # winsect
WrittenBack == IF wflag THEN view ELSE disk

Look(S, s) ==
  /\ disk' = IF Moves(S) THEN WrittenBack ELSE disk
  /\ winsect' = s
  /\ wflag' = (wflag /\ ~Moves(S))
  /\ UNCHANGED <<view, faults>>

Edit(S, s, v) ==
  /\ disk' = IF Moves(S) THEN WrittenBack ELSE disk
  /\ winsect' = s
  /\ wflag' = TRUE
  /\ view' = v
  /\ UNCHANGED faults

Fault == faults < MaxFaults /\ faults' = faults + 1

\* The write fails, and the window stays; or a later read fails.
DiskError(S) ==
  /\ Moves(S) /\ Fault
  /\ \/ wflag /\ UNCHANGED <<disk, winsect, wflag>>
     \/ disk' = WrittenBack /\ wflag' = FALSE /\ winsect' = NoSector
  /\ UNCHANGED view

SetFat(c, x) == [view EXCEPT !.fat[c] = x]
SetDir(s, e) == [view EXCEPT !.dir[s] = e]

counts == <<info, free_clst, fsi>>
quiet  == <<saved, emptied, cut>>

(***************************************************************************)
(* f_open of a file that exists, with FA_OPEN_APPEND: to its last cluster. *)
(***************************************************************************)
OpenAppend(n) ==
  LET s == Slot(n)
      e == view.dir[s]
      w == Chain(view.fat, e.clust)
      S == UpTo(s) \cup {FatSector[w[k]] : k \in {j \in 1 .. e.size-1 : w[j] \in Clusters}}
      last == IF e.size > 1 /\ w[e.size-1] \in Clusters
              THEN FatSector[w[e.size-1]] ELSE DirSector[s]
      ok == \A k \in 1 .. e.size-1 : w[k] \in Clusters /\ w[k+1] > 1
  IN /\ Idle /\ Has(n) /\ ~file[n].open
     /\ \/ /\ Look(S, last)
           /\ file' = IF ~ok THEN file ELSE
                [file EXCEPT ![n] = [Opened(s, e.clust, e.size, FALSE) EXCEPT
                     !.fptr = e.size,
                     !.clust = IF e.size = 0 THEN 0
                               ELSE IF w[e.size] \in Clusters THEN w[e.size] ELSE EOC]]
        \/ DiskError(S) /\ UNCHANGED file
     /\ UNCHANGED <<counts, call, quiet>>

(***************************************************************************)
(* f_open with FA_CREATE_ALWAYS: a new entry, or the old one emptied and   *)
(* its chain removed before the file object is made.                       *)
(***************************************************************************)
CreateNew(n) ==
  /\ Idle /\ ~Has(n)
  /\ \E s \in Entries :
       LET S == ToTheEnd \cup UpTo(s)
       IN /\ FirstFree(s)
          /\ \/ /\ Edit(S, DirSector[s], SetDir(s, Entry(n, 0, 0)))
                /\ file' = [file EXCEPT ![n] = Opened(s, 0, 0, TRUE)]
             \/ DiskError(S) /\ UNCHANGED file
  /\ UNCHANGED <<counts, call, quiet>>

CreateOver(n) ==
  LET s == Slot(n)
      e == view.dir[s]
  IN /\ Idle /\ Has(n) /\ ~file[n].open
     /\ \/ /\ Edit(UpTo(s), DirSector[s], SetDir(s, Entry(n, 0, 0)))
           /\ saved' = [saved EXCEPT ![n] = NotSaved]
           /\ IF e.clust = 0
              THEN /\ file' = [file EXCEPT ![n] = Opened(s, 0, 0, TRUE)]
                   /\ UNCHANGED call
              ELSE /\ call' = Calling("create", "remove", n, e.clust, 0)
                   /\ UNCHANGED file
        \/ DiskError(UpTo(s)) /\ UNCHANGED <<file, call, saved>>
     /\ UNCHANGED <<counts, emptied, cut>>

\* Line 3592: back to the sector of the entry, then the file object.
BackToEntry ==
  LET n == call.name
      s == Slot(n)
  IN /\ At("back")
     /\ \/ /\ Look({DirSector[s]}, DirSector[s])
           /\ file' = [file EXCEPT ![n] = Opened(s, 0, 0, TRUE)]
        \/ DiskError({DirSector[s]}) /\ UNCHANGED file
     /\ Returns /\ UNCHANGED <<counts, quiet>>

(***************************************************************************)
(* remove_chain: one cluster of the chain.  The call goes on when the last *)
(* one, or one that is free already, is reached; f_truncate gives up the   *)
(* file object on an error, the others return it.                          *)
(***************************************************************************)
FileEnds(n, failed) ==
  file' = [file EXCEPT ![n].objsize = file[n].fptr, ![n].modified = TRUE,
                       ![n].sclust = IF file[n].fptr = 0 THEN 0 ELSE @,
                       ![n].err = failed]

ChainGone ==
  CASE call.op = "create"   -> Goes("back", 0, 0) /\ UNCHANGED file
    [] call.op = "unlink"   -> Goes("sync", 0, 0) /\ UNCHANGED file
    [] call.op = "truncate" -> Returns /\ FileEnds(call.name, FALSE)

ChainStays ==
  /\ Returns
  /\ IF call.op = "truncate" THEN FileEnds(call.name, TRUE) ELSE UNCHANGED file

CountFreed ==
  /\ IF free_clst < n_fatent - 2
     THEN free_clst' = free_clst + 1 /\ fsi' = TRUE
     ELSE UNCHANGED <<free_clst, fsi>>
  /\ UNCHANGED info

RemoveCluster ==
  LET c   == call.clst
      nxt == view.fat[c]
      S   == {FatSector[c]}
  IN /\ At("remove")
     /\ \/ /\ nxt = 0
           /\ Look(S, FatSector[c]) /\ ChainGone
           /\ UNCHANGED counts
        \/ /\ nxt # 0
           /\ Edit(S, FatSector[c], SetFat(c, 0))
           /\ IF nxt \in Clusters
              THEN Goes("remove", nxt, 0) /\ UNCHANGED file ELSE ChainGone
           /\ CountFreed
        \/ DiskError(S) /\ ChainStays /\ UNCHANGED counts
     /\ UNCHANGED quiet

(***************************************************************************)
(* f_write of one sector: the cluster it goes to is the first, the next of *)
(* the chain, or a new one (create_chain); then the data.                  *)
(***************************************************************************)
MayWrite(n) == Idle /\ file[n].open /\ ~file[n].err /\ file[n].fptr < MaxSize
Aborts(n)   == file' = [file EXCEPT ![n].err = TRUE]

WriteHere(n) ==
  LET f == file[n]
      c == IF f.fptr = 0 THEN f.sclust ELSE view.fat[f.clust]
      S == IF f.fptr = 0 THEN {} ELSE {FatSector[f.clust]}
  IN /\ MayWrite(n) /\ (f.fptr = 0 \/ f.clust \in Clusters) /\ c \in Clusters
     /\ \/ /\ IF S = {} THEN UNCHANGED window ELSE Look(S, FatSector[f.clust])
           /\ call' = Calling("write", "data", n, c, 0)
           /\ UNCHANGED file
        \/ DiskError(S) /\ Aborts(n) /\ UNCHANGED call
     /\ UNCHANGED <<counts, quiet>>

\* The end of the chain as the file has it is no cluster, or is free, or its
\* entry of the FAT cannot be read.
WriteInsane(n) ==
  LET f == file[n]
  IN /\ MayWrite(n) /\ f.fptr > 0
     /\ \/ f.clust \notin Clusters /\ UNCHANGED window
        \/ /\ f.clust \in Clusters /\ view.fat[f.clust] = 0
           /\ Look({FatSector[f.clust]}, FatSector[f.clust])
        \/ f.clust \in Clusters /\ DiskError({FatSector[f.clust]})
     /\ Aborts(n)
     /\ UNCHANGED <<counts, call, quiet>>

\* create_chain looks for a free cluster from where the last was found: which
\* it finds, and which sectors of the FAT it reads before, is left open.
GrowsFrom(n) == IF file[n].fptr = 0 THEN {} ELSE {FatSector[file[n].clust]}
MayGrow(n) ==
  LET f == file[n]
  IN /\ MayWrite(n)
     /\ IF f.fptr = 0 THEN f.sclust = 0
        ELSE f.clust \in Clusters /\ view.fat[f.clust] = EOC

Allocated(n, c) ==
  /\ free_clst' = IF free_clst <= n_fatent - 2 THEN free_clst - 1 ELSE free_clst
  /\ fsi' = TRUE /\ UNCHANGED info
  /\ call' = Calling("write", "data", n, c, 0)

WriteNew(n) ==
  /\ MayGrow(n) /\ free_clst # 0
  /\ \E T \in SUBSET FatSectors :
       LET S == T \cup GrowsFrom(n)
       IN \/ \E c \in Clusters :
               /\ view.fat[c] = 0 /\ FatSector[c] \in T
               /\ Edit(S, FatSector[c], SetFat(c, EOC))
               /\ IF file[n].fptr = 0 THEN Allocated(n, c)
                  ELSE /\ call' = Calling("write", "link", n, c, file[n].clust)
                       /\ UNCHANGED counts
               /\ UNCHANGED file
          \/ DiskError(S) /\ Aborts(n) /\ UNCHANGED <<call, counts>>
  /\ UNCHANGED quiet

LinkNew ==
  LET S == {FatSector[call.ncl]}
  IN /\ At("link")
     /\ \/ /\ Edit(S, FatSector[call.ncl], SetFat(call.ncl, call.clst))
           /\ Allocated(call.name, call.clst)
           /\ UNCHANGED file
        \/ DiskError(S) /\ Aborts(call.name) /\ Returns /\ UNCHANGED counts
     /\ UNCHANGED quiet

\* The volume is full: the call ends with fewer bytes written, and FR_OK.  A
\* search that cannot read the FAT ends as in WriteInsane and WriteNew.
WriteFull(n) ==
  /\ MayGrow(n)
  /\ \/ /\ free_clst = 0
        /\ LET S == GrowsFrom(n)
           IN IF S = {} THEN UNCHANGED window
              ELSE Look(S, FatSector[file[n].clust])
     \/ /\ free_clst # 0 /\ \A c \in Clusters : view.fat[c] # 0
        /\ \E s \in FatSectors : Look(FatSectors, s)
  /\ file' = [file EXCEPT ![n].modified = TRUE]
  /\ UNCHANGED <<counts, call, quiet>>

WriteData ==
  LET n == call.name
      g == [file[n] EXCEPT !.clust = call.clst,
                           !.sclust = IF @ = 0 THEN call.clst ELSE @]
      z == g.fptr + 1
  IN /\ At("data")
     /\ \/ /\ file' = [file EXCEPT ![n] =
                [g EXCEPT !.fptr = z, !.modified = TRUE,
                          !.objsize = IF z > @ THEN z ELSE @]]
           /\ UNCHANGED faults
        \/ file' = [file EXCEPT ![n] = [g EXCEPT !.err = TRUE]] /\ Fault
     /\ Returns
     /\ UNCHANGED <<disk, view, winsect, wflag, counts, quiet>>

(***************************************************************************)
(* f_lseek within the file: to its beginning, or along the chain, from the *)
(* cluster the file is at if that comes before.  Seeks that would stretch  *)
(* the chain are left out.                                                 *)
(***************************************************************************)
Seek(n, k) ==
  LET f == file[n]
      from == IF f.fptr > 0 /\ k >= f.fptr THEN f.fptr ELSE 1
      w == Chain(view.fat, IF from = 1 THEN f.sclust ELSE f.clust)
      S == {FatSector[w[j]] : j \in 1 .. k-from}
  IN /\ Idle /\ f.open /\ ~f.err /\ k # f.fptr /\ k <= f.objsize
     /\ \A j \in 1 .. k-from+1 : w[j] \in Clusters
     /\ \/ /\ IF S = {} THEN UNCHANGED window ELSE Look(S, FatSector[w[k-from]])
           /\ file' = [file EXCEPT ![n].fptr = k,
                                   ![n].clust = IF k = 0 THEN @ ELSE w[k-from+1]]
        \/ DiskError(S) /\ Aborts(n)
     /\ UNCHANGED <<counts, call, quiet>>

(***************************************************************************)
(* f_truncate at the place of the file: the whole chain, or what follows.  *)
(* remove_chain ends the shortened chain before it frees a cluster.        *)
(***************************************************************************)
\* Mutant of CutAfter: the clusters are freed, and the link to them stays.
CutNothing(c, S) == Look(S, FatSector[c])

CutAfter(c, S) == Edit(S, FatSector[c], SetFat(c, EOC))

Truncate(n) ==
  LET f   == file[n]
      S   == {FatSector[f.clust]}
      nxt == view.fat[f.clust]
      all == f.fptr = 0 /\ f.sclust # 0
      insane == IF f.fptr = 0 THEN f.sclust = 0 ELSE f.clust \notin Clusters
  IN /\ Idle /\ f.open /\ ~f.err /\ f.fptr < f.objsize
     /\ \/ /\ all
           /\ call' = Calling("truncate", "remove", n, f.sclust, 0)
           /\ UNCHANGED <<window, file>>
        \/ /\ insane /\ FileEnds(n, TRUE) /\ UNCHANGED <<window, call>>
        \/ /\ ~all /\ ~insane
           /\ \/ /\ nxt \in Clusters
                 /\ CutAfter(f.clust, S)
                 /\ call' = Calling("truncate", "remove", n, nxt, 0)
                 /\ UNCHANGED file
              \/ /\ nxt \notin Clusters
                 /\ Look(S, FatSector[f.clust])
                 /\ FileEnds(n, nxt = 0) /\ UNCHANGED call
              \/ DiskError(S) /\ FileEnds(n, TRUE) /\ UNCHANGED call
     /\ saved' = [saved EXCEPT ![n] = NotSaved]
     /\ emptied' = IF all THEN emptied \cup {n} ELSE emptied
     /\ UNCHANGED <<counts, cut>>

(***************************************************************************)
(* f_sync and f_close: the entry, then sync_fs.  FA_MODIFIED is cleared    *)
(* once the entry is in the window, whatever sync_fs says.                 *)
(***************************************************************************)
CallSync(n, op) ==
  LET f == file[n]
      S == {DirSector[f.entry]}
  IN /\ Idle /\ f.open
     /\ \/ /\ ~f.modified
           /\ file' = IF op = "close" THEN [file EXCEPT ![n] = Closed] ELSE file
           /\ op = "close"
           /\ UNCHANGED <<window, call>>
        \/ /\ f.modified
           /\ Edit(S, DirSector[f.entry],
                   SetDir(f.entry, Entry(n, f.sclust, f.objsize)))
           /\ call' = Calling(op, "sync", n, 0, 0)
           /\ UNCHANGED file
        \/ f.modified /\ DiskError(S) /\ UNCHANGED <<file, call>>
     /\ UNCHANGED <<counts, quiet>>

SyncFails ==
  /\ Returns /\ Fault
  /\ file' = IF call.op \in {"sync", "close"}
             THEN [file EXCEPT ![call.name].modified = FALSE] ELSE file
  /\ UNCHANGED saved

SyncSucceeds ==
  LET n == call.name
  IN /\ Returns
     /\ file' = CASE call.op = "sync"  -> [file EXCEPT ![n].modified = FALSE]
                  [] call.op = "close" -> [file EXCEPT ![n] = Closed]
                  [] OTHER -> file
     /\ saved' = IF call.op \in {"sync", "close"}
                 THEN [saved EXCEPT ![n] = ChainOf(file[n])]
                 ELSE saved

\* Mutant of WriteWindow: what was changed stays in the window.
WindowStays == Goes("info", 0, 0) /\ UNCHANGED <<disk, wflag>>

WriteWindow == Goes("info", 0, 0) /\ disk' = WrittenBack /\ wflag' = FALSE

\* sync_window; a rename that fails here may have left two entries.
SyncWindow ==
  /\ At("sync")
  /\ \/ /\ WriteWindow
        /\ emptied' = emptied \ {call.name}
        /\ UNCHANGED <<view, winsect, faults, file, saved, cut>>
     \/ /\ wflag /\ SyncFails
        /\ cut' = (cut \/ call.op = "rename")
        /\ UNCHANGED <<disk, view, winsect, wflag, emptied>>
  /\ UNCHANGED counts

\* The FSInfo sector, whose write is not checked, and CTRL_SYNC.
SyncInfo ==
  /\ At("info")
  /\ IF fsi THEN fsi' = FALSE /\ winsect' = InfoSector ELSE UNCHANGED <<fsi, winsect>>
  /\ \/ SyncSucceeds /\ UNCHANGED faults /\ info' = IF fsi THEN free_clst ELSE info
     \/ fsi /\ SyncSucceeds /\ Fault /\ UNCHANGED info
     \/ SyncFails /\ info' = IF fsi THEN free_clst ELSE info
  /\ UNCHANGED <<disk, view, wflag, free_clst, emptied, cut>>

(***************************************************************************)
(* f_unlink: the entry, the chain, sync_fs.                                *)
(***************************************************************************)
Unlink(n) ==
  LET s == Slot(n)
      c == view.dir[s].clust
  IN /\ Idle /\ Has(n) /\ ~file[n].open
     /\ \/ /\ Edit(UpTo(s), DirSector[s], SetDir(s, Entry(Deleted, 0, 0)))
           /\ call' = Calling("unlink", IF c = 0 THEN "sync" ELSE "remove", n, c, 0)
           /\ saved' = [saved EXCEPT ![n] = NotSaved]
        \/ DiskError(UpTo(s)) /\ UNCHANGED <<call, saved>>
     /\ UNCHANGED <<counts, file, emptied, cut>>

(***************************************************************************)
(* f_rename: the new entry with what the old one holds, then the old entry *)
(* is deleted, then sync_fs.  From the first write on, the file counts as  *)
(* safe under neither name, until it is synced or closed under the new     *)
(* one.  A file renamed to the name it has (line 4982) is left out.        *)
(***************************************************************************)
Rename(o, n) ==
  /\ Idle /\ Has(o) /\ ~Has(n) /\ ~file[o].open
  /\ \E t \in Entries :
       LET e == view.dir[Slot(o)]
           S == UpTo(Slot(o)) \cup ToTheEnd \cup UpTo(t)
       IN /\ FirstFree(t)
          /\ \/ /\ Edit(S, DirSector[t], SetDir(t, Entry(n, e.clust, e.size)))
                /\ call' = Calling("rename", "unname", o, 0, Slot(o))
                /\ saved' = [saved EXCEPT ![o] = NotSaved, ![n] = NotSaved]
             \/ DiskError(S) /\ UNCHANGED <<call, saved>>
  /\ UNCHANGED <<counts, file, emptied, cut>>

Unname ==
  LET s == call.ncl
  IN /\ At("unname")
     /\ \/ /\ Edit({DirSector[s]}, DirSector[s], SetDir(s, Entry(Deleted, 0, 0)))
           /\ Goes("sync", 0, 0) /\ UNCHANGED cut
        \/ DiskError({DirSector[s]}) /\ Returns /\ cut' = TRUE
     /\ UNCHANGED <<counts, file, saved, emptied>>

(***************************************************************************)
(* A volume is in order if a cluster belongs to one entry or to one other  *)
(* cluster at most, and none that belongs to one is free.  own gives the   *)
(* first cluster of each entry, or 0.                                      *)
(***************************************************************************)
OneOwner(fat, own) ==
  /\ \A s, t \in Entries : own[s] # 0 /\ own[s] = own[t] => s = t
  /\ \A b, c \in Clusters : fat[b] \in Clusters /\ fat[b] = fat[c] => b = c
  /\ \A s \in Entries, b \in Clusters : own[s] # 0 => own[s] # fat[b]

NoneFree(fat, own) ==
  /\ \A s \in Entries  : own[s] # 0 => fat[own[s]] # 0
  /\ \A b \in Clusters : fat[b] \in Clusters => fat[fat[b]] # 0

InOrder(fat, own) == OneOwner(fat, own) /\ NoneFree(fat, own)

\* The volume d is, leaving out the files of X.
Sound(d, X) ==
  InOrder(d.fat, [s \in Entries |-> IF d.dir[s].name \in X THEN 0
                                    ELSE d.dir[s].clust])

\* The power goes, or the processor is reset, and the volume is mounted again.
Restart ==
  /\ Fault
  /\ view' = disk /\ wflag' = FALSE /\ winsect' = InfoSector
  /\ free_clst' = info /\ fsi' = FALSE
  /\ file' = [n \in Names |-> Closed]
  /\ call' = NoCall
  /\ emptied' = {} /\ cut' = (cut \/ ~Sound(disk, {}))
  /\ UNCHANGED <<disk, info, saved>>

Begin(n) ==
  \/ OpenAppend(n) \/ CreateNew(n) \/ CreateOver(n)
  \/ WriteHere(n) \/ WriteInsane(n) \/ WriteNew(n) \/ WriteFull(n)
  \/ \E k \in 0..MaxSize : Seek(n, k)
  \/ Truncate(n)
  \/ CallSync(n, "sync") \/ CallSync(n, "close")
  \/ Unlink(n)
  \/ \E o \in Names : Rename(o, n)

Continue ==
  \/ RemoveCluster \/ BackToEntry \/ LinkNew \/ WriteData
  \/ SyncWindow \/ SyncInfo \/ Unname

\* What becomes of a volume that has been damaged is not followed.
Damaged == cut /\ UNCHANGED vars

Next ==
  \/ ~cut /\ (Continue \/ Restart \/ \E n \in Names : Begin(n))
  \/ Damaged

Spec == Init /\ [][Next]_vars

(***************************************************************************)
(* Properties.                                                             *)
(***************************************************************************)
TypeOK ==
  /\ disk \in Volume /\ view \in Volume
  /\ wflag \in BOOLEAN /\ cut \in BOOLEAN
  /\ file \in [Names -> File]
  /\ call \in Call
  /\ emptied \subseteq Names

\* ff.c:4997 marks the "Start of critical section where an interruption can
\* cause a cross-link" in f_rename, ff.c:5015 its end.  Whenever the power goes
\* and whatever transfer fails, the card holds no two entries that share a
\* cluster and none that leads to a free one, but for a rename between its two
\* entries, and a file that was cut to nothing (f_truncate frees its clusters
\* before its entry is written).
RenameSection == call.op = "rename" /\ call.at \in {"unname", "sync"}
MediumSound == cut \/ RenameSection \/ Sound(disk, emptied)

\* A file whose f_sync or f_close wrote its entry and returned FR_OK is on the
\* card, in the clusters it had, and nothing is written to them for another
\* file, until a call shortens, removes, empties or renames it: whatever is done
\* to other files, with the power going and transfers failing at any moment.
WrittenFor(c, n) == At("data") /\ call.clst = c /\ call.name = n
DataKept ==
  cut \/ \A n \in Names : saved[n] # NotSaved =>
    /\ \E s \in Entries :
         LET e == disk.dir[s]
             w == Chain(disk.fat, e.clust)
         IN /\ e.name = n /\ e.size >= Len(saved[n])
            /\ \A k \in DOMAIN saved[n] : w[k] = saved[n][k]
    /\ \A k \in DOMAIN saved[n], m \in Names \ {n} : ~WrittenFor(saved[n][k], m)
=============================================================================
