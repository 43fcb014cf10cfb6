--------------------------- MODULE FatVolumeProof ---------------------------
(***************************************************************************)
(* The volume stays sound, proved for every number of names, entries,      *)
(* clusters and faults, wherever the sectors of the FAT and the directory  *)
(* lie.  The argument: the card holds what FatFs saw at an earlier moment  *)
(* (DiskInv), so it is enough that what FatFs sees is in order at every    *)
(* moment (ViewInv).  There the entries may lag behind the file objects,   *)
(* so the order is stated of Own, which takes the first cluster of an open *)
(* file from its file object.  MediumSound says nothing of chains that     *)
(* remove_chain or create_chain has in hand; CallInv says that nothing     *)
(* refers to them.                                                         *)
(*                                                                         *)
(* What was made safe stays safe by a second invariant, Kept, on top of    *)
(* the first: the card and FatFs both have the file in its clusters, a     *)
(* file object is at a cluster of its own chain, and so is what a call in  *)
(* progress is about to write to.  As a cluster has one owner, the chains  *)
(* of two files have none in common, and no step for one file disturbs     *)
(* what is safe of another.                                                *)
(***************************************************************************)
EXTENDS FatVolume, FiniteSetTheorems, SequenceTheorems, WellFoundedInduction, TLAPS

(***************************************************************************)
(* The invariant.                                                          *)
(***************************************************************************)

\* f_truncate is removing the whole chain of n, which its file object still has.
Emptying(n) ==
  /\ call.op = "truncate" /\ call.at = "remove" /\ call.name = n
  /\ file[n].fptr = 0

\* The first cluster of the file of entry s: that of its file object if it is
\* open; f_rename is about to delete the entry call.ncl.
OwnOf(s) ==
  LET n == view.dir[s].name
  IN IF At("unname") /\ call.ncl = s THEN 0
     ELSE IF n \in Names /\ file[n].open
          THEN IF Emptying(n) THEN 0 ELSE file[n].sclust
          ELSE view.dir[s].clust
Own == [s \in Entries |-> OwnOf(s)]

Unreferred(fat, own, c) ==
  /\ \A s \in Entries : own[s] # c
  /\ \A b \in Clusters : fat[b] # c

\* A name is in one entry, and an entry with a size has a cluster.
Directory(d) ==
  /\ \A s, t \in Entries :
       d.dir[s].name \in Names /\ d.dir[s].name = d.dir[t].name => s = t
  /\ \A s \in Entries : d.dir[s].size > 0 => d.dir[s].clust # 0

\* What is on the card is what FatFs saw at some earlier moment.
DiskInv ==
  /\ Directory(disk)
  /\ ~wflag => disk = view
  /\ RenameSection \/ Sound(disk, emptied)

FileInv ==
  \A n \in Names :
    /\ file[n].fptr > 0 \/ file[n].objsize > 0 => file[n].sclust # 0
    /\ file[n].open => /\ file[n].entry \in Entries
                       /\ view.dir[file[n].entry].name = n
    /\ file[n].open /\ ~file[n].modified /\ ~Emptying(n) =>
         view.dir[file[n].entry].clust \in {0, file[n].sclust}

\* The entries may lag behind the file objects, but for the files of emptied
\* they never lead to a cluster of another file.
ViewInv ==
  /\ Directory(view)
  /\ InOrder(view.fat, Own)
  /\ \A s \in Entries :
       \/ At("unname") /\ call.ncl = s
       \/ view.dir[s].clust \in {0, Own[s]}
       \/ view.dir[s].name \in emptied

Loose(c) == c \in Clusters /\ Unreferred(view.fat, Own, c)

\* f_open emptied the entry of n and has not made the file object yet.
Created(n) ==
  /\ ~file[n].open
  /\ \E s \in Entries : view.dir[s] = Entry(n, 0, 0)

CallInv ==
  /\ Idle \/ call.name \in Names
  /\ At("none") => Idle
  /\ At("remove") =>
       /\ Loose(call.clst)
       /\ \/ call.op = "create" /\ Created(call.name)
          \/ call.op = "unlink" /\ ~Has(call.name)
          \/ call.op = "truncate" /\ file[call.name].open
  /\ At("back") => call.op = "create" /\ Created(call.name)
  /\ At("link") =>
       /\ call.op = "write" /\ file[call.name].open /\ file[call.name].sclust # 0
       /\ file[call.name].fptr < MaxSize
       /\ call.ncl \in Clusters /\ view.fat[call.ncl] = EOC
       /\ Loose(call.clst) /\ view.fat[call.clst] # 0
  /\ At("data") =>
       /\ call.op = "write" /\ file[call.name].open /\ call.clst \in Clusters
       /\ file[call.name].fptr < MaxSize
       /\ file[call.name].sclust = 0 =>
            Loose(call.clst) /\ view.fat[call.clst] # 0
  /\ At("sync") \/ At("info") =>
       \/ /\ call.op \in {"sync", "close"} /\ file[call.name].open
          /\ view.dir[file[call.name].entry].clust = file[call.name].sclust
       \/ call.op \in {"unlink", "rename"} /\ ~Has(call.name)
  /\ At("unname") =>
       /\ call.op = "rename" /\ call.ncl \in Entries
       /\ view.dir[call.ncl].name = call.name /\ ~file[call.name].open

Good == DiskInv /\ FileInv /\ ViewInv /\ CallInv
IInv == TypeOK /\ (cut \/ Good)

-----------------------------------------------------------------------------
(* Chains and their owners. *)

Fats == [Clusters -> {0} \cup Clusters \cup {EOC}]
Owns == [Entries -> {0} \cup Clusters]

LEMMA Numbers == 0 \notin Clusters /\ EOC \notin Clusters /\ EOC # 0
  BY VolumeAssumption DEF Clusters, EOC, n_fatent

LEMMA NotPositive == \A x : x = 0 => ~(x > 0)
  OBVIOUS

\* An entry that leads to nothing takes no cluster from anybody.
LEMMA Weaken ==
  ASSUME NEW fat, NEW own, NEW own2,
         InOrder(fat, own), \A s \in Entries : own2[s] \in {0, own[s]}
  PROVE  InOrder(fat, own2)
  BY DEF InOrder, OneOwner, NoneFree

\* Freeing a cluster nothing leads to leaves nothing that leads to the next.
LEMMA FreeCluster ==
  ASSUME NEW fat \in Fats, NEW own \in Owns, NEW c \in Clusters,
         InOrder(fat, own), Unreferred(fat, own, c)
  PROVE  LET f == [fat EXCEPT ![c] = 0]
         IN /\ InOrder(f, own)
            /\ fat[c] \in Clusters => Unreferred(f, own, fat[c])
  BY Numbers DEF InOrder, OneOwner, NoneFree, Unreferred, Fats, Owns

\* Nothing leads to a free cluster, nor to one that was just taken.
LEMMA TakeCluster ==
  ASSUME NEW fat \in Fats, NEW own \in Owns, NEW c \in Clusters,
         InOrder(fat, own), fat[c] = 0
  PROVE  LET f == [fat EXCEPT ![c] = EOC]
         IN InOrder(f, own) /\ Unreferred(f, own, c)
  BY Numbers DEF InOrder, OneOwner, NoneFree, Unreferred, Fats, Owns

\* Ending a chain leaves nothing that leads to what followed.
LEMMA CutChain ==
  ASSUME NEW fat \in Fats, NEW own \in Owns, NEW c \in Clusters,
         InOrder(fat, own), fat[c] \in Clusters
  PROVE  LET f == [fat EXCEPT ![c] = EOC]
         IN InOrder(f, own) /\ Unreferred(f, own, fat[c])
  BY Numbers DEF InOrder, OneOwner, NoneFree, Unreferred, Fats, Owns

LEMMA LinkCluster ==
  ASSUME NEW fat \in Fats, NEW own \in Owns, NEW b \in Clusters, NEW c \in Clusters,
         InOrder(fat, own), Unreferred(fat, own, c), fat[c] # 0, fat[b] = EOC
  PROVE  InOrder([fat EXCEPT ![b] = c], own)
  BY Numbers DEF InOrder, OneOwner, NoneFree, Unreferred, Fats, Owns

\* A file gets its first cluster.
LEMMA OwnCluster ==
  ASSUME NEW fat \in Fats, NEW own \in Owns, NEW s \in Entries, NEW c \in Clusters,
         InOrder(fat, own), Unreferred(fat, own, c), fat[c] # 0, own[s] = 0
  PROVE  InOrder(fat, [own EXCEPT ![s] = c])
  BY Numbers DEF InOrder, OneOwner, NoneFree, Unreferred, Fats, Owns

\* A file gives its first cluster up.
LEMMA DropCluster ==
  ASSUME NEW fat \in Fats, NEW own \in Owns, NEW own2 \in Owns, NEW s \in Entries,
         InOrder(fat, own), own[s] # 0, own2[s] = 0,
         \A t \in Entries \ {s} : own2[t] = own[t]
  PROVE  InOrder(fat, own2) /\ Unreferred(fat, own2, own[s])
  BY Numbers DEF InOrder, OneOwner, NoneFree, Unreferred, Fats, Owns

\* Another entry takes over the first cluster of a file.
LEMMA MoveCluster ==
  ASSUME NEW fat \in Fats, NEW own \in Owns, NEW own2 \in Owns,
         NEW s \in Entries, NEW t \in Entries, s # t,
         InOrder(fat, own), own2[s] = 0, own2[t] = own[s],
         \A u \in Entries \ {s, t} : own2[u] = own[u]
  PROVE  InOrder(fat, own2)
  BY Numbers DEF InOrder, OneOwner, NoneFree, Unreferred, Fats, Owns

-----------------------------------------------------------------------------
(* The window. *)

\* What a step may do to the card: leave it, or write what FatFs saw.
WindowMoved ==
  /\ disk' \in {disk, view} /\ wflag' \in BOOLEAN
  /\ ~wflag' => disk' = view'

LEMMA LookMoves ==
  ASSUME TypeOK, DiskInv, NEW S, NEW s,
         Look(S, s) \/ DiskError(S) \/ UNCHANGED window
  PROVE  WindowMoved /\ view' = view
  BY DEF Look, DiskError, window, WindowMoved, WrittenBack, DiskInv, TypeOK

LEMMA EditMoves ==
  ASSUME TypeOK, DiskInv, NEW S, NEW s, NEW v, Edit(S, s, v)
  PROVE  WindowMoved /\ view' = v
  BY DEF Edit, WindowMoved, WrittenBack, DiskInv, TypeOK

LEMMA OwnType == ASSUME TypeOK PROVE Own \in Owns
  BY DEF TypeOK, Own, OwnOf, Owns, Volume, File

\* What FatFs sees is in order, when no rename is between its two entries.
LEMMA ViewSound ==
  ASSUME TypeOK, ViewInv, ~At("unname")
  PROVE  Sound(view, emptied)
<1> DEFINE own == [s \in Entries |-> IF view.dir[s].name \in emptied THEN 0
                                     ELSE view.dir[s].clust]
<1>1. \A s \in Entries : own[s] \in {0, Own[s]}
  BY DEF ViewInv
<1>2. InOrder(view.fat, own)
  BY <1>1, Weaken DEF ViewInv
<1> QED
  BY <1>2 DEF Sound

\* Leaving out more files leaves a volume in order.
LEMMA SoundMore ==
  ASSUME NEW d, NEW X, NEW Y, X \subseteq Y, Sound(d, X)
  PROVE  Sound(d, Y)
<1> DEFINE own == [s \in Entries |-> IF d.dir[s].name \in X THEN 0 ELSE d.dir[s].clust]
           own2 == [s \in Entries |-> IF d.dir[s].name \in Y THEN 0 ELSE d.dir[s].clust]
<1>1. \A s \in Entries : own2[s] \in {0, own[s]}
  OBVIOUS
<1>2. InOrder(d.fat, own)
  BY DEF Sound
<1>3. InOrder(d.fat, own2)
  BY <1>1, <1>2, Weaken
<1> QED
  BY <1>3 DEF Sound

\* The card stays in order in any step that is not part of a rename.
LEMMA DiskStays ==
  ASSUME TypeOK, Good, WindowMoved, ~RenameSection, emptied \subseteq emptied'
  PROVE  DiskInv' /\ disk' \in Volume /\ wflag' \in BOOLEAN
<1>1. ~At("unname")
  BY DEF Good, CallInv, RenameSection, At
<1>2. Sound(disk, emptied) /\ Sound(view, emptied)
  BY <1>1, ViewSound DEF Good, DiskInv
<1>3. Sound(disk', emptied')
  BY <1>2, SoundMore DEF WindowMoved
<1>4. Directory(disk')
  BY DEF WindowMoved, Good, DiskInv, ViewInv
<1> QED
  BY <1>3, <1>4 DEF WindowMoved, DiskInv, TypeOK

-----------------------------------------------------------------------------
(* The calls, step by step. *)

LEMMA SlotFacts ==
  ASSUME TypeOK, NEW n \in Names, Has(n)
  PROVE  Slot(n) \in Entries /\ view.dir[Slot(n)].name = n
  BY DEF Has, Slot

LEMMA IdleFacts ==
  ASSUME Idle
  PROVE  /\ call.at = "none" /\ call.op = "none"
         /\ ~RenameSection /\ ~At("unname")
         /\ \A n \in Names : ~Emptying(n)
  BY DEF Idle, NoCall, RenameSection, At, Emptying

\* A step after which no call is in progress.
LEMMA CallsNone ==
  ASSUME call' = NoCall
  PROVE  CallInv' /\ call' \in Call
  BY DEF CallInv, Idle, NoCall, At, Call

\* A step after which the files own what they owned.
LEMMA OwnStays ==
  ASSUME view'.dir = view.dir, ~At("unname"), ~At("unname")',
         \A n \in Names : ~Emptying(n) /\ ~Emptying(n)',
         \A n \in Names : file'[n].open = file[n].open /\ file'[n].sclust = file[n].sclust
  PROVE  Own' = Own
<1>1. ASSUME NEW t \in Entries PROVE OwnOf(t)' = OwnOf(t)
  <2>1. view'.dir[t].name = view.dir[t].name /\ view'.dir[t].clust = view.dir[t].clust
    OBVIOUS
  <2> QED
    BY <2>1 DEF OwnOf
<1> QED
  BY <1>1 DEF Own

\* A step that moves the window and the place in files, and changes neither the
\* table nor what a file owns.
LEMMA PlacesMove ==
  ASSUME TypeOK, Good, WindowMoved, view' = view, emptied' = emptied, cut' = cut,
         ~RenameSection, ~At("unname")',
         \A n \in Names : ~Emptying(n) /\ ~Emptying(n)',
         file' \in [Names -> File], call' \in Call, CallInv',
         \A n \in Names :
           /\ file'[n].open = file[n].open /\ file'[n].sclust = file[n].sclust
           /\ file'[n].entry = file[n].entry
           /\ file'[n].fptr > 0 \/ file'[n].objsize > 0 => file'[n].sclust # 0
           /\ file[n].open /\ ~file'[n].modified =>
                \/ ~file[n].modified
                \/ view.dir[file[n].entry].clust \in {0, file[n].sclust}
  PROVE  TypeOK' /\ Good'
<1>1. DiskInv' /\ disk' \in Volume /\ wflag' \in BOOLEAN
  BY DiskStays
<1>2. ~At("unname")
  BY DEF RenameSection, Good, CallInv, At
<1>3. Own' = Own
  BY <1>2, OwnStays
<1>4. ViewInv'
  BY <1>2, <1>3 DEF ViewInv, Good
<1>5. FileInv'
  BY DEF FileInv, Good
<1>6. TypeOK'
  BY <1>1 DEF TypeOK
<1> QED
  BY <1>1, <1>4, <1>5, <1>6 DEF Good

\* A call ends and has moved the window only.
LEMMA NothingDone ==
  ASSUME TypeOK, Good, WindowMoved, view' = view, file' = file, call' = NoCall,
         emptied' = emptied, cut' = cut,
         ~RenameSection, \A n \in Names : ~Emptying(n)
  PROVE  TypeOK' /\ Good'
<1>1. CallInv' /\ call' \in Call /\ ~At("unname")'
  BY CallsNone DEF NoCall, At
<1>2. \A m \in Names : ~Emptying(m)'
  BY DEF Emptying, NoCall
<1>3. file' \in [Names -> File]
  BY DEF TypeOK
<1> QED
  BY <1>1, <1>2, <1>3, PlacesMove DEF Good, FileInv

LEMMA OpenAppendStep ==
  ASSUME TypeOK, Good, NEW n \in Names, OpenAppend(n)
  PROVE  TypeOK' /\ Good'
<1> DEFINE s == Slot(n)
           e == view.dir[s]
<1>1. Idle /\ Has(n) /\ ~file[n].open /\ call' = call /\ emptied' = emptied /\ cut' = cut
  BY DEF OpenAppend, quiet
<1>2. WindowMoved /\ view' = view
  BY LookMoves DEF OpenAppend, Good
<1>3. s \in Entries /\ e.name = n
  BY <1>1, SlotFacts
<1>4. DiskInv' /\ disk' \in Volume /\ wflag' \in BOOLEAN
  BY <1>1, <1>2, DiskStays, IdleFacts
<1>5. \/ file' = file
      \/ \E c \in {0} \cup Clusters \cup {EOC} :
           file' = [file EXCEPT ![n] = [Opened(s, e.clust, e.size, FALSE) EXCEPT
                                          !.fptr = e.size, !.clust = c]]
  BY DEF OpenAppend
<1>6. CASE file' = file
  <2>1. call' = NoCall
    BY <1>1 DEF Idle
  <2> QED
    BY <1>1, <1>2, <1>6, <2>1, NothingDone, IdleFacts
<1>7. CASE file' # file
  <2>1. PICK c \in {0} \cup Clusters \cup {EOC} :
          file' = [file EXCEPT ![n] = [Opened(s, e.clust, e.size, FALSE) EXCEPT
                                          !.fptr = e.size, !.clust = c]]
    BY <1>5, <1>7
  <2>2. e.clust \in {0} \cup Clusters /\ e.size \in 0..MaxSize
    BY <1>3 DEF TypeOK, Volume
  <2>3. /\ file' \in [Names -> File]
        /\ file'[n].open = TRUE /\ file'[n].entry = s /\ file'[n].sclust = e.clust
        /\ file'[n].objsize = e.size /\ file'[n].fptr = e.size
        /\ file'[n].modified = FALSE
        /\ \A m \in Names \ {n} : file'[m] = file[m]
    BY <1>3, <2>1, <2>2 DEF File, TypeOK, Opened
  <2>4. ASSUME NEW t \in Entries PROVE OwnOf(t)' = OwnOf(t)
    <3>1. view'.dir[t].name = view.dir[t].name /\ view'.dir[t].clust = view.dir[t].clust
      BY <1>2
    <3>2. t # s => view.dir[t].name # n
      BY <1>3 DEF Good, ViewInv, Directory
    <3>3. (t = s => OwnOf(t)' = e.clust /\ OwnOf(t) = e.clust)
      BY <1>1, <1>2, <1>3, <2>3, IdleFacts DEF OwnOf, Emptying, At
    <3> QED
      BY <1>1, <2>3, <3>1, <3>2, <3>3 DEF OwnOf, Emptying, At
  <2>5. Own' = Own
    BY <2>4 DEF Own
  <2>6. FileInv'
    BY <1>1, <1>2, <1>3, <2>2, <2>3, IdleFacts DEF FileInv, Emptying, Good, ViewInv, Directory, TypeOK
  <2> QED
    BY <1>1, <1>2, <1>4, <2>3, <2>5, <2>6, IdleFacts DEF TypeOK, Good, ViewInv, CallInv, Idle, At, NoCall
<1> QED
  BY <1>6, <1>7

LEMMA DirType ==
  ASSUME TypeOK, NEW s \in Entries
  PROVE  /\ view.dir[s].name \in Names \cup {Blank, Deleted}
         /\ view.dir[s].clust \in {0} \cup Clusters
         /\ view.dir[s].size \in 0..MaxSize
  BY DEF TypeOK, Volume

\* An entry is written: the table stays, and the other entries do.
LEMMA SetDirFacts ==
  ASSUME TypeOK, NEW s \in Entries, NEW m \in Names \cup {Blank, Deleted},
         NEW c \in {0} \cup Clusters, NEW z \in 0..MaxSize,
         view' = SetDir(s, Entry(m, c, z))
  PROVE  /\ view' \in Volume /\ view'.fat = view.fat
         /\ view'.dir[s].name = m /\ view'.dir[s].clust = c /\ view'.dir[s].size = z
         /\ \A t \in Entries \ {s} : view'.dir[t] = view.dir[t]
  BY DEF SetDir, Entry, TypeOK, Volume

\* A file is created in entry s, which from then on leads to nothing.
LEMMA FileCreated ==
  ASSUME TypeOK, Good, WindowMoved, ~RenameSection, call' = NoCall,
         emptied' = emptied, cut' = cut,
         NEW n \in Names, NEW s \in Entries, ~file[n].open,
         view.dir[s].name \notin Names \ {n},
         \A m \in Names : ~Emptying(m),
         view' \in Volume, view'.fat = view.fat, view'.dir[s] = Entry(n, 0, 0),
         \A t \in Entries \ {s} : view'.dir[t] = view.dir[t] /\ view.dir[t].name # n,
         file' = [file EXCEPT ![n] = Opened(s, 0, 0, TRUE)]
  PROVE  TypeOK' /\ Good'
<1>1. DiskInv' /\ disk' \in Volume /\ wflag' \in BOOLEAN
  BY DiskStays
<1>2. /\ file' \in [Names -> File]
      /\ file'[n].open = TRUE /\ file'[n].entry = s /\ file'[n].sclust = 0
      /\ file'[n].objsize = 0 /\ file'[n].fptr = 0 /\ file'[n].modified = TRUE
      /\ \A m \in Names \ {n} : file'[m] = file[m]
  <2> DEFINE f == Opened(s, 0, 0, TRUE)
  <2>1. /\ f \in File /\ f.open = TRUE /\ f.entry = s /\ f.sclust = 0
        /\ f.objsize = 0 /\ f.fptr = 0 /\ f.modified = TRUE
    BY VolumeAssumption DEF File, Opened
  <2>2. file' = [file EXCEPT ![n] = f]
    OBVIOUS
  <2> HIDE DEF f
  <2> QED
    BY <2>1, <2>2 DEF TypeOK
<1>3. CallInv' /\ call' \in Call /\ ~At("unname")' /\ ~At("unname")
  BY CallsNone DEF NoCall, At, RenameSection, Good, CallInv
<1>4. \A m \in Names : ~Emptying(m)'
  BY DEF Emptying, NoCall
<1>5. ASSUME NEW t \in Entries PROVE OwnOf(t)' = IF t = s THEN 0 ELSE OwnOf(t)
  <2>1. CASE t = s
    <3>1. view'.dir[t].name = n
      BY <2>1 DEF Entry
    <3>2. ~Emptying(n)'
      BY <1>4
    <3> QED
      BY <1>2, <1>3, <2>1, <3>1, <3>2 DEF OwnOf
  <2>2. CASE t # s
    <3>1. view'.dir[t] = view.dir[t] /\ view.dir[t].name # n
      BY <2>2
    <3> QED
      BY <1>2, <1>3, <1>4, <2>2, <3>1 DEF OwnOf
  <2> QED
    BY <2>1, <2>2
<1>6. InOrder(view'.fat, Own')
  <2>1. \A t \in Entries : Own'[t] \in {0, Own[t]}
    BY <1>5 DEF Own
  <2>2. InOrder(view.fat, Own)
    BY DEF Good, ViewInv
  <2> QED
    BY <2>1, <2>2, Weaken
<1>7. Directory(view')
  BY DEF Entry, Directory, Good, ViewInv
<1>8. \A t \in Entries : view'.dir[t].clust \in {0, Own'[t]} \/ view'.dir[t].name \in emptied'
  <2>1. \A t \in Entries \ {s} : Own'[t] = Own[t]
    BY <1>5 DEF Own
  <2>2. view'.dir[s].clust = 0
    BY DEF Entry
  <2> QED
    BY <2>1, <2>2, <1>3 DEF Good, ViewInv
<1>9. FileInv'
  <2>1. view'.dir[s].name = n
    BY DEF Entry
  <2>2. file'[n].entry \in Entries /\ view'.dir[file'[n].entry].name = n
    BY <1>2, <2>1
  <2>3. ASSUME NEW m \in Names \ {n}, file[m].open
        PROVE  file[m].entry # s /\ view'.dir[file[m].entry] = view.dir[file[m].entry]
    <3>1. file[m].entry \in Entries /\ view.dir[file[m].entry].name = m
      BY <2>3 DEF FileInv, Good
    <3>2. file[m].entry # s
      BY <3>1
    <3> QED
      BY <3>1, <3>2
  <2>4. ASSUME NEW m \in Names
        PROVE  /\ file'[m].fptr > 0 \/ file'[m].objsize > 0 => file'[m].sclust # 0
               /\ file'[m].open => /\ file'[m].entry \in Entries
                                   /\ view'.dir[file'[m].entry].name = m
               /\ file'[m].open /\ ~file'[m].modified =>
                    view'.dir[file'[m].entry].clust \in {0, file'[m].sclust}
    <3>1. CASE m = n
      <4>1. file'[m].modified
        BY <1>2, <3>1
      <4>2. file'[m].fptr = 0 /\ file'[m].objsize = 0
        BY <1>2, <3>1
      <4>3. ~(file'[m].fptr > 0 \/ file'[m].objsize > 0)
        BY <4>2, NotPositive
      <4>4. file'[m].entry \in Entries /\ view'.dir[file'[m].entry].name = m
        BY <2>2, <3>1
      <4> QED
        BY <4>1, <4>3, <4>4
    <3>2. CASE m # n
      <4>1. file'[m] = file[m]
        BY <1>2, <3>2
      <4>2. CASE file[m].open
        BY <3>2, <4>1, <4>2, <2>3 DEF FileInv, Good
      <4>3. CASE ~file[m].open
        BY <4>1, <4>3 DEF FileInv, Good
      <4> QED
        BY <4>2, <4>3
    <3> QED
      BY <3>1, <3>2
  <2> QED
    BY <2>4 DEF FileInv
<1>10. TypeOK'
  BY <1>1, <1>2, <1>3 DEF TypeOK
<1> QED
  BY <1>1, <1>3, <1>6, <1>7, <1>8, <1>9, <1>10 DEF Good, ViewInv

LEMMA FreeNames ==
  ASSUME NEW s, IsFree(s)
  PROVE  view.dir[s].name \notin Names
  BY VolumeAssumption DEF IsFree

LEMMA CreateNewStep ==
  ASSUME TypeOK, Good, NEW n \in Names, CreateNew(n)
  PROVE  TypeOK' /\ Good'
<1>1. Idle /\ ~Has(n) /\ call' = NoCall /\ emptied' = emptied /\ cut' = cut
  BY DEF CreateNew, quiet, Idle
<1>2. ~RenameSection /\ \A m \in Names : ~Emptying(m)
  BY <1>1, IdleFacts
<1>31. PICK s \in Entries : \E S :
         /\ FirstFree(s)
         /\ \/ /\ Edit(S, DirSector[s], SetDir(s, Entry(n, 0, 0)))
               /\ file' = [file EXCEPT ![n] = Opened(s, 0, 0, TRUE)]
            \/ DiskError(S) /\ UNCHANGED file
  BY DEF CreateNew
<1>3. PICK S :
        /\ FirstFree(s)
        /\ \/ /\ Edit(S, DirSector[s], SetDir(s, Entry(n, 0, 0)))
              /\ file' = [file EXCEPT ![n] = Opened(s, 0, 0, TRUE)]
           \/ DiskError(S) /\ UNCHANGED file
  BY <1>31
<1>4. CASE DiskError(S) /\ UNCHANGED file
  <2>1. WindowMoved /\ view' = view
    BY <1>4, LookMoves DEF Good
  <2> QED
    BY <1>1, <1>2, <1>4, <2>1, NothingDone
<1>5. CASE /\ Edit(S, DirSector[s], SetDir(s, Entry(n, 0, 0)))
           /\ file' = [file EXCEPT ![n] = Opened(s, 0, 0, TRUE)]
  <2>1. WindowMoved /\ view' = SetDir(s, Entry(n, 0, 0))
    BY <1>5, EditMoves DEF Good
  <2>2. /\ view' \in Volume /\ view'.fat = view.fat
        /\ \A t \in Entries \ {s} : view'.dir[t] = view.dir[t]
    BY <2>1, SetDirFacts, VolumeAssumption
  <2>3. view'.dir[s] = Entry(n, 0, 0)
    BY <2>1 DEF SetDir, TypeOK, Volume
  <2>4. ~file[n].open
    BY <1>1 DEF Has, Good, FileInv
  <2>5. view.dir[s].name \notin Names /\ \A t \in Entries : view.dir[t].name # n
    BY <1>1, <1>3, FreeNames DEF Has, FirstFree
  <2> QED
    BY <1>1, <1>2, <1>5, <2>1, <2>2, <2>3, <2>4, <2>5, FileCreated
<1> QED
  BY <1>3, <1>4, <1>5

LEMMA CreateOverStep ==
  ASSUME TypeOK, Good, NEW n \in Names, CreateOver(n)
  PROVE  TypeOK' /\ Good'
<1> DEFINE s == Slot(n)
           c == view.dir[s].clust
<1>1. Idle /\ Has(n) /\ ~file[n].open /\ emptied' = emptied /\ cut' = cut
  BY DEF CreateOver
<1>2. ~RenameSection /\ ~At("unname") /\ \A m \in Names : ~Emptying(m)
  BY <1>1, IdleFacts
<1>3. s \in Entries /\ view.dir[s].name = n
  BY <1>1, SlotFacts
<1>4. CASE DiskError(UpTo(s)) /\ UNCHANGED <<file, call>>
  <2>1. WindowMoved /\ view' = view
    BY <1>4, LookMoves DEF Good
  <2> QED
    BY <1>1, <1>2, <1>4, <2>1, NothingDone DEF Idle
<1>5. CASE /\ Edit(UpTo(s), DirSector[s], SetDir(s, Entry(n, 0, 0)))
           /\ \/ call' = call /\ file' = [file EXCEPT ![n] = Opened(s, 0, 0, TRUE)]
              \/ /\ c # 0 /\ call' = Calling("create", "remove", n, c, 0)
                 /\ file' = file
  <2>1. WindowMoved /\ view' = SetDir(s, Entry(n, 0, 0))
    BY <1>5, EditMoves DEF Good
  <2>2. /\ view' \in Volume /\ view'.fat = view.fat
        /\ \A t \in Entries \ {s} : view'.dir[t] = view.dir[t]
    BY <1>3, <2>1, SetDirFacts, VolumeAssumption
  <2>3. view'.dir[s] = Entry(n, 0, 0)
    BY <1>3, <2>1 DEF SetDir, TypeOK, Volume
  <2>4. \A t \in Entries \ {s} : view.dir[t].name # n
    BY <1>3 DEF Good, ViewInv, Directory
  <2>5. CASE call' = call /\ file' = [file EXCEPT ![n] = Opened(s, 0, 0, TRUE)]
    <3>1. call' = NoCall
      BY <1>1, <2>5 DEF Idle
    <3> QED
      BY <1>1, <1>2, <1>3, <2>1, <2>2, <2>3, <2>4, <2>5, <3>1, FileCreated
  <2>6. CASE /\ c # 0 /\ call' = Calling("create", "remove", n, c, 0)
             /\ file' = file
    <3>1. DiskInv' /\ disk' \in Volume /\ wflag' \in BOOLEAN
      BY <1>1, <1>2, <2>1, DiskStays
    <3>2. c \in Clusters
      BY <1>3, <2>6, DirType
    <3>3. /\ call' \in Call /\ call'.op = "create" /\ call'.at = "remove"
          /\ call'.name = n /\ call'.clst = c /\ ~At("unname")'
          /\ \A m \in Names : ~Emptying(m)'
      BY <2>6, <3>2 DEF Calling, Call, At, Emptying
    <3>4. ASSUME NEW t \in Entries PROVE OwnOf(t)' = IF t = s THEN 0 ELSE OwnOf(t)
      <4>1. CASE t = s
        BY <1>1, <2>3, <2>6, <3>3, <4>1 DEF OwnOf, Entry
      <4>2. CASE t # s
        <5>1. view'.dir[t] = view.dir[t]
          BY <2>2, <4>2
        <5> QED
          BY <1>2, <2>6, <3>3, <4>2, <5>1 DEF OwnOf
      <4> QED
        BY <4>1, <4>2
    <3>5. OwnOf(s) = c
      BY <1>1, <1>2, <1>3 DEF OwnOf
    <3>6. /\ Own \in Owns /\ Own[s] = c /\ Own' \in Owns /\ Own'[s] = 0
          /\ \A t \in Entries \ {s} : Own'[t] = Own[t]
      BY <1>3, <3>4, <3>5, OwnType DEF Own, Owns
    <3>7. view.fat \in Fats /\ InOrder(view.fat, Own)
      BY DEF Good, ViewInv, TypeOK, Volume, Fats
    <3>8. InOrder(view.fat, Own') /\ Unreferred(view.fat, Own', c)
      BY <1>3, <2>6, <3>6, <3>7, DropCluster
    <3>9. Directory(view')
      BY <2>2, <2>3, <1>3 DEF Directory, Good, ViewInv, Entry
    <3>10. ViewInv'
      <4>1. view'.dir[s].clust = 0
        BY <2>3 DEF Entry
      <4> QED
        BY <1>1, <1>2, <2>2, <3>3, <3>6, <3>8, <3>9, <4>1 DEF ViewInv, Good
    <3>11. \A t \in Entries : view'.dir[t].name = view.dir[t].name
      BY <1>3, <2>2, <2>3 DEF Entry
    <3>12. CallInv'
      BY <1>1, <1>3, <2>2, <2>3, <2>6, <3>2, <3>3, <3>8 DEF CallInv, At, Loose, Created, Idle
    <3>13. FileInv'
      <4>1. ASSUME NEW m \in Names, file[m].open
            PROVE  file[m].entry \in Entries \ {s} /\ view.dir[file[m].entry].name = m
        BY <1>1, <1>3, <4>1 DEF FileInv, Good
      <4> QED
        BY <1>2, <2>2, <2>6, <4>1 DEF FileInv, Good
    <3> QED
      BY <1>1, <2>2, <2>6, <3>1, <3>3, <3>10, <3>12, <3>13 DEF TypeOK, Good
  <2> QED
    BY <1>5, <2>5, <2>6
<1> QED
  BY <1>4, <1>5 DEF CreateOver

LEMMA BackToEntryStep ==
  ASSUME TypeOK, Good, BackToEntry
  PROVE  TypeOK' /\ Good'
<1> DEFINE n == call.name
           s == Slot(n)
<1>1. At("back") /\ call' = NoCall /\ emptied' = emptied /\ cut' = cut
  BY DEF BackToEntry, quiet, Returns
<1>2. ~RenameSection /\ \A m \in Names : ~Emptying(m)
  BY <1>1 DEF RenameSection, At, Emptying
<1>3. WindowMoved /\ view' = view
  BY LookMoves DEF BackToEntry, Good
<1>4. n \in Names /\ ~file[n].open
  BY <1>1 DEF Good, CallInv, At, Idle, NoCall, Created
<1>5. PICK t \in Entries : view.dir[t] = Entry(n, 0, 0)
  BY <1>1 DEF Good, CallInv, Created
<1>6. /\ s = t
      /\ \A u \in Entries \ {s} : view.dir[u].name # n
  <2>1. view.dir[t].name = n
    BY <1>5 DEF Entry
  <2>2. s \in Entries /\ view.dir[s].name = n
    BY <2>1, <1>4, SlotFacts DEF Has
  <2> QED
    BY <1>4, <2>1, <2>2 DEF Good, ViewInv, Directory
<1>7. CASE file' = file
  BY <1>1, <1>2, <1>3, <1>7, NothingDone
<1>8. CASE file' = [file EXCEPT ![n] = Opened(s, 0, 0, TRUE)]
  <2>1. view'.dir[s] = Entry(n, 0, 0) /\ view.dir[s].name = n /\ view' \in Volume
    BY <1>3, <1>5, <1>6 DEF Entry, TypeOK
  <2> QED
    BY <1>1, <1>2, <1>3, <1>4, <1>6, <1>8, <2>1, FileCreated
<1> QED
  BY <1>7, <1>8 DEF BackToEntry

LEMMA FileEndsFacts ==
  ASSUME TypeOK, NEW n \in Names, NEW failed \in BOOLEAN, FileEnds(n, failed)
  PROVE  /\ file' \in [Names -> File]
         /\ file'[n].open = file[n].open /\ file'[n].entry = file[n].entry
         /\ file'[n].fptr = file[n].fptr /\ file'[n].objsize = file[n].fptr
         /\ file'[n].modified
         /\ file'[n].sclust = IF file[n].fptr = 0 THEN 0 ELSE file[n].sclust
         /\ \A m \in Names \ {n} : file'[m] = file[m]
<1> DEFINE g == IF file[n].fptr = 0 THEN 0 ELSE file[n].sclust
           f == [file[n] EXCEPT !.objsize = file[n].fptr, !.modified = TRUE,
                                !.sclust = g, !.err = failed]
<1>1. file[n] \in File /\ file \in [Names -> File] /\ g \in {0} \cup Clusters
  BY DEF TypeOK, File
<1>2. file' = [file EXCEPT ![n] = f]
  BY <1>1 DEF FileEnds
<1>3. /\ f \in File /\ f.open = file[n].open /\ f.entry = file[n].entry
      /\ f.fptr = file[n].fptr /\ f.objsize = file[n].fptr
      /\ f.modified /\ f.sclust = g
  BY <1>1 DEF File
<1> HIDE DEF f
<1> QED
  BY <1>1, <1>2, <1>3

\* remove_chain ends: what the entries own is what they owned.
LEMMA ChainEnds ==
  ASSUME TypeOK, Good, At("remove"), WindowMoved, emptied' = emptied, cut' = cut,
         view' \in Volume, view'.dir = view.dir, InOrder(view'.fat, Own),
         ChainGone \/ ChainStays
  PROVE  TypeOK' /\ Good'
<1> DEFINE n == call.name
<1>1. ~At("unname") /\ ~RenameSection /\ n \in Names
  BY DEF At, RenameSection, Good, CallInv, Idle, NoCall
<1>2. DiskInv' /\ disk' \in Volume /\ wflag' \in BOOLEAN
  BY <1>1, DiskStays
<1>3. /\ call' \in Call /\ call'.at \in {"none", "back", "sync"}
      /\ \/ call' = NoCall
         \/ call'.at = "back" /\ call.op = "create" /\ call'.op = "create"
         \/ call'.at = "sync" /\ call.op = "unlink" /\ call'.op = "unlink"
      /\ call' = NoCall \/ call'.name = n
  <2>1. call.op \in {"create", "unlink", "truncate"}
    BY DEF Good, CallInv
  <2>2. CASE ChainStays
    BY <2>2 DEF ChainStays, Returns, Call, NoCall
  <2>3. CASE call.op = "truncate" /\ ChainGone
    BY <2>3 DEF ChainGone, Returns, Call, NoCall
  <2>4. CASE call.op \in {"create", "unlink"} /\ ChainGone
    BY <2>4 DEF ChainGone, Goes, TypeOK, Call
  <2> QED
    BY <2>1, <2>2, <2>3, <2>4
<1>4. ~At("unname")' /\ \A m \in Names : ~Emptying(m)'
  BY <1>3 DEF At, Emptying
<1>5. CASE call.op = "truncate"
  <2>1. (FileEnds(n, FALSE) \/ FileEnds(n, TRUE)) /\ call' = NoCall
    BY <1>5 DEF ChainGone, ChainStays, Returns
  <2>2. /\ file' \in [Names -> File]
        /\ file'[n].open = file[n].open /\ file'[n].entry = file[n].entry
        /\ file'[n].fptr = file[n].fptr /\ file'[n].objsize = file[n].fptr
        /\ file'[n].modified
        /\ file'[n].sclust = IF file[n].fptr = 0 THEN 0 ELSE file[n].sclust
        /\ \A m \in Names \ {n} : file'[m] = file[m]
    BY <1>1, <2>1, FileEndsFacts
  <2>3. ASSUME NEW t \in Entries PROVE OwnOf(t)' = OwnOf(t)
    <3>1. view'.dir[t] = view.dir[t]
      OBVIOUS
    <3>2. CASE view.dir[t].name = n
      BY <1>1, <1>4, <1>5, <2>2, <3>1, <3>2 DEF OwnOf, Emptying, At
    <3>3. CASE view.dir[t].name # n
      BY <1>1, <1>4, <2>2, <3>1, <3>3 DEF OwnOf, Emptying
    <3> QED
      BY <3>2, <3>3
  <2>4. Own' = Own
    BY <2>3 DEF Own
  <2>5. ViewInv'
    BY <1>1, <2>4 DEF ViewInv, Good, Directory
  <2>6. FileInv'
    <3>1. ASSUME NEW m \in Names \ {n}
          PROVE  file'[m] = file[m] /\ ~Emptying(m)
      BY <2>2 DEF Emptying
    <3> QED
      BY <1>1, <2>2, <3>1, NotPositive DEF FileInv, Good
  <2>7. CallInv'
    BY <2>1, CallsNone
  <2>8. TypeOK'
    BY <1>2, <1>3, <2>2 DEF TypeOK
  <2> QED
    BY <1>2, <2>5, <2>6, <2>7, <2>8 DEF Good
<1>6. CASE call.op # "truncate"
  <2>1. file' = file /\ \A m \in Names : ~Emptying(m)
    BY <1>6 DEF ChainGone, ChainStays, Emptying, Good, CallInv
  <2>2. ASSUME NEW t \in Entries PROVE OwnOf(t)' = OwnOf(t)
    BY <1>1, <1>4, <2>1 DEF OwnOf
  <2>3. Own' = Own
    BY <2>2 DEF Own
  <2>4. ViewInv'
    BY <1>1, <2>3 DEF ViewInv, Good, Directory
  <2>5. FileInv'
    BY <2>1 DEF FileInv, Good
  <2>6. CallInv'
    <3>1. CASE call' = NoCall
      BY <3>1, CallsNone
    <3>2. CASE call' # NoCall
      BY <1>1, <1>3, <2>1, <3>2 DEF CallInv, Good, At, Created, Has
    <3> QED
      BY <3>1, <3>2
  <2>7. TypeOK'
    BY <1>2, <1>3, <2>1 DEF TypeOK
  <2> QED
    BY <1>2, <2>4, <2>5, <2>6, <2>7 DEF Good
<1> QED
  BY <1>5, <1>6

\* The entry of a cluster in the FAT is written.
LEMMA SetFatFacts ==
  ASSUME TypeOK, NEW c \in Clusters, NEW x \in {0} \cup Clusters \cup {EOC},
         view' = SetFat(c, x)
  PROVE  /\ view' \in Volume /\ view'.dir = view.dir
         /\ view'.fat = [view.fat EXCEPT ![c] = x]
         /\ view.fat \in Fats /\ view'.fat \in Fats
  BY DEF SetFat, TypeOK, Volume, Fats

LEMMA RemoveClusterStep ==
  ASSUME TypeOK, Good, RemoveCluster
  PROVE  TypeOK' /\ Good'
<1> DEFINE c   == call.clst
           nxt == view.fat[c]
           S   == {FatSector[c]}
<1>1. At("remove") /\ emptied' = emptied /\ cut' = cut
  BY DEF RemoveCluster, quiet
<1>2. c \in Clusters /\ Unreferred(view.fat, Own, c) /\ InOrder(view.fat, Own)
  BY <1>1 DEF Good, CallInv, Loose, ViewInv
<1>3. Own \in Owns /\ view.fat \in Fats /\ view \in Volume
  BY OwnType DEF TypeOK, Volume, Fats
<1>4. CASE (DiskError(S) /\ ChainStays) \/ (Look(S, FatSector[c]) /\ ChainGone)
  <2>1. WindowMoved /\ view' = view
    BY <1>4, LookMoves DEF Good
  <2> QED
    BY <1>1, <1>2, <1>3, <1>4, <2>1, ChainEnds
<1>5. CASE Edit(S, FatSector[c], SetFat(c, 0)) /\ nxt \notin Clusters /\ ChainGone
  <2>1. WindowMoved /\ view' = SetFat(c, 0)
    BY <1>5, EditMoves DEF Good
  <2>2. view' \in Volume /\ view'.dir = view.dir /\ view'.fat = [view.fat EXCEPT ![c] = 0]
    BY <1>2, <2>1, SetFatFacts
  <2>3. InOrder(view'.fat, Own)
    BY <1>2, <1>3, <2>2, FreeCluster
  <2> QED
    BY <1>1, <1>5, <2>1, <2>2, <2>3, ChainEnds
<1>6. CASE /\ Edit(S, FatSector[c], SetFat(c, 0)) /\ nxt \in Clusters
           /\ Goes("remove", nxt, 0) /\ file' = file
  <2>1. WindowMoved /\ view' = SetFat(c, 0)
    BY <1>6, EditMoves DEF Good
  <2>2. view' \in Volume /\ view'.dir = view.dir /\ view'.fat = [view.fat EXCEPT ![c] = 0]
    BY <1>2, <2>1, SetFatFacts
  <2>3. InOrder(view'.fat, Own) /\ Unreferred(view'.fat, Own, nxt)
    BY <1>2, <1>3, <1>6, <2>2, FreeCluster
  <2>4. ~At("unname") /\ ~RenameSection
    BY <1>1 DEF At, RenameSection
  <2>5. DiskInv' /\ disk' \in Volume /\ wflag' \in BOOLEAN
    BY <1>1, <2>1, <2>4, DiskStays
  <2>6. /\ call' \in Call /\ call'.at = "remove" /\ call'.op = call.op
        /\ call'.name = call.name /\ call'.clst = nxt
    BY <1>6 DEF Goes, TypeOK, Call
  <2>7. ~At("unname")' /\ \A m \in Names : Emptying(m)' = Emptying(m)
    BY <1>1, <1>6, <2>6 DEF At, Emptying
  <2>8. ASSUME NEW t \in Entries PROVE OwnOf(t)' = OwnOf(t)
    BY <1>6, <2>2, <2>4, <2>7 DEF OwnOf
  <2>9. Own' = Own
    BY <2>8 DEF Own
  <2>10. ViewInv'
    BY <1>1, <2>2, <2>3, <2>4, <2>9 DEF ViewInv, Good, Directory
  <2>11. FileInv'
    BY <1>6, <2>2, <2>7 DEF FileInv, Good
  <2>12. CallInv'
    BY <1>1, <1>6, <2>2, <2>3, <2>6, <2>9 DEF CallInv, Good, At, Created, Has, Loose, Idle, NoCall
  <2>13. TypeOK'
    BY <1>1, <1>6, <2>2, <2>5, <2>6 DEF TypeOK
  <2> QED
    BY <2>5, <2>10, <2>11, <2>12, <2>13 DEF Good
<1> QED
  BY <1>4, <1>5, <1>6 DEF RemoveCluster

\* What PlacesMove asks of the file objects.
LEMMA AbortsFacts ==
  ASSUME TypeOK, FileInv, NEW n \in Names, Aborts(n)
  PROVE  /\ file' \in [Names -> File]
         /\ \A m \in Names :
           /\ file'[m].open = file[m].open /\ file'[m].sclust = file[m].sclust
           /\ file'[m].entry = file[m].entry
           /\ file'[m].fptr > 0 \/ file'[m].objsize > 0 => file'[m].sclust # 0
           /\ file'[m].modified = file[m].modified
<1> DEFINE f == [file[n] EXCEPT !.err = TRUE]
<1>1. file[n] \in File /\ file \in [Names -> File]
  BY DEF TypeOK
<1>2. file' = [file EXCEPT ![n] = f]
  BY <1>1 DEF Aborts
<1>3. /\ f \in File /\ f.open = file[n].open /\ f.entry = file[n].entry
      /\ f.fptr = file[n].fptr /\ f.objsize = file[n].objsize
      /\ f.modified = file[n].modified /\ f.sclust = file[n].sclust
  BY <1>1 DEF File
<1> HIDE DEF f
<1>4. ASSUME NEW m \in Names
      PROVE  /\ file'[m] \in File
             /\ file'[m].open = file[m].open /\ file'[m].entry = file[m].entry
             /\ file'[m].fptr = file[m].fptr /\ file'[m].objsize = file[m].objsize
             /\ file'[m].modified = file[m].modified /\ file'[m].sclust = file[m].sclust
  BY <1>1, <1>2, <1>3
<1> QED
  BY <1>1, <1>2, <1>3, <1>4 DEF FileInv

\* A call gives its file up.
LEMMA CallAborts ==
  ASSUME TypeOK, Good, WindowMoved, view' = view, NEW n \in Names, Aborts(n),
         call' = NoCall, emptied' = emptied, cut' = cut,
         ~RenameSection, \A m \in Names : ~Emptying(m)
  PROVE  TypeOK' /\ Good'
<1>1. CallInv' /\ call' \in Call /\ ~At("unname")'
  BY CallsNone DEF NoCall, At
<1>2. \A m \in Names : ~Emptying(m)'
  BY DEF Emptying, NoCall
<1>3. /\ file' \in [Names -> File]
      /\ \A m \in Names :
           /\ file'[m].open = file[m].open /\ file'[m].sclust = file[m].sclust
           /\ file'[m].entry = file[m].entry
           /\ file'[m].fptr > 0 \/ file'[m].objsize > 0 => file'[m].sclust # 0
           /\ file'[m].modified = file[m].modified
  BY AbortsFacts DEF Good
<1> QED
  BY <1>1, <1>2, <1>3, PlacesMove

LEMMA WriteHereStep ==
  ASSUME TypeOK, Good, NEW n \in Names, WriteHere(n)
  PROVE  TypeOK' /\ Good'
<1> DEFINE f == file[n]
           c == IF f.fptr = 0 THEN f.sclust ELSE view.fat[f.clust]
<1>1. /\ Idle /\ f.open /\ f.fptr < MaxSize /\ c \in Clusters /\ emptied' = emptied /\ cut' = cut
  BY DEF WriteHere, MayWrite, quiet
<1>2. ~RenameSection /\ ~At("unname") /\ \A m \in Names : ~Emptying(m)
  BY <1>1, IdleFacts
<1>3. WindowMoved /\ view' = view
  BY LookMoves DEF WriteHere, Good
<1>4. \/ Aborts(n) /\ call' = call
      \/ file' = file /\ call' = Calling("write", "data", n, c, 0)
  BY DEF WriteHere
<1>5. CASE Aborts(n) /\ call' = call
  BY <1>1, <1>2, <1>3, <1>5, CallAborts DEF Idle
<1>6. CASE file' = file /\ call' = Calling("write", "data", n, c, 0)
  <2>1. /\ call' \in Call /\ call'.op = "write" /\ call'.at = "data"
        /\ call'.name = n /\ call'.clst = c
    BY <1>1, <1>6 DEF Calling, Call
  <2>2. ~At("unname")' /\ \A m \in Names : ~Emptying(m)'
    BY <2>1 DEF At, Emptying
  <2>3. f.sclust # 0
    <3>1. CASE f.fptr = 0
      BY <1>1, <3>1, Numbers
    <3>2. CASE f.fptr # 0
      <4>1. f.fptr > 0
        BY <3>2 DEF TypeOK, File
      <4> QED
        BY <4>1 DEF Good, FileInv
    <3> QED
      BY <3>1, <3>2
  <2>4. CallInv'
    BY <1>1, <1>6, <2>1, <2>3 DEF CallInv, At
  <2>5. file' \in [Names -> File]
    BY <1>6 DEF TypeOK
  <2> QED
    BY <1>1, <1>2, <1>3, <1>6, <2>1, <2>2, <2>4, <2>5, PlacesMove DEF Good, FileInv
<1> QED
  BY <1>4, <1>5, <1>6

LEMMA WriteInsaneStep ==
  ASSUME TypeOK, Good, NEW n \in Names, WriteInsane(n)
  PROVE  TypeOK' /\ Good'
<1>1. Idle /\ emptied' = emptied /\ cut' = cut /\ call' = NoCall /\ Aborts(n)
  BY DEF WriteInsane, MayWrite, quiet, Idle
<1>2. ~RenameSection /\ \A m \in Names : ~Emptying(m)
  BY <1>1, IdleFacts
<1>3. WindowMoved /\ view' = view
  BY LookMoves DEF WriteInsane, Good
<1> QED
  BY <1>1, <1>2, <1>3, CallAborts

LEMMA WriteFullStep ==
  ASSUME TypeOK, Good, NEW n \in Names, WriteFull(n)
  PROVE  TypeOK' /\ Good'
<1>1. /\ Idle /\ emptied' = emptied /\ cut' = cut /\ call' = NoCall
      /\ file' = [file EXCEPT ![n].modified = TRUE]
  BY DEF WriteFull, MayGrow, MayWrite, quiet, Idle
<1>2. ~RenameSection /\ \A m \in Names : ~Emptying(m)
  BY <1>1, IdleFacts
<1>3. WindowMoved /\ view' = view
  <2>1. \/ \E S, s : Look(S, s)
        \/ UNCHANGED window
    BY DEF WriteFull
  <2> QED
    BY <2>1, LookMoves DEF Good
<1>4. CallInv' /\ call' \in Call /\ ~At("unname")'
  BY <1>1, CallsNone DEF NoCall, At
<1>5. \A m \in Names : ~Emptying(m)'
  BY <1>1 DEF Emptying, NoCall
<1>6. /\ file' \in [Names -> File]
      /\ file'[n].open = file[n].open /\ file'[n].sclust = file[n].sclust
      /\ file'[n].entry = file[n].entry /\ file'[n].fptr = file[n].fptr
      /\ file'[n].objsize = file[n].objsize /\ file'[n].modified
      /\ \A m \in Names \ {n} : file'[m] = file[m]
  BY <1>1 DEF TypeOK, File
<1>7. ASSUME NEW m \in Names
      PROVE  /\ file'[m].open = file[m].open /\ file'[m].sclust = file[m].sclust
             /\ file'[m].entry = file[m].entry /\ file'[m].fptr = file[m].fptr
             /\ file'[m].objsize = file[m].objsize
             /\ ~file'[m].modified => ~file[m].modified
  BY <1>6
<1>8. ASSUME NEW m \in Names
      PROVE  file'[m].fptr > 0 \/ file'[m].objsize > 0 => file'[m].sclust # 0
  BY <1>7 DEF Good, FileInv
<1> QED
  BY <1>1, <1>2, <1>3, <1>4, <1>5, <1>6, <1>7, <1>8, PlacesMove

\* The FAT is written on behalf of a file, and what the entries own stays.
LEMMA FatWritten ==
  ASSUME TypeOK, Good, WindowMoved, emptied' = emptied, cut' = cut, file' = file,
         ~RenameSection, ~At("unname")',
         \A m \in Names : ~Emptying(m) /\ ~Emptying(m)',
         view' \in Volume, view'.dir = view.dir, InOrder(view'.fat, Own),
         call' \in Call, Own' = Own => CallInv'
  PROVE  TypeOK' /\ Good'
<1>1. DiskInv' /\ disk' \in Volume /\ wflag' \in BOOLEAN
  BY DiskStays
<1>2. ~At("unname")
  BY DEF RenameSection, Good, CallInv, At
<1>3. Own' = Own
  BY <1>2, OwnStays
<1>4. ViewInv'
  BY <1>2, <1>3 DEF ViewInv, Good, Directory
<1>5. FileInv'
  BY DEF FileInv, Good
<1>6. TypeOK'
  BY <1>1 DEF TypeOK
<1> QED
  BY <1>1, <1>3, <1>4, <1>5, <1>6 DEF Good

LEMMA WriteNewStep ==
  ASSUME TypeOK, Good, NEW n \in Names, WriteNew(n)
  PROVE  TypeOK' /\ Good'
<1> DEFINE f == file[n]
<1>1. /\ Idle /\ f.open /\ f.fptr < MaxSize /\ emptied' = emptied /\ cut' = cut
      /\ IF f.fptr = 0 THEN f.sclust = 0
         ELSE f.clust \in Clusters /\ view.fat[f.clust] = EOC
  BY DEF WriteNew, MayGrow, MayWrite, quiet
<1>2. ~RenameSection /\ ~At("unname") /\ \A m \in Names : ~Emptying(m)
  BY <1>1, IdleFacts
<1>3. PICK S :
        \/ \E c \in Clusters :
             /\ view.fat[c] = 0
             /\ Edit(S, FatSector[c], SetFat(c, EOC))
             /\ IF f.fptr = 0 THEN Allocated(n, c)
                ELSE call' = Calling("write", "link", n, c, f.clust)
             /\ UNCHANGED file
        \/ DiskError(S) /\ Aborts(n) /\ UNCHANGED call
  BY DEF WriteNew
<1>4. CASE DiskError(S) /\ Aborts(n) /\ UNCHANGED call
  <2>1. WindowMoved /\ view' = view
    BY <1>4, LookMoves DEF Good
  <2> QED
    BY <1>1, <1>2, <1>4, <2>1, CallAborts DEF Idle
<1>5. ASSUME NEW c \in Clusters, view.fat[c] = 0,
             Edit(S, FatSector[c], SetFat(c, EOC)), file' = file,
             IF f.fptr = 0 THEN Allocated(n, c)
             ELSE call' = Calling("write", "link", n, c, f.clust)
      PROVE  TypeOK' /\ Good'
  <2>1. WindowMoved /\ view' = SetFat(c, EOC)
    BY <1>5, EditMoves DEF Good
  <2>2. /\ view' \in Volume /\ view'.dir = view.dir
        /\ view'.fat = [view.fat EXCEPT ![c] = EOC] /\ view.fat \in Fats
    BY <2>1, SetFatFacts
  <2>3. InOrder(view'.fat, Own) /\ Unreferred(view'.fat, Own, c)
    BY <1>5, <2>2, TakeCluster, OwnType DEF Good, ViewInv
  <2>4. view'.fat[c] # 0
    BY <2>2, Numbers DEF Fats
  <2>5. CASE f.fptr = 0
    <3>1. /\ call' \in Call /\ call'.op = "write" /\ call'.at = "data"
          /\ call'.name = n /\ call'.clst = c
      BY <1>5, <2>5 DEF Allocated, Calling, Call
    <3>2. ~At("unname")' /\ \A m \in Names : ~Emptying(m)'
      BY <3>1 DEF At, Emptying
    <3>3. Own' = Own => CallInv'
      BY <1>1, <1>5, <2>3, <2>4, <3>1 DEF CallInv, At, Loose
    <3> QED
      BY <1>1, <1>2, <1>5, <2>1, <2>2, <2>3, <3>1, <3>2, <3>3, FatWritten
  <2>6. CASE f.fptr # 0
    <3>1. /\ call' \in Call /\ call'.op = "write" /\ call'.at = "link"
          /\ call'.name = n /\ call'.clst = c /\ call'.ncl = f.clust
      BY <1>1, <1>5, <2>6 DEF Calling, Call
    <3>2. ~At("unname")' /\ \A m \in Names : ~Emptying(m)'
      BY <3>1 DEF At, Emptying
    <3>3. f.sclust # 0
      <4>1. f.fptr > 0
        BY <2>6 DEF TypeOK, File
      <4> QED
        BY <4>1 DEF Good, FileInv
    <3>4. f.clust \in Clusters /\ view'.fat[f.clust] = EOC
      BY <1>1, <2>2, <2>6 DEF Fats
    <3>5. Own' = Own => CallInv'
      BY <1>1, <1>5, <2>3, <2>4, <3>1, <3>3, <3>4 DEF CallInv, At, Loose
    <3> QED
      BY <1>1, <1>2, <1>5, <2>1, <2>2, <2>3, <3>1, <3>2, <3>5, FatWritten
  <2> QED
    BY <2>5, <2>6
<1> QED
  BY <1>3, <1>4, <1>5

LEMMA LinkNewStep ==
  ASSUME TypeOK, Good, LinkNew
  PROVE  TypeOK' /\ Good'
<1> DEFINE n == call.name
           S == {FatSector[call.ncl]}
<1>1. At("link") /\ emptied' = emptied /\ cut' = cut
  BY DEF LinkNew, quiet
<1>2. /\ n \in Names /\ file[n].open /\ file[n].sclust # 0 /\ file[n].fptr < MaxSize
      /\ call.op = "write" /\ call.ncl \in Clusters /\ view.fat[call.ncl] = EOC
      /\ call.clst \in Clusters /\ Unreferred(view.fat, Own, call.clst)
      /\ view.fat[call.clst] # 0
  BY <1>1 DEF Good, CallInv, Idle, NoCall, At, Loose
<1>3. ~RenameSection /\ ~At("unname") /\ \A m \in Names : ~Emptying(m)
  BY <1>1 DEF At, RenameSection, Emptying
<1>4. CASE DiskError(S) /\ Aborts(n) /\ Returns
  <2>1. WindowMoved /\ view' = view
    BY <1>4, LookMoves DEF Good
  <2> QED
    BY <1>1, <1>2, <1>3, <1>4, <2>1, CallAborts DEF Returns
<1>5. CASE /\ Edit(S, FatSector[call.ncl], SetFat(call.ncl, call.clst))
           /\ Allocated(n, call.clst) /\ file' = file
  <2>1. WindowMoved /\ view' = SetFat(call.ncl, call.clst)
    BY <1>5, EditMoves DEF Good
  <2>2. /\ view' \in Volume /\ view'.dir = view.dir
        /\ view'.fat = [view.fat EXCEPT ![call.ncl] = call.clst] /\ view.fat \in Fats
    BY <1>2, <2>1, SetFatFacts
  <2>3. InOrder(view'.fat, Own)
    BY <1>2, <2>2, LinkCluster, OwnType DEF Good, ViewInv
  <2>4. /\ call' \in Call /\ call'.op = "write" /\ call'.at = "data"
        /\ call'.name = n /\ call'.clst = call.clst
    BY <1>2, <1>5 DEF Allocated, Calling, Call
  <2>5. ~At("unname")' /\ \A m \in Names : ~Emptying(m)'
    BY <2>4 DEF At, Emptying
  <2>6. CallInv'
    BY <1>2, <1>5, <2>4 DEF CallInv, At
  <2> QED
    BY <1>1, <1>3, <1>5, <2>1, <2>2, <2>3, <2>4, <2>5, <2>6, FatWritten
<1> QED
  BY <1>4, <1>5 DEF LinkNew

LEMMA WriteDataStep ==
  ASSUME TypeOK, Good, WriteData
  PROVE  TypeOK' /\ Good'
<1>0. PICK n \in Names, c \in Clusters : n = call.name /\ c = call.clst
  BY DEF WriteData, Good, CallInv, Idle, NoCall, At
<1> DEFINE z == file[n].fptr + 1
           g == [file[n] EXCEPT !.clust = c, !.sclust = IF @ = 0 THEN c ELSE @]
<1>1. At("data") /\ emptied' = emptied /\ cut' = cut /\ call' = NoCall
      /\ view' = view /\ disk' = disk /\ wflag' = wflag
  BY DEF WriteData, quiet, Returns
<1>2. /\ n \in Names /\ file[n].open /\ c \in Clusters /\ file[n].fptr < MaxSize
      /\ file[n].sclust = 0 => Unreferred(view.fat, Own, c) /\ view.fat[c] # 0
  BY <1>0, <1>1 DEF Good, CallInv, Idle, NoCall, At, Loose
<1>3. ~RenameSection /\ ~At("unname") /\ \A m \in Names : ~Emptying(m)
  BY <1>1 DEF At, RenameSection, Emptying
<1>4. CallInv' /\ call' \in Call /\ ~At("unname")' /\ \A m \in Names : ~Emptying(m)'
  BY <1>1, CallsNone DEF NoCall, At, Emptying
<1>5. WindowMoved
  BY <1>1 DEF WindowMoved, Good, DiskInv, TypeOK
<1>6. DiskInv' /\ disk' \in Volume /\ wflag' \in BOOLEAN
  BY <1>1, <1>3, <1>5, DiskStays
<1>7. /\ file' \in [Names -> File]
      /\ file'[n].open = file[n].open /\ file'[n].entry = file[n].entry
      /\ file'[n].sclust = IF file[n].sclust = 0 THEN c ELSE file[n].sclust
      /\ ~file'[n].modified => ~file[n].modified
      /\ \A m \in Names \ {n} : file'[m] = file[m]
  <2>1. file[n] \in File /\ file \in [Names -> File]
    BY <1>2 DEF TypeOK
  <2>2. /\ g \in File /\ g.open = file[n].open /\ g.entry = file[n].entry
        /\ g.sclust = IF file[n].sclust = 0 THEN c ELSE file[n].sclust
        /\ g.modified = file[n].modified /\ g.objsize = file[n].objsize
        /\ g.fptr = file[n].fptr
    BY <1>2, <2>1 DEF File
  <2>3. z \in 0..MaxSize
    BY <1>2, <2>1, VolumeAssumption DEF File
  <2>4. \/ file' = [file EXCEPT ![n] =
                      [g EXCEPT !.fptr = z, !.modified = TRUE,
                                !.objsize = IF z > @ THEN z ELSE @]]
        \/ file' = [file EXCEPT ![n] = [g EXCEPT !.err = TRUE]]
    BY <1>0 DEF WriteData
  <2> HIDE DEF g, z
  <2>5. ASSUME NEW h, \/ h = [g EXCEPT !.fptr = z, !.modified = TRUE,
                                       !.objsize = IF z > @ THEN z ELSE @]
                      \/ h = [g EXCEPT !.err = TRUE]
        PROVE  /\ h \in File /\ h.open = g.open /\ h.entry = g.entry
               /\ h.sclust = g.sclust
               /\ ~h.modified => ~g.modified
    <3>1. CASE h = [g EXCEPT !.err = TRUE]
      BY <2>2, <3>1 DEF File
    <3>2. CASE h = [g EXCEPT !.fptr = z, !.modified = TRUE,
                             !.objsize = IF z > @ THEN z ELSE @]
      <4>1. (IF z > g.objsize THEN z ELSE g.objsize) \in 0..MaxSize
        BY <2>2, <2>3 DEF File
      <4> QED
        BY <2>2, <2>3, <3>2, <4>1 DEF File
    <3> QED
      BY <2>5, <3>1, <3>2
  <2>6. PICK h : /\ file' = [file EXCEPT ![n] = h]
                 /\ \/ h = [g EXCEPT !.fptr = z, !.modified = TRUE,
                                     !.objsize = IF z > @ THEN z ELSE @]
                    \/ h = [g EXCEPT !.err = TRUE]
    BY <2>4
  <2>7. /\ h \in File /\ h.open = g.open /\ h.entry = g.entry
        /\ h.sclust = g.sclust
        /\ ~h.modified => ~g.modified
    BY <2>5, <2>6
  <2>8. file'[n] = h /\ file' \in [Names -> File]
        /\ \A m \in Names \ {n} : file'[m] = file[m]
    BY <1>2, <2>1, <2>6, <2>7
  <2> QED
    BY <2>2, <2>7, <2>8
<1>8. PICK s \in Entries : s = file[n].entry /\ view.dir[s].name = n
  BY <1>2 DEF Good, FileInv
<1>9. \A t \in Entries \ {s} : view.dir[t].name # n
  BY <1>2, <1>8 DEF Good, ViewInv, Directory
<1>10. OwnOf(s) = file[n].sclust /\ OwnOf(s)' = file'[n].sclust
  <2>1. view'.dir[s].name = n /\ ~Emptying(n) /\ ~Emptying(n)'
    BY <1>1, <1>2, <1>3, <1>4, <1>8
  <2> QED
    BY <1>2, <1>3, <1>4, <1>7, <1>8, <2>1 DEF OwnOf
<1>11. ASSUME NEW t \in Entries \ {s} PROVE OwnOf(t)' = OwnOf(t)
  <2>1. view'.dir[t] = view.dir[t] /\ view.dir[t].name # n
    BY <1>1, <1>9
  <2> QED
    BY <1>3, <1>4, <1>7, <2>1 DEF OwnOf
<1>12. /\ Own[s] = file[n].sclust /\ Own'[s] = file'[n].sclust
       /\ \A t \in Entries \ {s} : Own'[t] = Own[t]
       /\ Own' = IF file[n].sclust = 0 THEN [Own EXCEPT ![s] = c] ELSE Own
  <2>1. /\ Own[s] = file[n].sclust /\ Own'[s] = file'[n].sclust
        /\ \A t \in Entries \ {s} : Own'[t] = Own[t]
    BY <1>8, <1>10, <1>11 DEF Own
  <2>2. DOMAIN Own = Entries /\ DOMAIN Own' = Entries
        /\ Own = [t \in Entries |-> Own[t]] /\ Own' = [t \in Entries |-> Own'[t]]
    BY DEF Own
  <2>3. file[n].sclust = 0 => Own' = [Own EXCEPT ![s] = c]
    BY <1>7, <1>8, <2>1, <2>2
  <2>4. file[n].sclust # 0 => Own' = Own
    BY <1>7, <1>8, <2>1, <2>2
  <2> QED
    BY <2>1, <2>3, <2>4
<1>13. InOrder(view.fat, Own')
  <2>1. view.fat \in Fats /\ InOrder(view.fat, Own)
    BY DEF TypeOK, Volume, Fats, Good, ViewInv
  <2> QED
    BY <1>2, <1>8, <1>12, <2>1, OwnType, OwnCluster
<1>14. ViewInv'
  <2>1. \A t \in Entries : view.dir[t].clust \in {0, Own[t]} => view.dir[t].clust \in {0, Own'[t]}
    BY <1>7, <1>8, <1>12
  <2> QED
    BY <1>1, <1>3, <1>13, <2>1 DEF ViewInv, Good
<1>15. FileInv'
  <2>1. c # 0
    BY <1>2, Numbers
  <2> QED
    BY <1>1, <1>3, <1>4, <1>7, <2>1 DEF FileInv, Good
<1>16. TypeOK'
  BY <1>1, <1>4, <1>7 DEF TypeOK
<1> QED
  BY <1>4, <1>6, <1>14, <1>15, <1>16 DEF Good

LEMMA SeekStep ==
  ASSUME TypeOK, Good, NEW n \in Names, NEW k \in 0..MaxSize, Seek(n, k)
  PROVE  TypeOK' /\ Good'
<1> DEFINE f == file[n]
<1>1. Idle /\ k <= f.objsize /\ emptied' = emptied /\ cut' = cut /\ call' = NoCall
  BY DEF Seek, quiet, Idle
<1>2. ~RenameSection /\ \A m \in Names : ~Emptying(m)
  BY <1>1, IdleFacts
<1>3. WindowMoved /\ view' = view
  <2>1. \/ \E S, s : Look(S, s) \/ DiskError(S)
        \/ UNCHANGED window
    BY DEF Seek
  <2> QED
    BY <2>1, LookMoves DEF Good
<1>4. CASE Aborts(n)
  BY <1>1, <1>2, <1>3, <1>4, CallAborts
<1>5. CASE ~Aborts(n)
  <2>1. f \in File /\ file \in [Names -> File]
    BY DEF TypeOK
  <2>2. PICK x \in {0} \cup Clusters \cup {EOC} :
          file' = [file EXCEPT ![n].fptr = k, ![n].clust = x]
    <3> DEFINE from == IF f.fptr > 0 /\ k >= f.fptr THEN f.fptr ELSE 1
               w == Chain(view.fat, IF from = 1 THEN f.sclust ELSE f.clust)
               y == IF k = 0 THEN f.clust ELSE w[k-from+1]
    <3>1. /\ \A j \in 1 .. k-from+1 : w[j] \in Clusters
          /\ file' = [file EXCEPT ![n].fptr = k,
                                  ![n].clust = IF k = 0 THEN @ ELSE w[k-from+1]]
      BY <1>5 DEF Seek
    <3>2. k # 0 => k-from+1 \in 1 .. k-from+1
      <4>1. k \in Nat /\ f.fptr \in Nat
        BY <2>1 DEF File
      <4> QED
        BY <4>1
    <3> HIDE DEF w, from
    <3>3. y \in {0} \cup Clusters \cup {EOC}
      BY <2>1, <3>1, <3>2 DEF File
    <3>4. file' = [file EXCEPT ![n].fptr = k, ![n].clust = y]
      BY <3>1
    <3> QED
      BY <3>3, <3>4
  <2>3. /\ file' \in [Names -> File]
        /\ file'[n].open = f.open /\ file'[n].sclust = f.sclust
        /\ file'[n].entry = f.entry /\ file'[n].fptr = k
        /\ file'[n].objsize = f.objsize /\ file'[n].modified = f.modified
        /\ \A m \in Names \ {n} : file'[m] = file[m]
    BY <2>1, <2>2 DEF File
  <2>4. k > 0 => f.objsize > 0
    <3>1. f.objsize \in Nat
      BY <2>1 DEF File
    <3> QED
      BY <1>1, <3>1
  <2>5. CallInv' /\ call' \in Call /\ ~At("unname")' /\ \A m \in Names : ~Emptying(m)'
    BY <1>1, CallsNone DEF NoCall, At, Emptying
  <2> QED
    BY <1>1, <1>2, <1>3, <2>3, <2>4, <2>5, PlacesMove DEF Good, FileInv
<1> QED
  BY <1>4, <1>5

\* f_truncate ends, or fails, without freeing anything.
LEMMA TruncateEnds ==
  ASSUME TypeOK, Good, Idle, WindowMoved, view' = view, call' = call,
         emptied' = emptied, cut' = cut,
         NEW n \in Names, NEW failed \in BOOLEAN, FileEnds(n, failed),
         file[n].fptr = 0 => file[n].sclust = 0
  PROVE  TypeOK' /\ Good'
<1>1. ~RenameSection /\ \A m \in Names : ~Emptying(m)
  BY IdleFacts
<1>2. call' = NoCall /\ CallInv' /\ call' \in Call /\ ~At("unname")'
      /\ \A m \in Names : ~Emptying(m)'
  BY CallsNone DEF Idle, NoCall, At, Emptying
<1>3. /\ file' \in [Names -> File]
      /\ file'[n].open = file[n].open /\ file'[n].entry = file[n].entry
      /\ file'[n].fptr = file[n].fptr /\ file'[n].objsize = file[n].fptr
      /\ file'[n].modified /\ file'[n].sclust = file[n].sclust
      /\ \A m \in Names \ {n} : file'[m] = file[m]
  BY FileEndsFacts
<1> QED
  BY <1>1, <1>2, <1>3, PlacesMove DEF Good, FileInv

LEMMA TruncateStep ==
  ASSUME TypeOK, Good, NEW n \in Names, Truncate(n)
  PROVE  TypeOK' /\ Good'
<1> DEFINE f == file[n]
           c == f.clust
           S == {FatSector[c]}
           nxt == view.fat[c]
           all == f.fptr = 0 /\ f.sclust # 0
<1>1. Idle /\ f.open /\ cut' = cut /\ emptied' = IF all THEN emptied \cup {n} ELSE emptied
  BY DEF Truncate
<1>2. ~RenameSection /\ ~At("unname") /\ \A m \in Names : ~Emptying(m)
  BY <1>1, IdleFacts
<1>3. CASE all
  <2>1. UNCHANGED <<window, file>> /\ call' = Calling("truncate", "remove", n, f.sclust, 0)
    BY <1>3 DEF Truncate
  <2>2. WindowMoved /\ view' = view
    BY <2>1, LookMoves DEF Good
  <2>3. emptied' = emptied \cup {n} /\ file' = file
    BY <1>1, <1>3, <2>1
  <2>4. DiskInv' /\ disk' \in Volume /\ wflag' \in BOOLEAN
    BY <1>2, <2>2, <2>3, DiskStays
  <2>5. PICK s \in Entries : s = f.entry /\ view.dir[s].name = n
    BY <1>1 DEF Good, FileInv
  <2>6. PICK b \in Clusters : b = f.sclust
    BY <1>3 DEF TypeOK, File
  <2>7. /\ call' \in Call /\ call'.op = "truncate" /\ call'.at = "remove"
        /\ call'.name = n /\ call'.clst = b
    BY <2>1, <2>6 DEF Calling, Call
  <2>8. ~At("unname")' /\ \A m \in Names : Emptying(m)' <=> m = n
    BY <1>3, <2>3, <2>7 DEF At, Emptying
  <2>9. \A t \in Entries \ {s} : view.dir[t].name # n
    BY <2>5 DEF Good, ViewInv, Directory
  <2>10. OwnOf(s) = b /\ OwnOf(s)' = 0
    BY <1>1, <1>2, <2>2, <2>3, <2>5, <2>6, <2>8 DEF OwnOf
  <2>11. ASSUME NEW t \in Entries \ {s} PROVE OwnOf(t)' = OwnOf(t)
    BY <1>2, <2>2, <2>3, <2>8, <2>9 DEF OwnOf
  <2>12. /\ Own \in Owns /\ Own' \in Owns /\ Own[s] = b /\ Own'[s] = 0
         /\ \A t \in Entries \ {s} : Own'[t] = Own[t]
    BY <2>10, <2>11, OwnType DEF Own, Owns
  <2>13. view.fat \in Fats /\ InOrder(view.fat, Own) /\ b # 0
    BY Numbers DEF TypeOK, Volume, Fats, Good, ViewInv
  <2>14. InOrder(view.fat, Own') /\ Unreferred(view.fat, Own', b)
    BY <2>12, <2>13, DropCluster
  <2>15. ViewInv'
    BY <1>2, <2>2, <2>3, <2>5, <2>8, <2>12, <2>14 DEF ViewInv, Good
  <2>16. FileInv'
    BY <1>2, <2>2, <2>3, <2>8 DEF FileInv, Good
  <2>17. CallInv'
    BY <1>1, <2>2, <2>3, <2>7, <2>14 DEF CallInv, At, Loose
  <2>18. TypeOK'
    BY <1>1, <2>2, <2>3, <2>4, <2>7 DEF TypeOK
  <2> QED
    BY <2>4, <2>15, <2>16, <2>17, <2>18 DEF Good
<1>4. CASE ~all
  <2>1. emptied' = emptied
    BY <1>1, <1>4
  <2>2. (f.fptr = 0 => f.sclust = 0) /\ (nxt = 0) \in BOOLEAN
    BY <1>4
  <2>3. CASE FileEnds(n, TRUE) /\ UNCHANGED <<window, call>>
    <3>1. WindowMoved /\ view' = view
      BY <2>3, LookMoves DEF Good
    <3> QED
      BY <1>1, <2>1, <2>2, <2>3, <3>1, TruncateEnds
  <2>4. CASE Look(S, FatSector[c]) /\ FileEnds(n, nxt = 0) /\ UNCHANGED call
    <3>1. WindowMoved /\ view' = view
      BY <2>4, LookMoves DEF Good
    <3> QED
      BY <1>1, <2>1, <2>2, <2>4, <3>1, TruncateEnds
  <2>5. CASE DiskError(S) /\ FileEnds(n, TRUE) /\ UNCHANGED call
    <3>1. WindowMoved /\ view' = view
      BY <2>5, LookMoves DEF Good
    <3> QED
      BY <1>1, <2>1, <2>2, <2>5, <3>1, TruncateEnds
  <2>6. CASE /\ nxt \in Clusters /\ c \in Clusters /\ f.fptr # 0
             /\ CutAfter(c, S)
             /\ call' = Calling("truncate", "remove", n, nxt, 0)
             /\ file' = file
    <3>1. WindowMoved /\ view' = SetFat(c, EOC)
      BY <2>6, EditMoves DEF Good, CutAfter
    <3>2. /\ view' \in Volume /\ view'.dir = view.dir
          /\ view'.fat = [view.fat EXCEPT ![c] = EOC] /\ view.fat \in Fats
      BY <2>6, <3>1, SetFatFacts
    <3>3. InOrder(view'.fat, Own) /\ Unreferred(view'.fat, Own, nxt)
      BY <2>6, <3>2, CutChain, OwnType DEF Good, ViewInv
    <3>4. /\ call' \in Call /\ call'.op = "truncate" /\ call'.at = "remove"
          /\ call'.name = n /\ call'.clst = nxt
      BY <2>6 DEF Calling, Call
    <3>5. ~At("unname")' /\ \A m \in Names : ~Emptying(m)'
      BY <2>6, <3>4 DEF At, Emptying
    <3>6. Own' = Own => CallInv'
      BY <1>1, <2>6, <3>3, <3>4 DEF CallInv, At, Loose
    <3> QED
      BY <1>1, <1>2, <2>1, <2>6, <3>1, <3>2, <3>3, <3>4, <3>5, <3>6, FatWritten
  <2> QED
    BY <1>4, <2>3, <2>4, <2>5, <2>6 DEF Truncate
<1> QED
  BY <1>3, <1>4

\* A file object is given back; its entry leads to its chain, or to nothing.
LEMMA FileClosed ==
  ASSUME TypeOK, Good, WindowMoved, view' = view, emptied' = emptied, cut' = cut,
         ~RenameSection, \A m \in Names : ~Emptying(m), call' = NoCall,
         NEW n \in Names, file[n].open,
         view.dir[file[n].entry].clust \in {0, file[n].sclust},
         file' = [file EXCEPT ![n] = Closed]
  PROVE  TypeOK' /\ Good'
<1>1. DiskInv' /\ disk' \in Volume /\ wflag' \in BOOLEAN
  BY DiskStays
<1>2. CallInv' /\ call' \in Call /\ ~At("unname")' /\ ~At("unname")
      /\ \A m \in Names : ~Emptying(m)'
  BY CallsNone DEF NoCall, At, Emptying, RenameSection, Good, CallInv
<1>3. Closed \in File /\ ~Closed.open /\ Closed.fptr = 0 /\ Closed.objsize = 0
  BY VolumeAssumption DEF Closed, File
<1>4. /\ file' \in [Names -> File]
      /\ ~file'[n].open /\ file'[n].fptr = 0 /\ file'[n].objsize = 0
      /\ \A m \in Names \ {n} : file'[m] = file[m]
  BY <1>3 DEF TypeOK
<1>5. PICK s \in Entries : s = file[n].entry /\ view.dir[s].name = n
  BY DEF Good, FileInv
<1>6. \A t \in Entries \ {s} : view.dir[t].name # n
  BY <1>5 DEF Good, ViewInv, Directory
<1>7. OwnOf(s) = file[n].sclust /\ OwnOf(s)' = view.dir[s].clust
  BY <1>2, <1>4, <1>5 DEF OwnOf
<1>8. ASSUME NEW t \in Entries \ {s} PROVE OwnOf(t)' = OwnOf(t)
  <2>1. view'.dir[t] = view.dir[t] /\ view.dir[t].name # n
    BY <1>6
  <2> QED
    BY <1>2, <1>4, <2>1 DEF OwnOf
<1>9. /\ \A t \in Entries : Own'[t] \in {0, Own[t]}
      /\ \A t \in Entries \ {s} : Own'[t] = Own[t]
      /\ Own'[s] = view.dir[s].clust
  BY <1>5, <1>7, <1>8 DEF Own
<1>10. InOrder(view.fat, Own')
  <2>1. InOrder(view.fat, Own)
    BY DEF Good, ViewInv
  <2> QED
    BY <1>9, <2>1, Weaken
<1>11. ViewInv'
  BY <1>2, <1>5, <1>9, <1>10 DEF ViewInv, Good
<1>12. FileInv'
  BY <1>2, <1>4, NotPositive DEF FileInv, Good
<1>13. TypeOK'
  BY <1>1, <1>2, <1>4 DEF TypeOK
<1> QED
  BY <1>1, <1>2, <1>11, <1>12, <1>13 DEF Good

LEMMA CallSyncStep ==
  ASSUME TypeOK, Good, NEW n \in Names, NEW op \in {"sync", "close"}, CallSync(n, op)
  PROVE  TypeOK' /\ Good'
<1> DEFINE f == file[n]
           S == {DirSector[f.entry]}
<1>1. Idle /\ f.open /\ emptied' = emptied /\ cut' = cut
  BY DEF CallSync, quiet
<1>2. ~RenameSection /\ ~At("unname") /\ \A m \in Names : ~Emptying(m)
  BY <1>1, IdleFacts
<1>3. PICK s \in Entries : s = f.entry /\ view.dir[s].name = n
  BY <1>1 DEF Good, FileInv
<1>4. CASE DiskError(S) /\ UNCHANGED <<file, call>>
  <2>1. WindowMoved /\ view' = view
    BY <1>4, LookMoves DEF Good
  <2> QED
    BY <1>1, <1>2, <1>4, <2>1, NothingDone DEF Idle
<1>5. CASE /\ ~f.modified /\ file' = [file EXCEPT ![n] = Closed]
           /\ UNCHANGED <<window, call>>
  <2>1. WindowMoved /\ view' = view
    BY <1>5, LookMoves DEF Good
  <2>2. view.dir[f.entry].clust \in {0, f.sclust}
    BY <1>1, <1>2, <1>5 DEF Good, FileInv
  <2> QED
    BY <1>1, <1>2, <1>5, <2>1, <2>2, FileClosed DEF Idle
<1>6. CASE /\ Edit(S, DirSector[f.entry], SetDir(f.entry, Entry(n, f.sclust, f.objsize)))
           /\ call' = Calling(op, "sync", n, 0, 0) /\ file' = file
  <2>1. WindowMoved /\ view' = SetDir(s, Entry(n, f.sclust, f.objsize))
    BY <1>3, <1>6, EditMoves DEF Good
  <2>2. f.sclust \in {0} \cup Clusters /\ f.objsize \in 0..MaxSize
    BY DEF TypeOK, File
  <2>3. /\ view' \in Volume /\ view'.fat = view.fat
        /\ view'.dir[s].name = n /\ view'.dir[s].clust = f.sclust
        /\ view'.dir[s].size = f.objsize
        /\ \A t \in Entries \ {s} : view'.dir[t] = view.dir[t]
    <3>1. PICK c \in {0} \cup Clusters, z \in 0..MaxSize : c = f.sclust /\ z = f.objsize
      BY <2>2
    <3>2. view' = SetDir(s, Entry(n, c, z)) /\ n \in Names \cup {Blank, Deleted}
      BY <2>1, <3>1
    <3> HIDE DEF f
    <3> QED
      BY <3>1, <3>2, SetDirFacts
  <2>4. DiskInv' /\ disk' \in Volume /\ wflag' \in BOOLEAN
    BY <1>1, <1>2, <2>1, DiskStays
  <2>5. /\ call' \in Call /\ call'.op = op /\ call'.at = "sync" /\ call'.name = n
    BY <1>6 DEF Calling, Call
  <2>6. ~At("unname")' /\ \A m \in Names : ~Emptying(m)'
    BY <2>5 DEF At, Emptying
  <2>7. ASSUME NEW t \in Entries PROVE OwnOf(t)' = OwnOf(t)
    <3>1. CASE t = s
      BY <1>1, <1>2, <1>3, <1>6, <2>3, <2>6, <3>1 DEF OwnOf
    <3>2. CASE t # s
      <4>1. view'.dir[t] = view.dir[t]
        BY <2>3, <3>2
      <4> QED
        BY <1>2, <1>6, <2>6, <4>1 DEF OwnOf
    <3> QED
      BY <3>1, <3>2
  <2>8. Own' = Own
    BY <2>7 DEF Own
  <2>9. Own[s] = f.sclust
    BY <1>1, <1>2, <1>3 DEF Own, OwnOf
  <2>10. Directory(view')
    <3>1. f.objsize > 0 => f.sclust # 0
      BY DEF Good, FileInv
    <3> QED
      BY <1>3, <2>3, <3>1 DEF Directory, Good, ViewInv
  <2>11. ViewInv'
    BY <1>1, <1>2, <2>3, <2>6, <2>8, <2>9, <2>10 DEF ViewInv, Good
  <2>12. FileInv'
    <3>1. ASSUME NEW m \in Names, file[m].open
          PROVE  /\ file[m].entry \in Entries /\ view'.dir[file[m].entry].name = m
                 /\ \/ m = n /\ view'.dir[file[m].entry].clust = file[m].sclust
                    \/ view'.dir[file[m].entry] = view.dir[file[m].entry]
      <4>1. file[m].entry \in Entries /\ view.dir[file[m].entry].name = m
        BY <3>1 DEF Good, FileInv
      <4> QED
        BY <1>3, <2>3, <4>1
    <3> QED
      BY <1>2, <1>6, <2>6, <3>1 DEF FileInv, Good
  <2>13. CallInv'
    BY <1>1, <1>3, <1>6, <2>3, <2>5 DEF CallInv, At
  <2>14. TypeOK'
    BY <1>1, <1>6, <2>3, <2>4, <2>5 DEF TypeOK
  <2> QED
    BY <2>4, <2>11, <2>12, <2>13, <2>14 DEF Good
<1> QED
  BY <1>4, <1>5, <1>6 DEF CallSync

\* sync_fs fails, and f_sync and f_close take the file for written all the same.
LEMMA SyncFailsStep ==
  ASSUME TypeOK, Good, WindowMoved, view' = view, emptied' = emptied, cut' = cut,
         ~RenameSection, At("sync") \/ At("info"),
         \/ SyncFails
         \/ SyncSucceeds /\ call.op # "close"
  PROVE  TypeOK' /\ Good'
<1>1. PICK n \in Names : n = call.name
  BY DEF Good, CallInv, Idle, NoCall, At
<1>2. call' = NoCall
  BY DEF SyncFails, SyncSucceeds, Returns
<1>3. CallInv' /\ call' \in Call /\ ~At("unname")' /\ \A m \in Names : ~Emptying(m)'
  BY <1>2, CallsNone DEF NoCall, At, Emptying
<1>4. \A m \in Names : ~Emptying(m)
  BY DEF At, Emptying
<1>5. CASE file' = file
  BY <1>2, <1>4, <1>5, NothingDone
<1>6. CASE call.op \in {"sync", "close"} /\ file' = [file EXCEPT ![n].modified = FALSE]
  <2>1. /\ file[n].open
        /\ view.dir[file[n].entry].clust = file[n].sclust
    BY <1>1, <1>6 DEF Good, CallInv
  <2>2. /\ file' \in [Names -> File]
        /\ file'[n].open = file[n].open /\ file'[n].sclust = file[n].sclust
        /\ file'[n].entry = file[n].entry /\ file'[n].fptr = file[n].fptr
        /\ file'[n].objsize = file[n].objsize
        /\ \A m \in Names \ {n} : file'[m] = file[m]
    BY <1>6 DEF TypeOK, File
  <2>3. ASSUME NEW m \in Names
        PROVE  /\ file'[m].open = file[m].open /\ file'[m].sclust = file[m].sclust
               /\ file'[m].entry = file[m].entry
               /\ file'[m].fptr > 0 \/ file'[m].objsize > 0 => file'[m].sclust # 0
               /\ file[m].open /\ ~file'[m].modified =>
                    \/ ~file[m].modified
                    \/ view.dir[file[m].entry].clust \in {0, file[m].sclust}
    <3>1. CASE m = n
      BY <2>1, <2>2, <3>1 DEF Good, FileInv
    <3>2. CASE m # n
      BY <2>2, <3>2 DEF Good, FileInv
    <3> QED
      BY <3>1, <3>2
  <2> QED
    BY <1>3, <1>4, <2>2, <2>3, PlacesMove
<1>7. \/ file' = file
      \/ call.op \in {"sync", "close"} /\ file' = [file EXCEPT ![n].modified = FALSE]
  BY <1>1 DEF SyncFails, SyncSucceeds
<1> QED
  BY <1>5, <1>6, <1>7

LEMMA SyncInfoStep ==
  ASSUME TypeOK, Good, SyncInfo
  PROVE  TypeOK' /\ Good'
<1>1. /\ At("info") /\ view' = view /\ disk' = disk /\ wflag' = wflag
      /\ emptied' = emptied /\ cut' = cut
  BY DEF SyncInfo
<1>2. ~RenameSection /\ \A m \in Names : ~Emptying(m)
  BY <1>1 DEF At, RenameSection, Emptying
<1>3. WindowMoved
  BY <1>1 DEF WindowMoved, Good, DiskInv, TypeOK
<1>4. CASE SyncFails \/ (SyncSucceeds /\ call.op # "close")
  BY <1>1, <1>2, <1>3, <1>4, SyncFailsStep
<1>5. CASE SyncSucceeds /\ call.op = "close"
  <2>1. PICK n \in Names : n = call.name
    BY <1>1 DEF Good, CallInv, Idle, NoCall, At
  <2>2. call' = NoCall /\ file' = [file EXCEPT ![n] = Closed]
    BY <1>5, <2>1 DEF SyncSucceeds, Returns
  <2>3. file[n].open /\ view.dir[file[n].entry].clust = file[n].sclust
    BY <1>1, <1>5, <2>1 DEF Good, CallInv
  <2> QED
    BY <1>1, <1>2, <1>3, <2>2, <2>3, FileClosed
<1> QED
  BY <1>4, <1>5 DEF SyncInfo

LEMMA SyncWindowStep ==
  ASSUME TypeOK, Good, ~cut, SyncWindow
  PROVE  TypeOK' /\ (cut' \/ Good')
<1>1. At("sync") /\ ~At("unname") /\ \A m \in Names : ~Emptying(m)
  BY DEF SyncWindow, At, Emptying
<1>2. PICK n \in Names : n = call.name
  BY <1>1 DEF Good, CallInv, Idle, NoCall, At
<1>3. CASE /\ wflag /\ SyncFails /\ cut' = (cut \/ call.op = "rename")
           /\ UNCHANGED <<disk, view, winsect, wflag, emptied>>
  <2>1. CASE call.op = "rename"
    <3>1. cut' = TRUE
      BY <1>3, <2>1
    <3>2. call' = NoCall /\ file' = file
      BY <1>3, <2>1 DEF SyncFails, Returns
    <3>3. call' \in Call
      BY <3>2, CallsNone
    <3>4. TypeOK'
      BY <1>3, <3>1, <3>2, <3>3 DEF TypeOK
    <3> QED
      BY <3>1, <3>4
  <2>2. CASE call.op # "rename"
    <3>1. ~RenameSection /\ cut' = cut
      BY <1>3, <2>2 DEF RenameSection, TypeOK
    <3>2. WindowMoved
      BY <1>3 DEF WindowMoved, Good, DiskInv, TypeOK
    <3> QED
      BY <1>1, <1>3, <3>1, <3>2, SyncFailsStep
  <2> QED
    BY <2>1, <2>2
<1>4. CASE /\ WriteWindow /\ emptied' = emptied \ {n}
           /\ UNCHANGED <<view, winsect, faults, file, saved, cut>>
  <2>1. /\ disk' = view /\ wflag' = FALSE /\ view' = view /\ file' = file /\ cut' = cut
        /\ emptied' = emptied \ {n}
    BY <1>4 DEF WriteWindow, WrittenBack, Good, DiskInv
  <2>2. /\ call' \in Call /\ call'.op = call.op /\ call'.at = "info" /\ call'.name = n
    BY <1>2, <1>4 DEF WriteWindow, Goes, TypeOK, Call
  <2>3. ~At("unname")' /\ \A m \in Names : ~Emptying(m)'
    BY <2>2 DEF At, Emptying
  <2>4. Own' = Own
    BY <1>1, <2>1, <2>3, OwnStays
  <2>5. ASSUME NEW t \in Entries, view.dir[t].name = n
        PROVE  view.dir[t].clust = Own[t]
    <3>1. /\ file[n].open
          /\ view.dir[file[n].entry].clust = file[n].sclust
      BY <1>1, <1>2, <2>5 DEF Good, CallInv, Has
    <3>2. t = file[n].entry
      BY <2>5, <3>1 DEF Good, FileInv, ViewInv, Directory
    <3>3. OwnOf(t) = file[n].sclust
      BY <1>1, <2>5, <3>1 DEF OwnOf
    <3> QED
      BY <3>1, <3>2, <3>3 DEF Own
  <2>6. ViewInv'
    BY <1>1, <2>1, <2>3, <2>4, <2>5 DEF ViewInv, Good
  <2>7. TypeOK'
    BY <2>1, <2>2 DEF TypeOK
  <2>8. Sound(view, emptied \ {n})
    <3> DEFINE own == [t \in Entries |-> IF view.dir[t].name \in emptied \ {n} THEN 0
                                         ELSE view.dir[t].clust]
    <3>1. \A t \in Entries : own[t] \in {0, Own[t]}
      BY <1>1, <2>5 DEF Good, ViewInv
    <3>2. InOrder(view.fat, Own)
      BY DEF Good, ViewInv
    <3>3. InOrder(view.fat, own)
      BY <3>1, <3>2, Weaken
    <3> QED
      BY <3>3 DEF Sound
  <2>9. DiskInv'
    <3>1. Directory(disk') /\ Sound(disk', emptied')
      BY <2>1, <2>8 DEF Good, ViewInv
    <3> QED
      BY <2>1, <3>1 DEF DiskInv
  <2>10. FileInv'
    BY <1>1, <2>1, <2>3 DEF FileInv, Good
  <2>11. CallInv'
    <3>1. \/ /\ call.op \in {"sync", "close"} /\ file[n].open
             /\ view.dir[file[n].entry].clust = file[n].sclust
          \/ call.op \in {"unlink", "rename"} /\ ~Has(n)
      BY <1>1, <1>2 DEF Good, CallInv
    <3> QED
      BY <2>1, <2>2, <3>1 DEF CallInv, At, Has
  <2> QED
    BY <2>6, <2>7, <2>9, <2>10, <2>11 DEF Good
<1> QED
  BY <1>2, <1>3, <1>4 DEF SyncWindow

LEMMA UnlinkStep ==
  ASSUME TypeOK, Good, NEW n \in Names, Unlink(n)
  PROVE  TypeOK' /\ Good'
<1>1. Idle /\ Has(n) /\ ~file[n].open /\ emptied' = emptied /\ cut' = cut /\ file' = file
  BY DEF Unlink
<1>2. ~RenameSection /\ ~At("unname") /\ \A m \in Names : ~Emptying(m)
  BY <1>1, IdleFacts
<1>3. PICK s \in Entries : s = Slot(n) /\ view.dir[s].name = n
  BY <1>1, SlotFacts
<1>4. PICK c \in {0} \cup Clusters : c = view.dir[s].clust
  BY DirType
<1>5. CASE DiskError(UpTo(s)) /\ UNCHANGED call
  <2>1. WindowMoved /\ view' = view
    BY <1>5, LookMoves DEF Good
  <2> QED
    BY <1>1, <1>2, <1>5, <2>1, NothingDone DEF Idle
<1>6. CASE /\ Edit(UpTo(s), DirSector[s], SetDir(s, Entry(Deleted, 0, 0)))
           /\ call' = Calling("unlink", IF c = 0 THEN "sync" ELSE "remove", n, c, 0)
  <2>1. WindowMoved /\ view' = SetDir(s, Entry(Deleted, 0, 0))
    BY <1>6, EditMoves DEF Good
  <2>2. /\ view' \in Volume /\ view'.fat = view.fat
        /\ view'.dir[s].name = Deleted /\ view'.dir[s].clust = 0 /\ view'.dir[s].size = 0
        /\ \A t \in Entries \ {s} : view'.dir[t] = view.dir[t]
    BY <2>1, SetDirFacts, VolumeAssumption
  <2>3. DiskInv' /\ disk' \in Volume /\ wflag' \in BOOLEAN
    BY <1>1, <1>2, <2>1, DiskStays
  <2>4. /\ call' \in Call /\ call'.op = "unlink" /\ call'.name = n /\ call'.clst = c
        /\ call'.at = IF c = 0 THEN "sync" ELSE "remove"
    BY <1>6 DEF Calling, Call
  <2>5. ~At("unname")' /\ \A m \in Names : ~Emptying(m)'
    BY <2>4 DEF At, Emptying
  <2>6. Deleted \notin Names
    BY VolumeAssumption
  <2>7. \A t \in Entries \ {s} : view.dir[t].name # n
    BY <1>3 DEF Good, ViewInv, Directory
  <2>8. OwnOf(s) = c /\ OwnOf(s)' = 0
    BY <1>1, <1>2, <1>3, <1>4, <2>2, <2>5, <2>6 DEF OwnOf
  <2>9. ASSUME NEW t \in Entries \ {s} PROVE OwnOf(t)' = OwnOf(t)
    <3>1. view'.dir[t] = view.dir[t]
      BY <2>2
    <3> QED
      BY <1>1, <1>2, <2>5, <3>1 DEF OwnOf
  <2>10. /\ Own \in Owns /\ Own' \in Owns /\ Own[s] = c /\ Own'[s] = 0
         /\ \A t \in Entries \ {s} : Own'[t] = Own[t]
    BY <2>8, <2>9, OwnType DEF Own, Owns
  <2>11. view.fat \in Fats /\ InOrder(view.fat, Own)
    BY DEF TypeOK, Volume, Fats, Good, ViewInv
  <2>12. InOrder(view.fat, Own')
    <3>1. \A t \in Entries : Own'[t] \in {0, Own[t]}
      BY <2>10
    <3> QED
      BY <2>11, <3>1, Weaken
  <2>13. c # 0 => Unreferred(view.fat, Own', c)
    BY <2>10, <2>11, DropCluster
  <2>14. Directory(view')
    BY <2>2, <2>6 DEF Directory, Good, ViewInv
  <2>15. ViewInv'
    BY <1>1, <1>2, <2>2, <2>5, <2>10, <2>12, <2>14 DEF ViewInv, Good
  <2>16. FileInv'
    <3>1. ASSUME NEW m \in Names, file[m].open
          PROVE  file[m].entry \in Entries \ {s} /\ view.dir[file[m].entry].name = m
      BY <1>1, <1>3, <3>1 DEF Good, FileInv
    <3> QED
      BY <1>1, <1>2, <2>2, <3>1 DEF FileInv, Good
  <2>17. CallInv'
    <3>1. ~Has(n)'
      BY <2>2, <2>6, <2>7 DEF Has
    <3> QED
      BY <2>2, <2>4, <2>13, <3>1 DEF CallInv, At, Loose
  <2>18. TypeOK'
    BY <1>1, <2>2, <2>3, <2>4 DEF TypeOK
  <2> QED
    BY <2>3, <2>15, <2>16, <2>17, <2>18 DEF Good
<1> QED
  BY <1>3, <1>4, <1>5, <1>6 DEF Unlink

LEMMA RenameStep ==
  ASSUME TypeOK, Good, NEW o \in Names, NEW n \in Names, Rename(o, n)
  PROVE  TypeOK' /\ Good'
<1>1. /\ Idle /\ Has(o) /\ ~Has(n) /\ ~file[o].open
      /\ emptied' = emptied /\ cut' = cut /\ file' = file
  BY DEF Rename
<1>2. ~RenameSection /\ ~At("unname") /\ \A m \in Names : ~Emptying(m)
  BY <1>1, IdleFacts
<1>3. PICK s \in Entries : s = Slot(o) /\ view.dir[s].name = o
  BY <1>1, SlotFacts
<1>4. PICK c \in {0} \cup Clusters, z \in 0..MaxSize :
        c = view.dir[s].clust /\ z = view.dir[s].size
  BY DirType
<1>51. PICK t \in Entries : \E S :
         /\ FirstFree(t)
         /\ \/ /\ Edit(S, DirSector[t], SetDir(t, Entry(n, c, z)))
               /\ call' = Calling("rename", "unname", o, 0, s)
            \/ DiskError(S) /\ UNCHANGED call
  BY <1>3, <1>4 DEF Rename
<1>5. PICK S :
        /\ FirstFree(t)
        /\ \/ /\ Edit(S, DirSector[t], SetDir(t, Entry(n, c, z)))
              /\ call' = Calling("rename", "unname", o, 0, s)
           \/ DiskError(S) /\ UNCHANGED call
  BY <1>51
<1>6. CASE DiskError(S) /\ UNCHANGED call
  <2>1. WindowMoved /\ view' = view
    BY <1>6, LookMoves DEF Good
  <2> QED
    BY <1>1, <1>2, <1>6, <2>1, NothingDone DEF Idle
<1>7. CASE /\ Edit(S, DirSector[t], SetDir(t, Entry(n, c, z)))
           /\ call' = Calling("rename", "unname", o, 0, s)
  <2>1. WindowMoved /\ view' = SetDir(t, Entry(n, c, z))
    BY <1>7, EditMoves DEF Good
  <2>2. /\ view' \in Volume /\ view'.fat = view.fat
        /\ view'.dir[t].name = n /\ view'.dir[t].clust = c /\ view'.dir[t].size = z
        /\ \A u \in Entries \ {t} : view'.dir[u] = view.dir[u]
    <3>1. n \in Names \cup {Blank, Deleted}
      OBVIOUS
    <3> QED
      BY <2>1, <3>1, SetDirFacts
  <2>3. view.dir[t].name \notin Names /\ s # t
    BY <1>3, <1>5, FreeNames DEF FirstFree
  <2>4. DiskInv' /\ disk' \in Volume /\ wflag' \in BOOLEAN
    BY <1>1, <1>2, <2>1, DiskStays
  <2>5. /\ call' \in Call /\ call'.op = "rename" /\ call'.at = "unname"
        /\ call'.name = o /\ call'.ncl = s
    BY <1>7 DEF Calling, Call
  <2>6. At("unname")' /\ \A m \in Names : ~Emptying(m)'
    BY <2>5 DEF At, Emptying
  <2>7. ~file[n].open /\ \A u \in Entries : view.dir[u].name # n
    BY <1>1 DEF Good, FileInv, Has
  <2>8. OwnOf(s) = c /\ OwnOf(s)' = 0 /\ OwnOf(t)' = c
    BY <1>1, <1>2, <1>3, <1>4, <2>2, <2>3, <2>5, <2>6, <2>7 DEF OwnOf
  <2>9. ASSUME NEW u \in Entries \ {s, t} PROVE OwnOf(u)' = OwnOf(u)
    <3>1. view'.dir[u] = view.dir[u]
      BY <2>2
    <3> QED
      BY <1>1, <1>2, <2>5, <2>6, <3>1 DEF OwnOf
  <2>10. /\ Own \in Owns /\ Own' \in Owns /\ Own[s] = c /\ Own'[s] = 0 /\ Own'[t] = c
         /\ \A u \in Entries \ {s, t} : Own'[u] = Own[u]
    BY <2>8, <2>9, OwnType DEF Own, Owns
  <2>11. InOrder(view.fat, Own')
    <3>1. view.fat \in Fats /\ InOrder(view.fat, Own)
      BY DEF TypeOK, Volume, Fats, Good, ViewInv
    <3> QED
      BY <2>3, <2>10, <3>1, MoveCluster
  <2>12. Directory(view')
    BY <1>3, <1>4, <2>2, <2>7 DEF Directory, Good, ViewInv
  <2>13. ViewInv'
    BY <1>1, <1>2, <2>2, <2>5, <2>6, <2>10, <2>11, <2>12 DEF ViewInv, Good
  <2>14. FileInv'
    <3>1. ASSUME NEW m \in Names, file[m].open
          PROVE  file[m].entry \in Entries \ {t} /\ view.dir[file[m].entry].name = m
      BY <2>3, <3>1 DEF Good, FileInv
    <3> QED
      BY <1>1, <1>2, <2>2, <3>1 DEF FileInv, Good
  <2>15. CallInv'
    BY <1>1, <1>3, <2>2, <2>3, <2>5 DEF CallInv, At
  <2>16. TypeOK'
    BY <1>1, <2>2, <2>4, <2>5 DEF TypeOK
  <2> QED
    BY <2>4, <2>13, <2>14, <2>15, <2>16 DEF Good
<1> QED
  BY <1>5, <1>6, <1>7

LEMMA UnnameStep ==
  ASSUME TypeOK, Good, Unname
  PROVE  TypeOK' /\ (cut' \/ Good')
<1>1. At("unname") /\ emptied' = emptied /\ file' = file
  BY DEF Unname
<1>2. PICK s \in Entries, o \in Names :
        /\ s = call.ncl /\ o = call.name /\ view.dir[s].name = o
        /\ call.op = "rename" /\ ~file[o].open
  BY <1>1 DEF Good, CallInv, Idle, NoCall, At
<1>3. CASE DiskError({DirSector[s]}) /\ Returns /\ cut' = TRUE
  <2>1. WindowMoved /\ view' = view
    BY <1>3, LookMoves DEF Good
  <2>2. call' \in Call
    BY <1>3, CallsNone DEF Returns
  <2>3. TypeOK'
    BY <1>1, <1>3, <2>1, <2>2 DEF TypeOK, WindowMoved
  <2> QED
    BY <1>3, <2>3
<1>4. CASE /\ Edit({DirSector[s]}, DirSector[s], SetDir(s, Entry(Deleted, 0, 0)))
           /\ Goes("sync", 0, 0) /\ cut' = cut
  <2>1. WindowMoved /\ view' = SetDir(s, Entry(Deleted, 0, 0))
    BY <1>4, EditMoves DEF Good
  <2>2. /\ view' \in Volume /\ view'.fat = view.fat
        /\ view'.dir[s].name = Deleted /\ view'.dir[s].clust = 0 /\ view'.dir[s].size = 0
        /\ \A t \in Entries \ {s} : view'.dir[t] = view.dir[t]
    BY <2>1, SetDirFacts, VolumeAssumption
  <2>3. /\ call' \in Call /\ call'.op = "rename" /\ call'.at = "sync" /\ call'.name = o
    BY <1>2, <1>4 DEF Goes, TypeOK, Call
  <2>4. ~At("unname")' /\ RenameSection' /\ \A m \in Names : ~Emptying(m)' /\ ~Emptying(m)
    BY <1>1, <2>3 DEF At, Emptying, RenameSection
  <2>5. Deleted \notin Names
    BY VolumeAssumption
  <2>6. DiskInv'
    <3>1. Directory(disk')
      BY <2>1 DEF WindowMoved, Good, DiskInv, ViewInv
    <3> QED
      BY <2>1, <2>4, <3>1 DEF DiskInv, WindowMoved
  <2>7. \A t \in Entries \ {s} : view.dir[t].name # o
    BY <1>2 DEF Good, ViewInv, Directory
  <2>8. OwnOf(s) = 0 /\ OwnOf(s)' = 0
    BY <1>1, <1>2, <2>2, <2>4, <2>5 DEF OwnOf
  <2>9. ASSUME NEW t \in Entries \ {s} PROVE OwnOf(t)' = OwnOf(t)
    <3>1. view'.dir[t] = view.dir[t]
      BY <2>2
    <3> QED
      BY <1>1, <1>2, <2>4, <3>1 DEF OwnOf
  <2>10. Own' = Own
    <3>1. \A t \in Entries : OwnOf(t)' = OwnOf(t)
      BY <2>8, <2>9
    <3> QED
      BY <3>1 DEF Own
  <2>11. Directory(view')
    BY <2>2, <2>5 DEF Directory, Good, ViewInv
  <2>12. ViewInv'
    BY <1>1, <1>2, <2>2, <2>4, <2>10, <2>11 DEF ViewInv, Good
  <2>13. FileInv'
    <3>1. ASSUME NEW m \in Names, file[m].open
          PROVE  file[m].entry \in Entries \ {s} /\ view.dir[file[m].entry].name = m
      BY <1>2, <3>1 DEF Good, FileInv
    <3> QED
      BY <1>1, <2>2, <2>4, <3>1 DEF FileInv, Good
  <2>14. CallInv'
    <3>1. ~Has(o)'
      BY <2>2, <2>5, <2>7 DEF Has
    <3> QED
      BY <2>3, <3>1 DEF CallInv, At
  <2>15. TypeOK'
    BY <1>1, <1>4, <2>1, <2>2, <2>3 DEF TypeOK, WindowMoved
  <2> QED
    BY <2>6, <2>12, <2>13, <2>14, <2>15 DEF Good
<1> QED
  BY <1>2, <1>3, <1>4 DEF Unname

LEMMA RestartStep ==
  ASSUME TypeOK, Good, ~cut, Restart
  PROVE  TypeOK' /\ (cut' \/ Good')
<1>1. /\ view' = disk /\ disk' = disk /\ wflag' = FALSE /\ call' = NoCall
      /\ file' = [n \in Names |-> Closed] /\ emptied' = {}
      /\ cut' = (cut \/ ~Sound(disk, {}))
  BY DEF Restart
<1>2. CallInv' /\ call' \in Call /\ ~At("unname")' /\ \A m \in Names : ~Emptying(m)'
  BY <1>1, CallsNone DEF NoCall, At, Emptying
<1>3. Closed \in File /\ ~Closed.open /\ Closed.fptr = 0 /\ Closed.objsize = 0
  BY VolumeAssumption DEF Closed, File
<1>4. cut' \in BOOLEAN
  BY <1>1
<1>5. TypeOK'
  BY <1>1, <1>2, <1>3, <1>4 DEF TypeOK
<1>6. CASE Sound(disk, {})
  <2>1. \A n \in Names : file'[n] = Closed
    BY <1>1
  <2>2. FileInv'
    BY <1>3, <2>1, NotPositive DEF FileInv
  <2>3. Own' = [s \in Entries |-> IF disk.dir[s].name \in {} THEN 0 ELSE disk.dir[s].clust]
    <3>1. ASSUME NEW s \in Entries PROVE OwnOf(s)' = disk.dir[s].clust
      BY <1>1, <1>2, <1>3, <2>1 DEF OwnOf
    <3> QED
      BY <3>1 DEF Own
  <2>4. ViewInv'
    <3>1. Directory(view')
      BY <1>1 DEF Good, DiskInv
    <3>2. InOrder(view'.fat, Own')
      BY <1>1, <1>6, <2>3 DEF Sound
    <3>3. \A s \in Entries : view'.dir[s].clust = Own'[s]
      BY <1>1, <2>3
    <3> QED
      BY <3>1, <3>2, <3>3 DEF ViewInv
  <2>5. DiskInv'
    BY <1>1, <1>6 DEF DiskInv, Good
  <2> QED
    BY <1>2, <1>5, <2>2, <2>4, <2>5 DEF Good
<1> QED
  BY <1>1, <1>5, <1>6

-----------------------------------------------------------------------------
(* The theorems. *)

LEMMA InitInv == Init => IInv
<1> SUFFICES ASSUME Init PROVE IInv
  OBVIOUS
<1>1. /\ view \in Volume /\ disk = view /\ wflag = FALSE /\ emptied = {} /\ cut = FALSE
      /\ \A c \in Clusters : view.fat[c] = 0
      /\ \A s \in Entries : /\ view.dir[s].name = Blank /\ view.dir[s].clust = 0
                            /\ view.dir[s].size = 0
  BY VolumeAssumption DEF Init, Volume, Entry
<1>2. Blank \notin Names
  BY VolumeAssumption
<1>3. /\ call = NoCall /\ call \in Call /\ call.at = "none" /\ call.op = "none"
      /\ file = [n \in Names |-> Closed]
  BY DEF Init, NoCall, Call
<1>4. Closed \in File /\ ~Closed.open /\ Closed.fptr = 0 /\ Closed.objsize = 0
  BY VolumeAssumption DEF Closed, File
<1>5. TypeOK
  BY <1>1, <1>3, <1>4 DEF TypeOK
<1>6. \A n \in Names : file[n] = Closed
  BY <1>3
<1>7. FileInv
  BY <1>4, <1>6, NotPositive DEF FileInv
<1>8. CallInv
  BY <1>3 DEF CallInv, Idle, At
<1>9. \A s \in Entries : Own[s] = 0
  BY <1>1, <1>2, <1>3 DEF Own, OwnOf, At
<1>10. InOrder(view.fat, Own)
  BY <1>1, <1>9, Numbers DEF InOrder, OneOwner, NoneFree
<1>11. Directory(view)
  BY <1>1, <1>2, NotPositive DEF Directory
<1>12. ViewInv
  BY <1>1, <1>10, <1>11 DEF ViewInv
<1>13. DiskInv
  <2>1. ~At("unname")
    BY <1>3 DEF At
  <2> QED
    BY <1>1, <1>5, <1>11, <1>12, <2>1, ViewSound DEF DiskInv
<1> QED
  BY <1>5, <1>7, <1>8, <1>12, <1>13 DEF IInv, Good

LEMMA StepInv == IInv /\ [Next]_vars => IInv'
<1> SUFFICES ASSUME IInv, [Next]_vars PROVE IInv'
  OBVIOUS
<1>1. TypeOK /\ (cut \/ Good)
  BY DEF IInv
<1>2. CASE UNCHANGED vars
  <2>1. /\ disk' = disk /\ view' = view /\ wflag' = wflag
        /\ file' = file /\ call' = call /\ emptied' = emptied /\ cut' = cut
    BY <1>2 DEF vars, window
  <2>2. TypeOK'
    BY <1>1, <2>1 DEF TypeOK
  <2>3. ASSUME Good PROVE Good'
    <3>1. Own' = Own
      BY <2>1 DEF Own, OwnOf, At, Emptying
    <3>2. DiskInv'
      BY <2>1, <2>3 DEF Good, DiskInv, RenameSection
    <3>3. FileInv'
      BY <2>1, <2>3 DEF Good, FileInv, Emptying
    <3>4. ViewInv'
      BY <2>1, <2>3, <3>1 DEF Good, ViewInv, At
    <3>5. CallInv'
      BY <2>1, <2>3, <3>1 DEF Good, CallInv, Idle, At, Has, Loose, Created
    <3> QED
      BY <3>2, <3>3, <3>4, <3>5 DEF Good
  <2> QED
    BY <1>1, <2>1, <2>2, <2>3 DEF IInv
<1>3. CASE ~cut /\ Continue
  <2>1. Good
    BY <1>1, <1>3
  <2>2. TypeOK' /\ (cut' \/ Good')
    BY <1>1, <1>3, <2>1, RemoveClusterStep, BackToEntryStep, LinkNewStep, WriteDataStep,
       SyncWindowStep, SyncInfoStep, UnnameStep DEF Continue
  <2> QED
    BY <2>2 DEF IInv
<1>4. CASE ~cut /\ Restart
  BY <1>1, <1>4, RestartStep DEF IInv
<1>5. ASSUME ~cut, NEW n \in Names, Begin(n) PROVE IInv'
  <2>1. Good
    BY <1>1, <1>5
  <2>2. TypeOK' /\ Good'
    BY <1>1, <1>5, <2>1, OpenAppendStep, CreateNewStep, CreateOverStep, WriteHereStep,
       WriteInsaneStep, WriteNewStep, WriteFullStep, SeekStep, TruncateStep,
       CallSyncStep, UnlinkStep, RenameStep DEF Begin
  <2> QED
    BY <2>2 DEF IInv
<1> QED
  BY <1>2, <1>3, <1>4, <1>5 DEF Next, Damaged

LEMMA VolumeInvariant == Spec => []IInv
  BY InitInv, StepInv, PTL DEF Spec

\* The variables have the values the code can give them.
THEOREM VolumeTyping == Spec => []TypeOK
<1>1. IInv => TypeOK
  BY DEF IInv
<1> QED
  BY <1>1, VolumeInvariant, PTL

\* ff.c:4997 expects a cross-link from a rename that is cut short.  On a volume
\* of any size, with any number of power failures and failing transfers, there
\* is no other way to one, and no entry leads to a free cluster, but for the
\* file that f_truncate cuts to nothing.
THEOREM MediumStaysSound == Spec => []MediumSound
<1>1. IInv => MediumSound
  BY DEF IInv, Good, DiskInv, MediumSound
<1> QED
  BY <1>1, VolumeInvariant, PTL

-----------------------------------------------------------------------------
(* Chains that are followed. *)

\* The clusters q are the first ones of the chain that begins at c.
Leads(fat, c, q) ==
  q # <<>> => q[1] = c /\ \A k \in 1 .. Len(q)-1 : fat[q[k]] = q[k+1]

\* x is in every set of clusters that has c and, with a cluster, the next one.
Follows(fat, X) == \A b \in X : fat[b] \in Clusters => fat[b] \in X
Reaches(fat, c, x) == \A X \in SUBSET Clusters : c \in X /\ Follows(fat, X) => x \in X

LEMMA ReachesNext ==
  ASSUME NEW fat, NEW c, NEW x, Reaches(fat, c, x), fat[x] \in Clusters
  PROVE  Reaches(fat, c, fat[x])
  BY DEF Reaches, Follows

LEMMA ReachesFurther ==
  ASSUME NEW fat, NEW c, NEW x, NEW y, Reaches(fat, c, x), Reaches(fat, x, y)
  PROVE  Reaches(fat, c, y)
  BY DEF Reaches

\* Whatever changes but the links of the table keeps what is reached.
LEMMA ReachesStill ==
  ASSUME NEW fat, NEW fat2, NEW c, NEW x, Reaches(fat, c, x),
         \A b \in Clusters : fat[b] \in Clusters => fat2[b] = fat[b]
  PROVE  Reaches(fat2, c, x)
<1>1. ASSUME NEW X \in SUBSET Clusters, c \in X, Follows(fat2, X) PROVE x \in X
  <2>1. Follows(fat, X)
    BY <1>1 DEF Follows
  <2>2. QED
    BY <1>1, <2>1 DEF Reaches
<1>2. QED
  BY <1>1 DEF Reaches

\* A cluster nothing leads to is on no chain.
LEMMA ReachesWithout ==
  ASSUME NEW fat, NEW fat2, NEW own, NEW s \in Entries, NEW x, NEW u \in Clusters,
         Reaches(fat, own[s], x), Unreferred(fat, own, u),
         \A b \in Clusters \ {u} : fat2[b] = fat[b]
  PROVE  Reaches(fat2, own[s], x)
<1>1. ASSUME NEW X \in SUBSET Clusters, own[s] \in X, Follows(fat2, X) PROVE x \in X
  <2> DEFINE Y == X \ {u}
  <2>1. Follows(fat, Y)
    BY <1>1 DEF Follows, Unreferred
  <2>2. own[s] \in Y
    BY <1>1 DEF Unreferred
  <2>3. x \in Y
    BY <2>1, <2>2 DEF Reaches
  <2>4. QED
    BY <2>3
<1>2. QED
  BY <1>1 DEF Reaches

\* What is reached from c is c or follows something that is.
LEMMA ReachedFrom ==
  ASSUME NEW fat, NEW c \in Clusters, NEW x \in Clusters, Reaches(fat, c, x), x # c
  PROVE  \E b \in Clusters : Reaches(fat, c, b) /\ fat[b] = x
<1> DEFINE R == {b \in Clusters : Reaches(fat, c, b)}
<1>1. SUFFICES ASSUME \A b \in R : fat[b] # x PROVE FALSE
  OBVIOUS
<1>2. Follows(fat, R \ {x})
  <2>1. ASSUME NEW b \in R \ {x}, fat[b] \in Clusters PROVE fat[b] \in R \ {x}
    BY <1>1, <2>1, ReachesNext
  <2>2. QED
    BY <2>1 DEF Follows
<1>3. c \in R \ {x}
  BY DEF Reaches
<1>4. R \ {x} \in SUBSET Clusters
  OBVIOUS
<1>5. x \in R \ {x}
  BY <1>2, <1>3, <1>4 DEF Reaches
<1>6. QED
  BY <1>5

\* Chains of two entries have no cluster in common.
LEMMA ReachesApart ==
  ASSUME NEW fat, NEW own \in Owns, NEW s \in Entries, NEW t \in Entries, s # t,
         OneOwner(fat, own), own[s] # 0, own[t] # 0,
         NEW x \in Clusters, Reaches(fat, own[s], x), Reaches(fat, own[t], x)
  PROVE  FALSE
<1> DEFINE R == {b \in Clusters : Reaches(fat, own[s], b)}
           Y == Clusters \ R
<1>1. own[s] \in Clusters /\ own[t] \in Clusters
  BY DEF Owns
<1>2. Follows(fat, Y)
  <2>1. ASSUME NEW b \in Y, fat[b] \in R PROVE FALSE
    <3>1. fat[b] # own[s]
      BY DEF OneOwner
    <3>2. PICK a \in Clusters : Reaches(fat, own[s], a) /\ fat[a] = fat[b]
      BY <1>1, <2>1, <3>1, ReachedFrom
    <3>3. a = b
      BY <2>1, <3>2 DEF OneOwner
    <3>4. QED
      BY <3>2, <3>3
  <2>2. QED
    BY <2>1 DEF Follows
<1>3. own[t] \in Y
  <2>1. SUFFICES ASSUME own[t] \in R PROVE FALSE
    BY <1>1
  <2>2. own[t] # own[s]
    BY DEF OneOwner
  <2>3. PICK a \in Clusters : fat[a] = own[t]
    BY <1>1, <2>1, <2>2, ReachedFrom
  <2>4. QED
    BY <2>3 DEF OneOwner
<1>4. x \in Y
  BY <1>2, <1>3 DEF Reaches
<1>5. QED
  BY <1>4

\* The end of a chain is cut off after b, which is on the chain of s: b is
\* reached as it was, and so is everything on other chains.
LEMMA ReachesCut ==
  ASSUME NEW fat \in Fats, NEW own \in Owns, NEW s \in Entries, NEW t \in Entries,
         OneOwner(fat, own), own[s] # 0, own[t] # 0,
         NEW b \in Clusters, Reaches(fat, own[s], b),
         NEW x \in Clusters, Reaches(fat, own[t], x), s = t => x = b
  PROVE  Reaches([fat EXCEPT ![b] = EOC], own[t], x)
<1> DEFINE fat2 == [fat EXCEPT ![b] = EOC]
<1>0. \A a \in Clusters \ {b} : fat2[a] = fat[a]
  BY DEF Fats
<1> HIDE DEF fat2
<1>1. ASSUME NEW X \in SUBSET Clusters, own[t] \in X, Follows(fat2, X) PROVE x \in X
  <2>1. CASE b \notin X
    <3>1. Follows(fat, X)
      BY <1>0, <1>1, <2>1 DEF Follows
    <3>2. QED
      BY <1>1, <3>1 DEF Reaches
  <2>2. CASE b \in X /\ s = t
    BY <2>2
  <2>3. CASE b \in X /\ s # t
    <3> DEFINE Y == {a \in X : Reaches(fat, own[t], a)}
    <3>1. Follows(fat, Y)
      <4>1. ASSUME NEW a \in Y, fat[a] \in Clusters PROVE fat[a] \in Y
        <5>1. Reaches(fat, own[t], fat[a])
          BY <4>1, ReachesNext
        <5>2. a # b
          BY <2>3, ReachesApart
        <5>3. fat[a] \in X
          BY <1>0, <1>1, <4>1, <5>2 DEF Follows
        <5>4. QED
          BY <5>1, <5>3
      <4>2. QED
        BY <4>1 DEF Follows
    <3>2. own[t] \in Y
      BY <1>1 DEF Reaches
    <3>3. Y \in SUBSET Clusters
      OBVIOUS
    <3>4. x \in Y
      BY <3>1, <3>2, <3>3 DEF Reaches
    <3>5. QED
      BY <3>4
  <2>4. QED
    BY <2>1, <2>2, <2>3
<1>2. Reaches(fat2, own[t], x)
  BY <1>1 DEF Reaches
<1>3. QED
  BY <1>2 DEF fat2

LEMMA SavedSequence ==
  ASSUME NEW q \in Seq(Clusters)
  PROVE  /\ Len(q) \in Nat /\ DOMAIN q = 1 .. Len(q)
         /\ q = <<>> <=> Len(q) = 0
         /\ \A k \in 1 .. Len(q) : q[k] \in Clusters
         /\ \A k \in 1 .. Len(q)-1 : k \in 1 .. Len(q) /\ k+1 \in 1 .. Len(q)
  OBVIOUS

\* Every set of numbers that is not empty has a least one.
LEMMA LeastElement ==
  ASSUME NEW T \in SUBSET Nat, T # {}
  PROVE  \E x \in T : \A y \in T : x <= y
<1>1. PICK x \in T : \A y \in T : ~ (<<y, x>> \in OpToRel(<, Nat))
  BY NatLessThanWellFounded, WFMin
<1>2. ASSUME NEW y \in T PROVE x <= y
  <2>1. ~ (<<y, x>> \in OpToRel(<, Nat))
    BY <1>1
  <2>2. ~(y < x)
    BY <2>1 DEF OpToRel
  <2>3. QED
    BY <2>2
<1>3. QED
  BY <1>2

LEMMA LeadsStill ==
  ASSUME NEW fat, NEW fat2, NEW c, NEW q \in Seq(Clusters), Leads(fat, c, q),
         \A b \in Clusters : fat[b] \in Clusters => fat2[b] = fat[b]
  PROVE  Leads(fat2, c, q)
<1>1. ASSUME NEW k \in 1 .. Len(q)-1, q # <<>> PROVE fat2[q[k]] = q[k+1]
  <2>1. q[k] \in Clusters /\ q[k+1] \in Clusters
    BY SavedSequence
  <2>2. fat[q[k]] = q[k+1]
    BY <1>1 DEF Leads
  <2>3. QED
    BY <2>1, <2>2
<1>2. QED
  BY <1>1 DEF Leads

\* Nothing leads to u, so u is not in q.
LEMMA LeadsBeside ==
  ASSUME NEW fat, NEW own, NEW s \in Entries, NEW q \in Seq(Clusters),
         Leads(fat, own[s], q), NEW u, Unreferred(fat, own, u),
         NEW k \in 1 .. Len(q)
  PROVE  q[k] # u
<1>1. q # <<>>
  BY SavedSequence
<1>2. CASE k = 1
  BY <1>1, <1>2 DEF Leads, Unreferred
<1>3. CASE k # 1
  <2>1. PICK j \in 1 .. Len(q)-1 : j + 1 = k
    <3>1. k - 1 \in 1 .. Len(q)-1 /\ (k - 1) + 1 = k
      BY <1>3, SavedSequence
    <3>2. QED
      BY <3>1
  <2>2. q[j] \in Clusters /\ fat[q[j]] = q[k]
    BY <1>1, <2>1, SavedSequence DEF Leads
  <2>3. QED
    BY <2>2 DEF Unreferred
<1>4. QED
  BY <1>2, <1>3

LEMMA LeadsWithout ==
  ASSUME NEW fat, NEW fat2, NEW own, NEW s \in Entries, NEW q \in Seq(Clusters),
         Leads(fat, own[s], q), NEW u, Unreferred(fat, own, u),
         \A b \in Clusters \ {u} : fat2[b] = fat[b]
  PROVE  Leads(fat2, own[s], q)
<1>1. ASSUME NEW k \in 1 .. Len(q)-1, q # <<>> PROVE fat2[q[k]] = q[k+1]
  <2>1. q[k] \in Clusters /\ k \in 1 .. Len(q)
    BY SavedSequence
  <2>2. q[k] # u
    BY <2>1, LeadsBeside
  <2>3. fat[q[k]] = q[k+1]
    BY <1>1 DEF Leads
  <2>4. QED
    BY <2>1, <2>2, <2>3
<1>2. QED
  BY <1>1 DEF Leads

LEMMA LeadsReaches ==
  ASSUME NEW fat, NEW c, NEW q \in Seq(Clusters), Leads(fat, c, q),
         NEW k \in 1 .. Len(q)
  PROVE  Reaches(fat, c, q[k])
<1> DEFINE T == {j \in 1 .. Len(q) : ~Reaches(fat, c, q[j])}
<1>1. SUFFICES ASSUME T # {} PROVE FALSE
  OBVIOUS
<1>2. PICK j \in T : \A i \in T : j <= i
  <2>1. T \in SUBSET Nat
    BY SavedSequence
  <2>2. QED
    BY <1>1, <2>1, LeastElement
<1>3. q # <<>>
  BY SavedSequence
<1>4. CASE j = 1
  BY <1>3, <1>4 DEF Leads, Reaches
<1>5. CASE j # 1
  <2>1. PICK i \in 1 .. Len(q)-1 : i + 1 = j
    <3>1. j - 1 \in 1 .. Len(q)-1 /\ (j - 1) + 1 = j
      BY <1>5, SavedSequence
    <3>2. QED
      BY <3>1
  <2>2. i \in 1 .. Len(q) /\ ~(j <= i)
    BY <2>1, SavedSequence
  <2>3. Reaches(fat, c, q[i])
    BY <1>2, <2>2
  <2>4. fat[q[i]] = q[j] /\ q[j] \in Clusters
    BY <1>3, <2>1, SavedSequence DEF Leads
  <2>5. Reaches(fat, c, fat[q[i]])
    BY <2>3, <2>4, ReachesNext
  <2>6. QED
    BY <2>4, <2>5
<1>6. QED
  BY <1>4, <1>5

\* The cluster x on the chain of s is not among those of the file of t.
LEMMA LeadsApart ==
  ASSUME NEW fat, NEW own \in Owns, NEW s \in Entries, NEW t \in Entries, s # t,
         OneOwner(fat, own), own[s] # 0, own[t] # 0, NEW q \in Seq(Clusters),
         Leads(fat, own[t], q), NEW x \in Clusters, Reaches(fat, own[s], x),
         NEW k \in 1 .. Len(q)
  PROVE  q[k] # x
<1>1. Reaches(fat, own[t], q[k])
  BY LeadsReaches
<1>2. QED
  BY <1>1, ReachesApart

-----------------------------------------------------------------------------
(* The chain as f_lseek and f_sync walk it. *)

Places == 1 .. MaxSize+1
Fetched == {0, 1, EOC} \cup Clusters
Step(fat, x) == IF x \in Clusters THEN fat[x] ELSE 1

\* The first n clusters of a chain.
Begins(fat, c, n, g) ==
  /\ g \in [1..n -> Fetched] /\ g[1] = c
  /\ \A k \in 1 .. n-1 : g[k+1] = Step(fat, g[k])

LEMMA NumberOfPlaces == MaxSize + 1 \in Nat /\ 1 \in Places /\ MaxSize \in Nat
  BY VolumeAssumption DEF Places

LEMMA ChainExists ==
  ASSUME NEW fat \in Fats, NEW c \in Fetched, NEW n \in Nat \ {0}
  PROVE  \E g : Begins(fat, c, n, g)
<1> DEFINE T == {j \in Nat \ {0} : ~ \E g : Begins(fat, c, j, g)}
<1>1. SUFFICES ASSUME T # {} PROVE FALSE
  OBVIOUS
<1>2. PICK j \in T : \A i \in T : j <= i
  BY <1>1, LeastElement
<1>3. CASE j = 1
  <2> DEFINE g == [k \in 1..1 |-> c]
  <2>1. Begins(fat, c, 1, g)
    BY DEF Begins, Fetched
  <2>2. QED
    BY <1>2, <1>3, <2>1
<1>4. CASE j # 1
  <2>1. PICK i \in Nat \ {0} : i + 1 = j
    <3>1. j - 1 \in Nat \ {0} /\ (j - 1) + 1 = j
      BY <1>4
    <3>2. QED
      BY <3>1
  <2>2. PICK g : Begins(fat, c, i, g)
    BY <1>2, <2>1
  <2>3. Step(fat, g[i]) \in Fetched
    BY <2>1, <2>2 DEF Begins, Step, Fetched, Fats
  <2> DEFINE x == Step(fat, g[i])
             h == [k \in 1..j |-> IF k = j THEN x ELSE g[k]]
  <2>4. x \in Fetched
    BY <2>3
  <2>5. x = Step(fat, g[i])
    OBVIOUS
  <2> HIDE DEF x
  <2>6. h \in [1..j -> Fetched]
    BY <2>1, <2>2, <2>4 DEF Begins
  <2>7. h[1] = c
    BY <1>4, <2>1, <2>2 DEF Begins
  <2>8. ASSUME NEW k \in 1 .. j-1 PROVE h[k+1] = Step(fat, h[k])
    <3>1. h[k] = g[k]
      BY <2>1
    <3>2. CASE k = i
      BY <2>1, <2>5, <3>1, <3>2
    <3>3. CASE k # i
      <4>1. k \in 1 .. i-1 /\ k + 1 \in 1..j /\ k + 1 # j
        BY <2>1, <3>3
      <4>2. h[k+1] = g[k+1]
        BY <4>1
      <4>3. QED
        BY <2>2, <3>1, <4>1, <4>2 DEF Begins
    <3>4. QED
      BY <3>2, <3>3
  <2>9. Begins(fat, c, j, h)
    BY ONLY <2>6, <2>7, <2>8 DEF Begins
  <2>10. QED
    BY <1>2, <2>9
<1>5. QED
  BY <1>3, <1>4

LEMMA ChainIs ==
  ASSUME NEW fat \in Fats, NEW c \in Fetched
  PROVE  /\ Chain(fat, c)[1] = c
         /\ \A k \in 1..MaxSize : Chain(fat, c)[k+1] = Step(fat, Chain(fat, c)[k])
<1> DEFINE IsIt(f) == f = [k \in 1 .. MaxSize+1 |->
                             IF k = 1 THEN c
                             ELSE IF f[k-1] \in Clusters THEN fat[f[k-1]] ELSE 1]
<1>1. PICK g : Begins(fat, c, MaxSize+1, g)
  BY ChainExists, NumberOfPlaces
<1>2. \A k \in 1 .. MaxSize+1 :
        g[k] = IF k = 1 THEN c ELSE IF g[k-1] \in Clusters THEN fat[g[k-1]] ELSE 1
  <2> TAKE k \in 1 .. MaxSize+1
  <2>1. CASE k = 1
    BY <1>1, <2>1 DEF Begins
  <2>2. CASE k # 1
    <3>1. PICK j \in 1 .. (MaxSize+1)-1 : j + 1 = k /\ k - 1 = j
      <4>1. k - 1 \in 1 .. (MaxSize+1)-1 /\ (k - 1) + 1 = k
        BY <2>2, NumberOfPlaces
      <4>2. QED
        BY <4>1
    <3>2. g[k] = Step(fat, g[k-1])
      BY <1>1, <3>1 DEF Begins
    <3>3. QED
      BY <2>2, <3>2 DEF Step
  <2>3. QED
    BY <2>1, <2>2
<1>3. IsIt(g)
  BY <1>1, <1>2 DEF Begins
<1>4. Chain(fat, c) = CHOOSE f : IsIt(f)
  BY DEF Chain
<1> HIDE DEF IsIt
<1>5. IsIt(Chain(fat, c))
  BY <1>3, <1>4
<1> DEFINE w == Chain(fat, c)
<1>6. w = [k \in 1 .. MaxSize+1 |->
             IF k = 1 THEN c ELSE IF w[k-1] \in Clusters THEN fat[w[k-1]] ELSE 1]
  BY <1>5 DEF IsIt
<1> HIDE DEF w
<1> DEFINE E(k) == IF k = 1 THEN c ELSE IF w[k-1] \in Clusters THEN fat[w[k-1]] ELSE 1
           F == [k \in 1 .. MaxSize+1 |-> E(k)]
<1>7. \A k \in 1 .. MaxSize+1 : F[k] = E(k)
  OBVIOUS
<1>8. w = F
  BY <1>6
<1> HIDE DEF F
<1>9. \A k \in 1 .. MaxSize+1 : w[k] = E(k)
  BY <1>7, <1>8
<1>10. w[1] = c
  BY <1>9, NumberOfPlaces
<1>11. ASSUME NEW k \in 1..MaxSize PROVE w[k+1] = Step(fat, w[k])
  <2>1. PICK j \in 1 .. MaxSize+1 : j = k + 1 /\ j # 1 /\ j - 1 = k
    <3>1. k + 1 \in 1 .. MaxSize+1 /\ k + 1 # 1 /\ (k + 1) - 1 = k
      BY NumberOfPlaces
    <3>2. QED
      BY <3>1
  <2>2. w[j] = E(j)
    BY <1>9
  <2>3. QED
    BY <2>1, <2>2 DEF Step
<1>12. QED
  BY <1>10, <1>11 DEF w

LEMMA OneIsNoCluster == 1 \notin Clusters
  BY VolumeAssumption DEF Clusters, n_fatent

\* A saved file is found again from where it begins.
LEMMA ChainFindsSaved ==
  ASSUME NEW fat \in Fats, NEW c \in {0} \cup Clusters, NEW q \in Seq(Clusters),
         Len(q) <= MaxSize, Leads(fat, c, q), NEW k \in 1 .. Len(q)
  PROVE  Chain(fat, c)[k] = q[k]
<1> DEFINE w == Chain(fat, c)
           T == {j \in 1 .. Len(q) : w[j] # q[j]}
<1>1. SUFFICES ASSUME T # {} PROVE FALSE
  OBVIOUS
<1>2. PICK j \in T : \A i \in T : j <= i
  <2>1. T \in SUBSET Nat
    BY SavedSequence
  <2>2. QED
    BY <1>1, <2>1, LeastElement
<1>3. q # <<>>
  BY SavedSequence
<1>4. w[1] = c /\ \A i \in 1..MaxSize : w[i+1] = Step(fat, w[i])
  BY ChainIs DEF Fetched
<1> HIDE DEF w
<1>5. CASE j = 1
  BY <1>3, <1>4, <1>5 DEF Leads
<1>6. CASE j # 1
  <2>1. PICK i \in 1 .. Len(q)-1 : i + 1 = j
    <3>1. j - 1 \in 1 .. Len(q)-1 /\ (j - 1) + 1 = j
      BY <1>6, SavedSequence
    <3>2. QED
      BY <3>1
  <2>2. i \in 1 .. Len(q) /\ ~(j <= i) /\ i \in 1..MaxSize
    BY <2>1, SavedSequence, NumberOfPlaces
  <2>3. w[i] = q[i] /\ q[i] \in Clusters
    BY <1>2, <2>2, SavedSequence
  <2>4. fat[q[i]] = q[j]
    BY <1>3, <2>1 DEF Leads
  <2>5. w[j] = Step(fat, w[i])
    BY <1>4, <2>1, <2>2
  <2>6. QED
    BY <2>3, <2>4, <2>5 DEF Step
<1>7. QED
  BY <1>5, <1>6

\* What a walk along clusters comes to is on the chain.
LEMMA ChainReaches ==
  ASSUME NEW fat \in Fats, NEW c \in {0} \cup Clusters, NEW k \in Places,
         \A j \in 1..k : Chain(fat, c)[j] \in Clusters
  PROVE  Reaches(fat, c, Chain(fat, c)[k])
<1> DEFINE w == Chain(fat, c)
           T == {j \in 1..k : ~Reaches(fat, c, w[j])}
<1>0. k \in Nat
  BY NumberOfPlaces DEF Places
<1>1. SUFFICES ASSUME T # {} PROVE FALSE
  BY <1>0 DEF Places
<1>2. PICK j \in T : \A i \in T : j <= i
  <2>1. T \in SUBSET Nat
    BY <1>0
  <2>2. QED
    BY <1>1, <2>1, LeastElement
<1>4. w[1] = c /\ \A i \in 1..MaxSize : w[i+1] = Step(fat, w[i])
  BY ChainIs DEF Fetched
<1>41. \A i \in 1..k : w[i] \in Clusters
  OBVIOUS
<1> HIDE DEF w
<1>5. CASE j = 1
  BY <1>4, <1>5 DEF Reaches
<1>6. CASE j # 1
  <2>1. PICK i \in 1..MaxSize : i + 1 = j /\ i \in 1..k /\ ~(j <= i)
    <3>1. j - 1 \in 1..MaxSize /\ (j - 1) + 1 = j /\ j - 1 \in 1..k /\ ~(j <= j - 1)
      BY <1>0, <1>6, NumberOfPlaces DEF Places
    <3>2. QED
      BY <3>1
  <2>2. Reaches(fat, c, w[i])
    BY <1>2, <2>1
  <2>3. w[j] = fat[w[i]] /\ w[j] \in Clusters
    BY <1>4, <1>41, <2>1 DEF Step
  <2>4. Reaches(fat, c, fat[w[i]])
    BY <2>2, <2>3, ReachesNext
  <2>5. QED
    BY <2>3, <2>4
<1>7. QED
  BY <1>5, <1>6

\* Behind the end of a chain there is no cluster.
LEMMA ChainEndsOnce ==
  ASSUME NEW fat \in Fats, NEW c \in {0} \cup Clusters,
         NEW i \in Places, NEW j \in Places, i <= j, Chain(fat, c)[j] \in Clusters
  PROVE  Chain(fat, c)[i] \in Clusters
<1> DEFINE w == Chain(fat, c)
           T == {k \in Places : i <= k /\ w[k] \in Clusters}
<1>1. PICK k \in T : \A l \in T : k <= l
  <2>1. T \in SUBSET Nat /\ T # {}
    BY NumberOfPlaces DEF Places
  <2>2. QED
    BY <2>1, LeastElement
<1>2. \A l \in 1..MaxSize : w[l+1] = Step(fat, w[l])
  BY ChainIs DEF Fetched
<1>3. w[k] \in Clusters /\ k \in Places /\ i <= k
  BY <1>1
<1>4. SUFFICES ASSUME i # k PROVE FALSE
  BY <1>3
<1> HIDE DEF w
<1>5. PICK l \in 1..MaxSize : l + 1 = k /\ l \in Places /\ i <= l /\ ~(k <= l)
  <2>1. k - 1 \in 1..MaxSize /\ (k - 1) + 1 = k /\ k - 1 \in Places /\ i <= k - 1 /\ ~(k <= k - 1)
    BY <1>3, <1>4, NumberOfPlaces DEF Places
  <2>2. QED
    BY <2>1
<1>6. w[l] \notin Clusters
  BY <1>1, <1>5
<1>7. w[k] = 1
  BY <1>2, <1>5, <1>6 DEF Step
<1>8. QED
  BY <1>3, <1>7, OneIsNoCluster

\* ChainOf gives the beginning of the chain of a file, and not more than its size.
LEMMA ChainOfFacts ==
  ASSUME view.fat \in Fats, NEW f, f.sclust \in {0} \cup Clusters, f.objsize \in 0..MaxSize
  PROVE  /\ ChainOf(f) \in Seq(Clusters) /\ Len(ChainOf(f)) <= f.objsize
         /\ Leads(view.fat, f.sclust, ChainOf(f))
<1> DEFINE w == Chain(view.fat, f.sclust)
           has == {k \in 1..f.objsize : w[k] \in Clusters}
           T == {k \in Nat : k + 1 \in 1..f.objsize => w[k+1] \notin Clusters}
<1>0. f.objsize \in Nat /\ f.objsize <= MaxSize
  BY NumberOfPlaces
<1>1. w[1] = f.sclust /\ \A i \in 1..MaxSize : w[i+1] = Step(view.fat, w[i])
  <2>1. PICK fat \in Fats, c \in Fetched : fat = view.fat /\ c = f.sclust
    BY DEF Fetched
  <2>2. Chain(fat, c)[1] = c /\ \A i \in 1..MaxSize : Chain(fat, c)[i+1] = Step(fat, Chain(fat, c)[i])
    BY ChainIs
  <2>3. QED
    BY <2>1, <2>2
<1>2. \A i, j \in 1..f.objsize : i <= j /\ w[j] \in Clusters => w[i] \in Clusters
  <2>1. \A i \in 1..f.objsize : i \in Places
    BY <1>0, NumberOfPlaces DEF Places
  <2>2. QED
    BY <2>1, ChainEndsOnce
<1> HIDE DEF w
<1>3. PICK h \in T : \A l \in T : h <= l
  <2>1. f.objsize \in T
    BY <1>0
  <2>2. T \in SUBSET Nat /\ T # {}
    BY <2>1
  <2>3. QED
    BY <2>2, LeastElement
<1>4. h \in Nat /\ h <= f.objsize
  <2>1. f.objsize \in T
    BY <1>0
  <2>2. QED
    BY <1>3, <2>1
<1>5. \A k \in 1..h : w[k] \in Clusters
  <2>1. ASSUME NEW k \in 1..h PROVE w[k] \in Clusters
    <3>1. PICK l \in Nat : l + 1 = k /\ ~(h <= l)
      <4>1. k - 1 \in Nat /\ (k - 1) + 1 = k /\ ~(h <= k - 1)
        BY <1>4
      <4>2. QED
        BY <4>1
    <3>2. l \notin T
      BY <1>3, <3>1
    <3>3. QED
      BY <3>1, <3>2
  <2>2. QED
    BY <2>1
<1>6. has = 1..h
  <2>1. ASSUME NEW k \in has PROVE k \in 1..h
    <3>1. SUFFICES ASSUME ~(k <= h) PROVE FALSE
      BY <1>0, <1>4
    <3>2. h + 1 \in 1..f.objsize /\ h + 1 <= k
      BY <1>0, <1>4, <3>1
    <3>3. w[h+1] \notin Clusters
      BY <1>3, <3>2
    <3>4. QED
      BY <1>2, <3>2, <3>3
  <2>2. ASSUME NEW k \in 1..h PROVE k \in has
    BY <1>0, <1>4, <1>5
  <2>3. QED
    BY <2>1, <2>2
<1>7. Cardinality(has) = h
  <2>1. h \in Int /\ 1 \in Int /\ (1 > h => h = 0) /\ h - 1 + 1 = h
    BY <1>4
  <2>2. Cardinality(1..h) = h
    BY ONLY <2>1, FS_Interval
  <2> HIDE DEF has
  <2>3. QED
    BY <1>6, <2>2
<1>8. ChainOf(f) = [k \in 1..h |-> w[k]]
  BY <1>7 DEF ChainOf, w
<1> DEFINE q == [k \in 1..h |-> w[k]]
<1>9. q \in Seq(Clusters) /\ Len(q) = h
  <2>1. q \in [1..h -> Clusters]
    BY <1>5
  <2>2. q \in Seq(Clusters)
    BY <1>4, <2>1, SeqDef
  <2>3. Len(q) = h
    BY <1>4
  <2>4. QED
    BY <2>2, <2>3
<1>10. \A k \in 1..h : q[k] = w[k]
  OBVIOUS
<1> HIDE DEF q
<1>11. Leads(view.fat, f.sclust, q)
  <2>1. ASSUME q # <<>> PROVE q[1] = f.sclust
    <3>1. 1 \in 1..h
      BY <1>4, <1>9, <2>1, SavedSequence
    <3>2. QED
      BY <1>1, <1>10, <3>1
  <2>2. ASSUME NEW k \in 1 .. Len(q)-1 PROVE view.fat[q[k]] = q[k+1]
    <3>1. k \in 1..h /\ k + 1 \in 1..h /\ k \in 1..MaxSize
      BY <1>0, <1>4, <1>9, NumberOfPlaces
    <3>2. QED
      BY <1>1, <1>5, <1>10, <3>1 DEF Step
  <2>3. QED
    BY <2>1, <2>2 DEF Leads
<1>12. QED
  BY <1>4, <1>8, <1>9, <1>11 DEF q

-----------------------------------------------------------------------------
(* What keeps the saved files. *)

SavedValues == {NotSaved} \cup {q \in Seq(Clusters) : Len(q) <= MaxSize}
Safe(n) == saved[n] # NotSaved

\* The volume d has the file n, and its first clusters are q.
Keeps(d, n, q) ==
  \E s \in Entries : /\ d.dir[s].name = n /\ d.dir[s].size >= Len(q)
                     /\ Leads(d.fat, d.dir[s].clust, q)
KeptOn(d) == \A n \in Names : Safe(n) => Keeps(d, n, saved[n])

\* A file object is at a cluster of its own chain, and is as long as what is
\* safe of the file.
FileKept(n) ==
  /\ n \in emptied => ~Safe(n)
  /\ file[n].open /\ Safe(n) => file[n].objsize >= Len(saved[n])
  /\ file[n].open /\ file[n].fptr > 0 /\ file[n].clust \in Clusters =>
       Reaches(view.fat, file[n].sclust, file[n].clust)

\* The clusters a call is going to write to are of the file's chain, and an
\* entry that is on its way to the card is that of the file object.
CallKept ==
  LET n == call.name
  IN /\ At("remove") \/ At("back") \/ At("unname") => ~Safe(n)
     /\ At("data") /\ file[n].sclust # 0 => Reaches(view.fat, file[n].sclust, call.clst)
     /\ At("link") => Reaches(view.fat, file[n].sclust, call.ncl)
     /\ (At("sync") \/ At("info")) /\ call.op \in {"sync", "close"} =>
          view.dir[file[n].entry].size = file[n].objsize
     /\ At("info") => ~wflag /\ n \notin emptied

Kept ==
  /\ saved \in [Names -> SavedValues]
  /\ KeptOn(disk) /\ KeptOn(view)
  /\ \A n \in Names : FileKept(n)
  /\ CallKept

\* A step makes no file safe.
SavedLess ==
  /\ saved' \in [Names -> SavedValues]
  /\ \A n \in Names : saved'[n] \in {saved[n], NotSaved}

LEMMA SavedFacts ==
  ASSUME Kept, NEW n \in Names, Safe(n)
  PROVE  /\ saved[n] \in Seq(Clusters) /\ Len(saved[n]) \in Nat
         /\ Len(saved[n]) <= MaxSize
  BY DEF Kept, Safe, SavedValues

LEMMA LessIsSafe ==
  ASSUME SavedLess, NEW n \in Names, Safe(n)'
  PROVE  Safe(n) /\ saved'[n] = saved[n]
  BY DEF SavedLess, Safe

LEMMA LessStays ==
  ASSUME Kept, saved' = saved \/ \E n \in Names : saved' = [saved EXCEPT ![n] = NotSaved]
  PROVE  SavedLess
  BY DEF Kept, SavedLess, SavedValues

\* The first cluster of an open file.
LEMMA FileOwns ==
  ASSUME TypeOK, Good, NEW n \in Names, file[n].open, ~Emptying(n)
  PROVE  /\ file[n].entry \in Entries /\ view.dir[file[n].entry].name = n
         /\ Own[file[n].entry] = file[n].sclust
<1>1. file[n].entry \in Entries /\ view.dir[file[n].entry].name = n
  BY DEF Good, FileInv
<1>2. ~(At("unname") /\ call.ncl = file[n].entry)
  BY <1>1 DEF Good, CallInv
<1>3. OwnOf(file[n].entry) = file[n].sclust
  BY <1>1, <1>2 DEF OwnOf
<1>4. QED
  BY <1>1, <1>3 DEF Own

\* The clusters of a file that is safe are its own.
LEMMA SafeOwns ==
  ASSUME TypeOK, Good, Kept, NEW n \in Names, Safe(n)
  PROVE  \E s \in Entries :
           /\ view.dir[s].name = n /\ view.dir[s].size >= Len(saved[n])
           /\ Leads(view.fat, view.dir[s].clust, saved[n])
           /\ Leads(view.fat, Own[s], saved[n])
           /\ saved[n] = <<>> \/ (Own[s] # 0 /\ Own[s] = view.dir[s].clust)
<1>1. PICK s \in Entries : /\ view.dir[s].name = n /\ view.dir[s].size >= Len(saved[n])
                           /\ Leads(view.fat, view.dir[s].clust, saved[n])
  BY DEF Kept, KeptOn, Keeps
<1>2. CASE saved[n] = <<>>
  BY <1>1, <1>2 DEF Leads
<1>3. CASE saved[n] # <<>>
  <2>1. view.dir[s].clust \in Clusters
    <3>1. 1 \in 1 .. Len(saved[n])
      BY <1>3, SavedFacts, SavedSequence
    <3>2. saved[n][1] \in Clusters
      BY <3>1, SavedFacts, SavedSequence
    <3>3. QED
      BY <1>1, <1>3, <3>2 DEF Leads
  <2>2. n \notin emptied
    BY DEF Kept, FileKept
  <2>3. ~(At("unname") /\ call.ncl = s)
    <3>1. SUFFICES ASSUME At("unname"), call.ncl = s PROVE FALSE
      OBVIOUS
    <3>2. call.name = n
      BY <1>1, <3>1 DEF Good, CallInv
    <3>3. QED
      BY <3>1, <3>2 DEF Kept, CallKept
  <2>4. view.dir[s].clust = Own[s]
    BY <1>1, <2>1, <2>2, <2>3, Numbers DEF Good, ViewInv
  <2>5. QED
    BY <1>1, <2>1, <2>4, Numbers
<1>4. QED
  BY <1>2, <1>3

\* The card keeps what it kept, whichever sector is written.
LEMMA CardKept ==
  ASSUME Kept, WindowMoved, SavedLess
  PROVE  KeptOn(disk)'
<1>1. ASSUME NEW n \in Names, Safe(n)' PROVE Keeps(disk', n, saved'[n])
  <2>1. Safe(n) /\ saved'[n] = saved[n]
    BY <1>1, LessIsSafe
  <2>2. Keeps(disk, n, saved[n]) /\ Keeps(view, n, saved[n])
    BY <2>1 DEF Kept, KeptOn
  <2>3. disk' \in {disk, view}
    BY DEF WindowMoved
  <2>4. QED
    BY <2>1, <2>2, <2>3
<1>2. QED
  BY <1>1 DEF KeptOn

LEMMA ViewKept ==
  ASSUME Kept, view' = view, SavedLess
  PROVE  KeptOn(view)'
<1>1. ASSUME NEW n \in Names, Safe(n)' PROVE Keeps(view', n, saved'[n])
  <2>1. Safe(n) /\ saved'[n] = saved[n]
    BY <1>1, LessIsSafe
  <2>2. QED
    BY <2>1 DEF Kept, KeptOn
<1>2. QED
  BY <1>1 DEF KeptOn

\* An entry is written that no safe file has.
LEMMA DirKept ==
  ASSUME Kept, SavedLess, view'.fat = view.fat, NEW s \in Entries,
         \A t \in Entries \ {s} : view'.dir[t] = view.dir[t],
         \A n \in Names : view.dir[s].name = n => ~Safe(n)'
  PROVE  KeptOn(view)'
<1>1. ASSUME NEW n \in Names, Safe(n)' PROVE Keeps(view', n, saved'[n])
  <2>1. Safe(n) /\ saved'[n] = saved[n]
    BY <1>1, LessIsSafe
  <2>2. PICK t \in Entries : /\ view.dir[t].name = n /\ view.dir[t].size >= Len(saved[n])
                             /\ Leads(view.fat, view.dir[t].clust, saved[n])
    BY <2>1 DEF Kept, KeptOn, Keeps
  <2>3. t # s
    BY <1>1, <2>2
  <2>4. QED
    BY <2>1, <2>2, <2>3 DEF Keeps
<1>2. QED
  BY <1>1 DEF KeptOn

\* The table is written beside the chains of the safe files.
LEMMA TableKept ==
  ASSUME TypeOK, Good, Kept, SavedLess, view'.dir = view.dir,
         \A n \in Names, s \in Entries :
           /\ Safe(n)' /\ view.dir[s].name = n /\ Own[s] # 0
           /\ Leads(view.fat, Own[s], saved[n])
           => Leads(view'.fat, Own[s], saved[n])
  PROVE  KeptOn(view)'
<1>1. ASSUME NEW n \in Names, Safe(n)' PROVE Keeps(view', n, saved'[n])
  <2>1. Safe(n) /\ saved'[n] = saved[n]
    BY <1>1, LessIsSafe
  <2>2. PICK s \in Entries :
           /\ view.dir[s].name = n /\ view.dir[s].size >= Len(saved[n])
           /\ Leads(view.fat, view.dir[s].clust, saved[n])
           /\ Leads(view.fat, Own[s], saved[n])
           /\ saved[n] = <<>> \/ (Own[s] # 0 /\ Own[s] = view.dir[s].clust)
    BY <2>1, SafeOwns
  <2>3. Leads(view'.fat, view.dir[s].clust, saved[n])
    <3>1. CASE saved[n] = <<>>
      BY <3>1 DEF Leads
    <3>2. CASE saved[n] # <<>>
      BY <1>1, <2>2, <3>2
    <3>3. QED
      BY <3>1, <3>2
  <2>4. QED
    BY <2>1, <2>2, <2>3 DEF Keeps
<1>2. QED
  BY <1>1 DEF KeptOn

\* A file object that has not moved.
LEMMA FileStays ==
  ASSUME Kept, SavedLess, NEW n \in Names, n \in emptied' => n \in emptied,
         file'[n].open => file[n].open, file'[n].objsize = file[n].objsize,
         file'[n].sclust = file[n].sclust, file'[n].fptr = file[n].fptr,
         file'[n].clust = file[n].clust,
         \/ view' = view
         \/ /\ file[n].open /\ file[n].fptr > 0 /\ file[n].clust \in Clusters
            /\ Reaches(view.fat, file[n].sclust, file[n].clust)
            => Reaches(view'.fat, file[n].sclust, file[n].clust)
  PROVE  FileKept(n)'
<1>1. Safe(n)' => Safe(n) /\ saved'[n] = saved[n]
  BY LessIsSafe
<1>2. FileKept(n)
  BY DEF Kept
<1>3. file'[n].open /\ file'[n].fptr > 0 /\ file'[n].clust \in Clusters =>
        Reaches(view'.fat, file'[n].sclust, file'[n].clust)
  BY <1>2 DEF FileKept
<1>4. QED
  BY <1>1, <1>2, <1>3 DEF FileKept

\* A file object at the beginning of a file of which nothing is safe.
LEMMA FileFresh ==
  ASSUME SavedLess, NEW n \in Names, ~Safe(n)', ~(file'[n].fptr > 0)
  PROVE  FileKept(n)'
  BY DEF FileKept

LEMMA CallEndsKept ==
  ASSUME call' = NoCall
  PROVE  CallKept'
  BY DEF CallKept, NoCall, At

LEMMA KeptTogether ==
  ASSUME Kept, WindowMoved, SavedLess, KeptOn(view)', \A n \in Names : FileKept(n)', CallKept'
  PROVE  Kept'
  BY CardKept DEF Kept, SavedLess

LEMMA KeptSame ==
  ASSUME Kept, WindowMoved, view' = view, SavedLess, \A n \in Names : FileKept(n)', CallKept'
  PROVE  Kept'
  BY ViewKept, KeptTogether

\* A call ends, and its file object gets another mark at most.
LEMMA CallEndsQuietly ==
  ASSUME TypeOK, Kept, WindowMoved, view' = view, saved' = saved, emptied' \subseteq emptied,
         call' = NoCall,
         \/ file' = file
         \/ \E n \in Names : \/ Aborts(n)
                             \/ file' = [file EXCEPT ![n].modified = TRUE]
                             \/ file' = [file EXCEPT ![n].modified = FALSE]
  PROVE  Kept'
<1>1. SavedLess
  BY LessStays
<1>2. ASSUME NEW m \in Names PROVE FileKept(m)'
  <2>1. file[m] \in File /\ file \in [Names -> File]
    BY DEF TypeOK
  <2>2. /\ file'[m].open = file[m].open /\ file'[m].objsize = file[m].objsize
        /\ file'[m].sclust = file[m].sclust /\ file'[m].fptr = file[m].fptr
        /\ file'[m].clust = file[m].clust
    BY <2>1 DEF Aborts, File
  <2>3. QED
    BY <1>1, <2>2, FileStays
<1>3. QED
  BY <1>1, <1>2, CallEndsKept, KeptSame

\* A file that is closed has nothing to keep.
LEMMA FileShut ==
  ASSUME Kept, SavedLess, NEW n \in Names, ~file'[n].open, n \in emptied' => n \in emptied
  PROVE  FileKept(n)'
<1>1. Safe(n)' => Safe(n)
  BY LessIsSafe
<1>2. QED
  BY <1>1 DEF Kept, FileKept

LEMMA OpenAppendKeeps ==
  ASSUME TypeOK, Good, Kept, NEW n \in Names, OpenAppend(n)
  PROVE  Kept'
<1> DEFINE s == Slot(n)
           e == view.dir[s]
           w == Chain(view.fat, e.clust)
           last == IF e.size = 0 THEN 0
                   ELSE IF w[e.size] \in Clusters THEN w[e.size] ELSE EOC
<1>1. Idle /\ Has(n) /\ ~file[n].open /\ call' = NoCall /\ emptied' = emptied /\ saved' = saved
  BY DEF OpenAppend, quiet, Idle
<1>2. WindowMoved /\ view' = view
  BY LookMoves DEF OpenAppend, Good
<1>3. s \in Entries /\ e.name = n
  BY <1>1, SlotFacts
<1>4. CASE file' = file
  BY <1>1, <1>2, <1>4, CallEndsQuietly
<1>5. CASE /\ \A k \in 1 .. e.size-1 : w[k] \in Clusters /\ w[k+1] > 1
           /\ file' = [file EXCEPT ![n] = [Opened(s, e.clust, e.size, FALSE) EXCEPT
                                             !.fptr = e.size, !.clust = last]]
  <2>1. SavedLess
    BY <1>1, LessStays
  <2>2. e.clust \in {0} \cup Clusters /\ e.size \in 0..MaxSize /\ view.fat \in Fats
    BY <1>3 DEF TypeOK, Volume, Fats
  <2>3. last \in Clusters => e.size \in 1..MaxSize /\ last = w[e.size]
    BY <2>2, Numbers, NumberOfPlaces
  <2>4. last \in Clusters => Reaches(view.fat, e.clust, last)
    <3>1. SUFFICES ASSUME last \in Clusters PROVE Reaches(view.fat, e.clust, w[e.size])
      BY <2>3
    <3>2. e.size \in Places /\ e.size \in Nat /\ e.size # 0
      BY <2>3, <3>1, NumberOfPlaces DEF Places
    <3>3. \A k \in 1 .. e.size : k = e.size \/ k \in 1 .. e.size-1
      BY <3>2
    <3>4. \A k \in 1 .. e.size : w[k] \in Clusters
      BY <1>5, <2>3, <3>1, <3>3
    <3>5. QED
      BY <2>2, <3>2, <3>4, ChainReaches
  <2> HIDE DEF last
  <2>5. /\ file'[n].open = TRUE /\ file'[n].sclust = e.clust
        /\ file'[n].objsize = e.size /\ file'[n].fptr = e.size /\ file'[n].clust = last
        /\ \A m \in Names \ {n} : file'[m] = file[m]
    BY <1>5 DEF Opened, TypeOK
  <2>6. Safe(n) => e.size >= Len(saved[n])
    <3>1. SUFFICES ASSUME Safe(n) PROVE e.size >= Len(saved[n])
      OBVIOUS
    <3>2. PICK t \in Entries : view.dir[t].name = n /\ view.dir[t].size >= Len(saved[n])
      BY <3>1 DEF Kept, KeptOn, Keeps
    <3>3. t = s
      BY <1>3, <3>2 DEF Good, ViewInv, Directory
    <3>4. QED
      BY <3>2, <3>3
  <2>7. FileKept(n)'
    <3>1. FileKept(n)
      BY DEF Kept
    <3>2. Safe(n)' => Safe(n) /\ saved'[n] = saved[n]
      BY <1>1 DEF Safe
    <3>3. n \in emptied' => ~Safe(n)'
      BY <1>1, <3>1, <3>2 DEF FileKept
    <3>4. Safe(n)' => file'[n].objsize >= Len(saved'[n])
      BY <2>5, <2>6, <3>2
    <3>5. file'[n].clust \in Clusters => Reaches(view'.fat, file'[n].sclust, file'[n].clust)
      BY <1>2, <2>4, <2>5
    <3>6. QED
      BY <3>3, <3>4, <3>5 DEF FileKept
  <2>8. ASSUME NEW m \in Names \ {n} PROVE FileKept(m)'
    BY <1>1, <1>2, <2>1, <2>5, FileStays
  <2>9. QED
    BY <1>1, <1>2, <2>1, <2>7, <2>8, CallEndsKept, KeptSame
<1>6. QED
  BY <1>4, <1>5 DEF OpenAppend

\* A file object that f_open makes of nothing.
LEMMA OpenedFresh ==
  ASSUME TypeOK, SavedLess, NEW n \in Names, NEW s, ~Safe(n)',
         file' = [file EXCEPT ![n] = Opened(s, 0, 0, TRUE)]
  PROVE  FileKept(n)' /\ \A m \in Names \ {n} : file'[m] = file[m]
<1>1. file'[n].fptr = 0 /\ \A m \in Names \ {n} : file'[m] = file[m]
  <2> DEFINE f == Opened(s, 0, 0, TRUE)
  <2>1. f.fptr = 0
    BY DEF Opened
  <2> HIDE DEF f
  <2>2. file' = [file EXCEPT ![n] = f]
    BY DEF f
  <2>3. QED
    BY <2>1, <2>2 DEF TypeOK
<1>2. QED
  BY <1>1, NotPositive, FileFresh

LEMMA CreateNewKeeps ==
  ASSUME TypeOK, Good, Kept, NEW n \in Names, CreateNew(n)
  PROVE  Kept'
<1>1. Idle /\ ~Has(n) /\ call' = NoCall /\ emptied' = emptied /\ saved' = saved
  BY DEF CreateNew, quiet, Idle
<1>2. PICK s \in Entries : \E S :
         /\ FirstFree(s)
         /\ \/ /\ Edit(S, DirSector[s], SetDir(s, Entry(n, 0, 0)))
               /\ file' = [file EXCEPT ![n] = Opened(s, 0, 0, TRUE)]
            \/ DiskError(S) /\ UNCHANGED file
  BY DEF CreateNew
<1>3. PICK S :
        /\ FirstFree(s)
        /\ \/ /\ Edit(S, DirSector[s], SetDir(s, Entry(n, 0, 0)))
              /\ file' = [file EXCEPT ![n] = Opened(s, 0, 0, TRUE)]
           \/ DiskError(S) /\ UNCHANGED file
  BY <1>2
<1>4. CASE DiskError(S) /\ UNCHANGED file
  <2>1. WindowMoved /\ view' = view
    BY <1>4, LookMoves DEF Good
  <2>2. QED
    BY <1>1, <1>4, <2>1, CallEndsQuietly
<1>5. CASE /\ Edit(S, DirSector[s], SetDir(s, Entry(n, 0, 0)))
           /\ file' = [file EXCEPT ![n] = Opened(s, 0, 0, TRUE)]
  <2>1. WindowMoved /\ view' = SetDir(s, Entry(n, 0, 0))
    BY <1>5, EditMoves DEF Good
  <2>2. view'.fat = view.fat /\ \A t \in Entries \ {s} : view'.dir[t] = view.dir[t]
    BY <2>1, SetDirFacts, VolumeAssumption
  <2>3. SavedLess
    BY <1>1, LessStays
  <2>4. ~Safe(n) /\ ~Safe(n)'
    BY <1>1 DEF Kept, KeptOn, Keeps, Has, Safe
  <2>5. view.dir[s].name \notin Names
    BY <1>3, FreeNames DEF FirstFree
  <2>6. KeptOn(view)'
    BY <2>2, <2>3, <2>5, DirKept
  <2>7. FileKept(n)' /\ \A m \in Names \ {n} : file'[m] = file[m]
    BY <1>5, <2>3, <2>4, OpenedFresh
  <2>8. ASSUME NEW m \in Names \ {n} PROVE FileKept(m)'
    BY <1>1, <2>2, <2>3, <2>7, FileStays
  <2>9. QED
    BY <1>1, <2>1, <2>3, <2>6, <2>7, <2>8, CallEndsKept, KeptTogether
<1>6. QED
  BY <1>3, <1>4, <1>5

LEMMA CreateOverKeeps ==
  ASSUME TypeOK, Good, Kept, NEW n \in Names, CreateOver(n)
  PROVE  Kept'
<1> DEFINE s == Slot(n)
           c == view.dir[s].clust
<1>1. Idle /\ Has(n) /\ ~file[n].open /\ emptied' = emptied
  BY DEF CreateOver
<1>2. s \in Entries /\ view.dir[s].name = n
  BY <1>1, SlotFacts
<1>3. CASE DiskError(UpTo(s)) /\ UNCHANGED <<file, call, saved>>
  <2>1. WindowMoved /\ view' = view
    BY <1>3, LookMoves DEF Good
  <2>2. QED
    BY <1>1, <1>3, <2>1, CallEndsQuietly DEF Idle
<1>4. CASE /\ Edit(UpTo(s), DirSector[s], SetDir(s, Entry(n, 0, 0)))
           /\ saved' = [saved EXCEPT ![n] = NotSaved]
           /\ \/ call' = call /\ file' = [file EXCEPT ![n] = Opened(s, 0, 0, TRUE)]
              \/ call' = Calling("create", "remove", n, c, 0) /\ file' = file
  <2>1. WindowMoved /\ view' = SetDir(s, Entry(n, 0, 0))
    BY <1>4, EditMoves DEF Good
  <2>2. view'.fat = view.fat /\ \A t \in Entries \ {s} : view'.dir[t] = view.dir[t]
    <3>1. 0 \in {0} \cup Clusters /\ 0 \in 0..MaxSize /\ n \in Names \cup {Blank, Deleted}
      BY NumberOfPlaces
    <3>2. QED
      BY <1>2, <2>1, <3>1, SetDirFacts
  <2>3. SavedLess /\ ~Safe(n)'
    BY <1>4, LessStays DEF Kept, Safe
  <2>4. KeptOn(view)'
    BY <1>2, <2>2, <2>3, DirKept
  <2>5. \A m \in Names \ {n} : file'[m] = file[m]
    BY <1>4, <2>3, OpenedFresh
  <2>6. FileKept(n)'
    BY <1>1, <1>4, <2>3, OpenedFresh, FileShut
  <2>7. ASSUME NEW m \in Names \ {n} PROVE FileKept(m)'
    BY <1>1, <2>2, <2>3, <2>5, FileStays
  <2>8. CallKept'
    <3>1. CASE call' = call
      BY <1>1, <3>1, CallEndsKept DEF Idle
    <3>2. CASE call' = Calling("create", "remove", n, c, 0)
      <4>1. call'.at = "remove" /\ call'.name = n
        BY <3>2 DEF Calling
      <4>2. QED
        BY <2>3, <4>1 DEF CallKept, At
    <3>3. QED
      BY <1>4, <3>1, <3>2
  <2>9. QED
    BY <2>1, <2>3, <2>4, <2>6, <2>7, <2>8, KeptTogether
<1>5. QED
  BY <1>3, <1>4 DEF CreateOver

LEMMA BackToEntryKeeps ==
  ASSUME TypeOK, Good, Kept, BackToEntry
  PROVE  Kept'
<1>0. PICK n \in Names : At("back") /\ n = call.name
  BY DEF BackToEntry, Good, CallInv, At, Idle, NoCall
<1> DEFINE s == Slot(n)
<1>1. At("back") /\ call' = NoCall /\ emptied' = emptied /\ saved' = saved
  BY DEF BackToEntry, quiet, Returns
<1>2. WindowMoved /\ view' = view
  BY LookMoves DEF BackToEntry, Good
<1>4. CASE file' = file
  BY <1>1, <1>2, <1>4, CallEndsQuietly
<1>5. CASE file' = [file EXCEPT ![n] = Opened(s, 0, 0, TRUE)]
  <2>1. ~Safe(n) /\ ~Safe(n)'
    BY <1>0, <1>1 DEF Kept, CallKept, Safe
  <2>2. SavedLess
    BY <1>1, LessStays
  <2>3. FileKept(n)' /\ \A m \in Names \ {n} : file'[m] = file[m]
    BY <1>5, <2>1, <2>2, OpenedFresh
  <2>4. ASSUME NEW m \in Names \ {n} PROVE FileKept(m)'
    BY <1>1, <1>2, <2>2, <2>3, FileStays
  <2>5. QED
    BY <1>1, <1>2, <2>2, <2>3, <2>4, CallEndsKept, KeptSame
<1>6. QED
  BY <1>0, <1>4, <1>5 DEF BackToEntry

\* f_truncate ends: nothing of the file is safe, and it is where it was.
LEMMA FileEndsKept ==
  ASSUME TypeOK, Kept, NEW n \in Names, NEW failed \in BOOLEAN, FileEnds(n, failed),
         ~Safe(n)',
         file[n].open /\ file[n].fptr > 0 /\ file[n].clust \in Clusters
         /\ Reaches(view.fat, file[n].sclust, file[n].clust)
         => Reaches(view'.fat, file[n].sclust, file[n].clust)
  PROVE  FileKept(n)' /\ \A m \in Names \ {n} : file'[m] = file[m]
<1> DEFINE g == IF file[n].fptr = 0 THEN 0 ELSE file[n].sclust
           f == [file[n] EXCEPT !.objsize = file[n].fptr, !.modified = TRUE,
                                !.sclust = g, !.err = failed]
<1>1. file[n] \in File /\ file \in [Names -> File]
  BY DEF TypeOK
<1>2. file' = [file EXCEPT ![n] = f]
  BY <1>1 DEF FileEnds
<1>3. f.open = file[n].open /\ f.fptr = file[n].fptr /\ f.sclust = g /\ f.clust = file[n].clust
  BY <1>1 DEF File
<1> HIDE DEF f
<1>4. file'[n] = f /\ \A m \in Names \ {n} : file'[m] = file[m]
  BY <1>1, <1>2
<1>5. FileKept(n)
  BY DEF Kept
<1>6. ASSUME file'[n].open, file'[n].fptr > 0, file'[n].clust \in Clusters
      PROVE  Reaches(view'.fat, file'[n].sclust, file'[n].clust)
  <2>1. file[n].fptr > 0 /\ file[n].fptr # 0 /\ file'[n].sclust = file[n].sclust
    BY <1>3, <1>4, <1>6, NotPositive
  <2>2. QED
    BY <1>3, <1>4, <1>5, <1>6, <2>1 DEF FileKept
<1>7. QED
  BY <1>4, <1>6 DEF FileKept

LEMMA RemoveClusterKeeps ==
  ASSUME TypeOK, Good, Kept, RemoveCluster
  PROVE  Kept'
<1>1. At("remove") /\ emptied' = emptied /\ saved' = saved
  BY DEF RemoveCluster, quiet
<1>2. PICK n \in Names, c \in Clusters :
        /\ n = call.name /\ c = call.clst
        /\ Unreferred(view.fat, Own, c) /\ ~Safe(n)
        /\ call.op \in {"create", "unlink", "truncate"}
  BY <1>1 DEF Good, CallInv, Loose, Kept, CallKept, At, Idle, NoCall
<1>3. WindowMoved /\ view'.dir = view.dir
      /\ \A b \in Clusters \ {c} : view'.fat[b] = view.fat[b]
  <2>1. \/ Look({FatSector[c]}, FatSector[c]) \/ DiskError({FatSector[c]})
        \/ Edit({FatSector[c]}, FatSector[c], SetFat(c, 0))
    BY <1>2 DEF RemoveCluster
  <2>2. CASE Look({FatSector[c]}, FatSector[c]) \/ DiskError({FatSector[c]})
    BY <2>2, LookMoves DEF Good
  <2>3. CASE Edit({FatSector[c]}, FatSector[c], SetFat(c, 0))
    <3>1. WindowMoved /\ view' = SetFat(c, 0)
      BY <2>3, EditMoves DEF Good
    <3>2. view'.dir = view.dir /\ view'.fat = [view.fat EXCEPT ![c] = 0] /\ view.fat \in Fats
      BY <3>1, SetFatFacts
    <3>3. QED
      BY <3>1, <3>2 DEF Fats
  <2>4. QED
    BY <2>1, <2>2, <2>3
<1>4. file' = file \/ FileEnds(n, FALSE) \/ FileEnds(n, TRUE)
  <2>1. ChainGone \/ ChainStays \/ file' = file
    BY DEF RemoveCluster
  <2>2. CASE ChainStays
    BY <1>2, <2>2 DEF ChainStays
  <2>3. CASE ChainGone
    BY <1>2, <2>3 DEF ChainGone
  <2>4. QED
    BY <2>1, <2>2, <2>3
<1>5. CallKept'
  <2>1. \/ ChainGone \/ ChainStays
        \/ \E x \in Clusters : Goes("remove", x, 0)
    BY DEF RemoveCluster
  <2>2. CASE ChainStays
    BY <2>2, CallEndsKept DEF ChainStays, Returns
  <2>3. CASE ChainGone /\ call.op = "truncate"
    BY <2>3, CallEndsKept DEF ChainGone, Returns
  <2>4. CASE ChainGone /\ call.op \in {"create", "unlink"}
    <3>1. /\ call'.at \in {"back", "sync"} /\ call'.name = n
          /\ call'.at = "sync" => call'.op = "unlink"
      BY <1>2, <2>4 DEF ChainGone, Goes, TypeOK, Call
    <3>2. QED
      BY <1>1, <1>2, <3>1 DEF CallKept, At, Safe
  <2>5. CASE \E x \in Clusters : Goes("remove", x, 0)
    <3>1. call'.at = "remove" /\ call'.name = n
      BY <1>2, <2>5 DEF Goes, TypeOK, Call
    <3>2. QED
      BY <1>1, <1>2, <3>1 DEF CallKept, At, Safe
  <2>6. QED
    BY <1>2, <2>1, <2>2, <2>3, <2>4, <2>5
<1>6. SavedLess
  BY <1>1, LessStays
<1>7. KeptOn(view)'
  <2>1. ASSUME NEW m \in Names, NEW s \in Entries, Safe(m)', Leads(view.fat, Own[s], saved[m])
        PROVE  Leads(view'.fat, Own[s], saved[m])
    BY <1>2, <1>3, <1>6, <2>1, LessIsSafe, SavedFacts, LeadsWithout
  <2>2. QED
    BY <1>3, <1>6, <2>1, TableKept
<1>8. ASSUME NEW m \in Names, file[m].open, file[m].fptr > 0,
             Reaches(view.fat, file[m].sclust, file[m].clust)
      PROVE  Reaches(view'.fat, file[m].sclust, file[m].clust)
  <2>1. ~Emptying(m)
    BY <1>8, NotPositive DEF Emptying
  <2>2. PICK s \in Entries : Own[s] = file[m].sclust
    BY <1>8, <2>1, FileOwns
  <2>3. PICK fat, fat2, own, x :
          fat = view.fat /\ fat2 = view'.fat /\ own = Own /\ x = file[m].clust
    OBVIOUS
  <2>4. /\ Reaches(fat, own[s], x) /\ Unreferred(fat, own, c)
        /\ \A b \in Clusters \ {c} : fat2[b] = fat[b]
    BY <1>2, <1>3, <1>8, <2>2, <2>3
  <2>5. Reaches(fat2, own[s], x)
    BY ONLY <2>4, s \in Entries, c \in Clusters, ReachesWithout
  <2>6. QED
    BY <2>2, <2>3, <2>5
<1>9. ASSUME NEW m \in Names, file'[m] = file[m] PROVE FileKept(m)'
  BY <1>1, <1>6, <1>8, <1>9, FileStays
<1>10. ASSUME NEW m \in Names PROVE FileKept(m)'
  <2>1. CASE file' = file
    BY <1>9, <2>1
  <2>2. CASE FileEnds(n, FALSE) \/ FileEnds(n, TRUE)
    <3>1. ~Safe(n)'
      BY <1>1, <1>2 DEF Safe
    <3>2. FileKept(n)' /\ \A k \in Names \ {n} : file'[k] = file[k]
      BY <1>8, <2>2, <3>1, FileEndsKept
    <3>3. QED
      BY <1>9, <3>2
  <2>3. QED
    BY <1>4, <2>1, <2>2
<1>11. QED
  BY <1>3, <1>5, <1>6, <1>7, <1>10, KeptTogether

LEMMA WriteHereKeeps ==
  ASSUME TypeOK, Good, Kept, NEW n \in Names, WriteHere(n)
  PROVE  Kept'
<1> DEFINE f == file[n]
           c == IF f.fptr = 0 THEN f.sclust ELSE view.fat[f.clust]
<1>1. /\ Idle /\ f.open /\ c \in Clusters /\ emptied' = emptied /\ saved' = saved
      /\ f.fptr = 0 \/ f.clust \in Clusters
  BY DEF WriteHere, MayWrite, quiet
<1>2. WindowMoved /\ view' = view
  BY LookMoves DEF WriteHere, Good
<1>3. CASE Aborts(n) /\ call' = call
  BY <1>1, <1>2, <1>3, CallEndsQuietly DEF Idle
<1>4. CASE file' = file /\ call' = Calling("write", "data", n, c, 0)
  <2>1. call'.at = "data" /\ call'.name = n /\ call'.clst = c
    BY <1>4 DEF Calling
  <2>2. Reaches(view.fat, f.sclust, c)
    <3>1. CASE f.fptr = 0
      BY <3>1 DEF Reaches
    <3>2. CASE f.fptr # 0
      <4>1. f.fptr > 0
        BY <3>2 DEF TypeOK, File
      <4>2. Reaches(view.fat, f.sclust, f.clust)
        BY <1>1, <3>2, <4>1 DEF Kept, FileKept
      <4>3. QED
        BY <1>1, <3>2, <4>2, ReachesNext
    <3>3. QED
      BY <3>1, <3>2
  <2>3. CallKept'
    BY <1>2, <1>4, <2>1, <2>2 DEF CallKept, At
  <2>4. SavedLess
    BY <1>1, LessStays
  <2>5. ASSUME NEW m \in Names PROVE FileKept(m)'
    BY <1>1, <1>2, <1>4, <2>4, FileStays
  <2>6. QED
    BY <1>2, <2>3, <2>4, <2>5, KeptSame
<1>5. QED
  BY <1>3, <1>4 DEF WriteHere

LEMMA WriteInsaneKeeps ==
  ASSUME TypeOK, Good, Kept, NEW n \in Names, WriteInsane(n)
  PROVE  Kept'
<1>1. Idle /\ emptied' = emptied /\ saved' = saved /\ call' = NoCall /\ Aborts(n)
  BY DEF WriteInsane, MayWrite, quiet, Idle
<1>2. WindowMoved /\ view' = view
  BY LookMoves DEF WriteInsane, Good
<1>3. QED
  BY <1>1, <1>2, CallEndsQuietly

LEMMA WriteFullKeeps ==
  ASSUME TypeOK, Good, Kept, NEW n \in Names, WriteFull(n)
  PROVE  Kept'
<1>1. /\ emptied' = emptied /\ saved' = saved /\ call' = NoCall
      /\ file' = [file EXCEPT ![n].modified = TRUE]
  BY DEF WriteFull, MayGrow, MayWrite, quiet, Idle
<1>2. WindowMoved /\ view' = view
  <2>1. \/ \E S, s : Look(S, s)
        \/ UNCHANGED window
    BY DEF WriteFull
  <2>2. QED
    BY <2>1, LookMoves DEF Good
<1>3. QED
  BY <1>1, <1>2, CallEndsQuietly

\* The table is written where nothing led to a cluster: no chain is changed.
LEMMA ChainsGrow ==
  ASSUME TypeOK, Good, Kept, SavedLess, file' = file, emptied' = emptied,
         view'.dir = view.dir,
         \A b \in Clusters : view.fat[b] \in Clusters => view'.fat[b] = view.fat[b]
  PROVE  /\ KeptOn(view)' /\ \A m \in Names : FileKept(m)'
         /\ \A c, x : Reaches(view.fat, c, x) => Reaches(view'.fat, c, x)
<1>1. ASSUME NEW m \in Names, NEW s \in Entries, Safe(m)', Leads(view.fat, Own[s], saved[m])
      PROVE  Leads(view'.fat, Own[s], saved[m])
  BY <1>1, LessIsSafe, SavedFacts, LeadsStill
<1>2. KeptOn(view)'
  BY <1>1, TableKept
<1>3. ASSUME NEW c, NEW x, Reaches(view.fat, c, x) PROVE Reaches(view'.fat, c, x)
  BY <1>3, ReachesStill
<1>4. ASSUME NEW m \in Names PROVE FileKept(m)'
  BY <1>3, FileStays
<1>5. QED
  BY <1>2, <1>3, <1>4

LEMMA WriteNewKeeps ==
  ASSUME TypeOK, Good, Kept, NEW n \in Names, WriteNew(n)
  PROVE  Kept'
<1> DEFINE f == file[n]
<1>1. /\ Idle /\ f.open /\ emptied' = emptied /\ saved' = saved
      /\ IF f.fptr = 0 THEN f.sclust = 0
         ELSE f.clust \in Clusters /\ view.fat[f.clust] = EOC
  BY DEF WriteNew, MayGrow, MayWrite, quiet
<1>2. SavedLess
  BY <1>1, LessStays
<1>3. PICK S :
        \/ \E c \in Clusters :
             /\ view.fat[c] = 0
             /\ Edit(S, FatSector[c], SetFat(c, EOC))
             /\ IF f.fptr = 0 THEN Allocated(n, c)
                ELSE call' = Calling("write", "link", n, c, f.clust)
             /\ UNCHANGED file
        \/ DiskError(S) /\ Aborts(n) /\ UNCHANGED call
  BY DEF WriteNew
<1>4. CASE DiskError(S) /\ Aborts(n) /\ UNCHANGED call
  <2>1. WindowMoved /\ view' = view
    BY <1>4, LookMoves DEF Good
  <2>2. QED
    BY <1>1, <1>4, <2>1, CallEndsQuietly DEF Idle
<1>5. ASSUME NEW c \in Clusters, view.fat[c] = 0,
             Edit(S, FatSector[c], SetFat(c, EOC)), file' = file,
             IF f.fptr = 0 THEN Allocated(n, c)
             ELSE call' = Calling("write", "link", n, c, f.clust)
      PROVE  Kept'
  <2>1. WindowMoved /\ view' = SetFat(c, EOC)
    BY <1>5, EditMoves DEF Good
  <2>2. /\ view'.dir = view.dir
        /\ view'.fat = [view.fat EXCEPT ![c] = EOC] /\ view.fat \in Fats
    BY <2>1, SetFatFacts
  <2>3. \A b \in Clusters : view.fat[b] \in Clusters => view'.fat[b] = view.fat[b]
    BY <1>5, <2>2, Numbers DEF Fats
  <2>4. /\ KeptOn(view)' /\ \A m \in Names : FileKept(m)'
        /\ \A d, x : Reaches(view.fat, d, x) => Reaches(view'.fat, d, x)
    BY <1>1, <1>2, <1>5, <2>2, <2>3, ChainsGrow
  <2>5. CallKept'
    <3>1. CASE f.fptr = 0
      <4>1. call'.at = "data" /\ call'.name = n /\ file'[n].sclust = 0
        BY <1>1, <1>5, <3>1 DEF Allocated, Calling
      <4>2. QED
        BY <4>1 DEF CallKept, At
    <3>2. CASE f.fptr # 0
      <4>1. call'.at = "link" /\ call'.name = n /\ call'.ncl = f.clust
        BY <1>5, <3>2 DEF Calling
      <4>2. f.fptr > 0
        BY <3>2 DEF TypeOK, File
      <4>3. Reaches(view.fat, f.sclust, f.clust)
        BY <1>1, <3>2, <4>2 DEF Kept, FileKept
      <4>4. QED
        BY <1>5, <2>4, <4>1, <4>3 DEF CallKept, At
    <3>3. QED
      BY <3>1, <3>2
  <2>6. QED
    BY <1>2, <2>1, <2>4, <2>5, KeptTogether
<1>6. QED
  BY <1>3, <1>4, <1>5

LEMMA LinkNewKeeps ==
  ASSUME TypeOK, Good, Kept, LinkNew
  PROVE  Kept'
<1>1. At("link") /\ emptied' = emptied /\ saved' = saved
  BY DEF LinkNew, quiet
<1>2. PICK n \in Names, b \in Clusters, c \in Clusters :
        /\ n = call.name /\ b = call.ncl /\ c = call.clst /\ view.fat[b] = EOC
        /\ Reaches(view.fat, file[n].sclust, b)
  BY <1>1 DEF Good, CallInv, Loose, Kept, CallKept, At, Idle, NoCall
<1>3. SavedLess
  BY <1>1, LessStays
<1>4. CASE DiskError({FatSector[b]}) /\ Aborts(n) /\ Returns
  <2>1. WindowMoved /\ view' = view
    BY <1>4, LookMoves DEF Good
  <2>2. QED
    BY <1>1, <1>4, <2>1, CallEndsQuietly DEF Returns
<1>5. CASE /\ Edit({FatSector[b]}, FatSector[b], SetFat(b, c))
           /\ Allocated(n, c) /\ file' = file
  <2>1. WindowMoved /\ view' = SetFat(b, c)
    BY <1>5, EditMoves DEF Good
  <2>2. /\ view'.dir = view.dir
        /\ view'.fat = [view.fat EXCEPT ![b] = c] /\ view.fat \in Fats
    BY <2>1, SetFatFacts
  <2>3. \A a \in Clusters : view.fat[a] \in Clusters => view'.fat[a] = view.fat[a]
    BY <1>2, <2>2, Numbers DEF Fats
  <2>4. /\ KeptOn(view)' /\ \A m \in Names : FileKept(m)'
        /\ \A d, x : Reaches(view.fat, d, x) => Reaches(view'.fat, d, x)
    BY <1>1, <1>3, <1>5, <2>2, <2>3, ChainsGrow
  <2>5. Reaches(view'.fat, file[n].sclust, c)
    <3>1. view'.fat[b] = c /\ Reaches(view'.fat, file[n].sclust, b)
      BY <1>2, <2>2, <2>4 DEF Fats
    <3>2. QED
      BY <3>1, ReachesNext
  <2>6. call'.at = "data" /\ call'.name = n /\ call'.clst = c
    BY <1>5 DEF Allocated, Calling
  <2>7. CallKept'
    BY <1>5, <2>5, <2>6 DEF CallKept, At
  <2>8. QED
    BY <1>3, <2>1, <2>4, <2>7, KeptTogether
<1>6. QED
  BY <1>2, <1>4, <1>5 DEF LinkNew

LEMMA WriteDataKeeps ==
  ASSUME TypeOK, Good, Kept, WriteData
  PROVE  Kept'
<1>1. At("data") /\ emptied' = emptied /\ saved' = saved /\ call' = NoCall
      /\ view' = view /\ disk' = disk /\ wflag' = wflag
  BY DEF WriteData, quiet, Returns
<1>2. PICK n \in Names, c \in Clusters : n = call.name /\ c = call.clst /\ file[n].open
  BY <1>1 DEF Good, CallInv, Idle, NoCall, At
<1>3. WindowMoved
  BY <1>1 DEF WindowMoved, Good, DiskInv, TypeOK
<1>4. SavedLess
  BY <1>1, LessStays
<1> DEFINE y == IF file[n].sclust = 0 THEN c ELSE file[n].sclust
           z == file[n].fptr + 1
           l == IF z > file[n].objsize THEN z ELSE file[n].objsize
<1>5. /\ file'[n].clust = c /\ file'[n].sclust = y
      /\ file'[n].objsize \in {l, file[n].objsize}
      /\ \A m \in Names \ {n} : file'[m] = file[m]
  <2> DEFINE g == [file[n] EXCEPT !.clust = c, !.sclust = IF @ = 0 THEN c ELSE @]
  <2>1. file[n] \in File /\ file \in [Names -> File]
    BY DEF TypeOK
  <2>2. g.clust = c /\ g.sclust = y /\ g.objsize = file[n].objsize /\ g.fptr = file[n].fptr
        /\ DOMAIN g = DOMAIN file[n]
    BY <2>1 DEF File
  <2>3. \/ file' = [file EXCEPT ![n] =
                      [g EXCEPT !.fptr = z, !.modified = TRUE,
                                !.objsize = IF z > @ THEN z ELSE @]]
        \/ file' = [file EXCEPT ![n] = [g EXCEPT !.err = TRUE]]
    BY <1>2 DEF WriteData
  <2>4. g \in [DOMAIN g -> {g[x] : x \in DOMAIN g}] /\ {"clust", "sclust", "objsize", "fptr"} \subseteq DOMAIN g
    BY <2>1 DEF File
  <2> HIDE DEF g, y, z
  <2>5. CASE file' = [file EXCEPT ![n] = [g EXCEPT !.err = TRUE]]
    <3> DEFINE h == [g EXCEPT !.err = TRUE]
    <3>1. h.clust = c /\ h.sclust = y /\ h.objsize = file[n].objsize
      BY <2>2, <2>4
    <3>2. file' = [file EXCEPT ![n] = h]
      BY <2>5
    <3> HIDE DEF h
    <3>3. QED
      BY <2>1, <3>1, <3>2
  <2>6. CASE file' = [file EXCEPT ![n] =
                        [g EXCEPT !.fptr = z, !.modified = TRUE,
                                  !.objsize = IF z > @ THEN z ELSE @]]
    <3> DEFINE h == [g EXCEPT !.fptr = z, !.modified = TRUE,
                              !.objsize = IF z > @ THEN z ELSE @]
    <3>1. h.clust = c /\ h.sclust = y /\ h.objsize = l
      BY <2>2, <2>4
    <3>2. file' = [file EXCEPT ![n] = h]
      BY <2>6
    <3> HIDE DEF h, l
    <3>3. QED
      BY <2>1, <3>1, <3>2
  <2>7. QED
    BY <2>3, <2>5, <2>6
<1>6. file'[n].objsize \in Nat /\ file'[n].objsize >= file[n].objsize /\ file[n].objsize \in Nat
  <2>1. file[n].fptr \in Nat /\ file[n].objsize \in Nat
    BY DEF TypeOK, File
  <2>2. QED
    BY <1>5, <2>1
<1>7. Reaches(view.fat, y, c)
  <2>1. CASE file[n].sclust = 0
    BY <2>1 DEF Reaches
  <2>2. CASE file[n].sclust # 0
    BY <1>1, <1>2, <2>2 DEF Kept, CallKept
  <2>3. QED
    BY <2>1, <2>2
<1>8. FileKept(n)'
  <2>1. FileKept(n)
    BY DEF Kept
  <2>2. Safe(n)' => Safe(n) /\ saved'[n] = saved[n] /\ Len(saved[n]) \in Nat
    BY <1>4, LessIsSafe, SavedFacts
  <2>3. n \in emptied' => ~Safe(n)'
    BY <1>1, <2>1, <2>2 DEF FileKept
  <2>4. Safe(n)' => file'[n].objsize >= Len(saved'[n])
    <3>1. Safe(n) => file[n].objsize >= Len(saved[n])
      BY <1>2, <2>1 DEF FileKept
    <3>2. QED
      BY <1>6, <2>2, <3>1
  <2>5. Reaches(view'.fat, file'[n].sclust, file'[n].clust)
    BY <1>1, <1>5, <1>7
  <2>6. QED
    BY <2>3, <2>4, <2>5 DEF FileKept
<1>9. ASSUME NEW m \in Names \ {n} PROVE FileKept(m)'
  BY <1>1, <1>4, <1>5, FileStays
<1>10. QED
  BY <1>1, <1>3, <1>4, <1>8, <1>9, CallEndsKept, KeptSame

LEMMA SeekKeeps ==
  ASSUME TypeOK, Good, Kept, NEW n \in Names, NEW k \in 0..MaxSize, Seek(n, k)
  PROVE  Kept'
<1> DEFINE f == file[n]
<1>1. f.open /\ k <= f.objsize /\ emptied' = emptied /\ saved' = saved /\ call' = NoCall
  BY DEF Seek, quiet, Idle
<1>2. WindowMoved /\ view' = view
  <2>1. \/ \E S, s : Look(S, s) \/ DiskError(S)
        \/ UNCHANGED window
    BY DEF Seek
  <2>2. QED
    BY <2>1, LookMoves DEF Good
<1>3. CASE Aborts(n)
  BY <1>1, <1>2, <1>3, CallEndsQuietly
<1>4. CASE ~Aborts(n)
  <2>1. f \in File /\ file \in [Names -> File] /\ k \in Nat /\ f.fptr \in Nat
    BY DEF TypeOK, File
  <2> DEFINE from == IF f.fptr > 0 /\ k >= f.fptr THEN f.fptr ELSE 1
             c == IF from = 1 THEN f.sclust ELSE f.clust
             w == Chain(view.fat, c)
  <2>2. PICK x : /\ file' = [file EXCEPT ![n].fptr = k, ![n].clust = x]
                 /\ k > 0 /\ x \in Clusters => Reaches(view.fat, f.sclust, x)
    <3>1. /\ \A j \in 1 .. k-from+1 : w[j] \in Clusters
          /\ file' = [file EXCEPT ![n].fptr = k,
                                  ![n].clust = IF k = 0 THEN @ ELSE w[k-from+1]]
      BY <1>4 DEF Seek
    <3>2. CASE k = 0
      <4> DEFINE y == IF k = 0 THEN f.clust ELSE w[k-from+1]
      <4>0. f.clust = file[n].clust /\ y = f.clust
        BY <3>2
      <4> HIDE DEF w, from
      <4>a. file' = [file EXCEPT ![n].fptr = k, ![n].clust = y]
        BY <3>1
      <4> HIDE DEF y
      <4>1. file' = [file EXCEPT ![n].fptr = k, ![n].clust = f.clust]
        BY <4>0, <4>a
      <4>2. QED
        BY <3>2, <4>1, NotPositive
    <3>3. CASE k # 0
      <4>1. PICK i \in Places : i = k-from+1
        <5>1. from \in Nat /\ from >= 1 /\ from <= k
          BY <2>1, <3>3
        <5>2. k-from+1 \in Places
          BY <5>1, NumberOfPlaces DEF Places
        <5>3. QED
          BY <5>2
      <4>2. view.fat \in Fats
        BY DEF TypeOK, Volume, Fats
      <4>3. 1 \in 1..i
        BY <4>1, NumberOfPlaces DEF Places
      <4>4. w[1] \in Clusters /\ \A j \in 1..i : w[j] \in Clusters
        BY <3>1, <4>1, <4>3
      <4>5. CASE from = 1
        <5>1. c \in {0} \cup Clusters /\ c = f.sclust
          BY <2>1, <4>5 DEF File
        <5> HIDE DEF c
        <5>2. Reaches(view.fat, c, w[i])
          BY <4>2, <4>4, <5>1, ChainReaches
        <5>3. QED
          BY <3>1, <3>3, <4>1, <5>1, <5>2
      <4>6. CASE from # 1
        <5>1. c = f.clust /\ f.fptr > 0
          BY <4>6
        <5>2. c \in Clusters
          <6>1. c \in {0} \cup Clusters \/ c = EOC
            BY <2>1, <5>1 DEF File
          <6>2. w[1] = c
            BY <4>2, <6>1, ChainIs DEF Fetched
          <6>3. QED
            BY <4>4, <6>2
        <5>3. Reaches(view.fat, f.sclust, c)
          BY <1>1, <5>1, <5>2 DEF Kept, FileKept
        <5> HIDE DEF c
        <5>4. Reaches(view.fat, c, w[i])
          BY <4>2, <4>4, <5>2, ChainReaches
        <5>5. Reaches(view.fat, f.sclust, w[i])
          BY <5>3, <5>4, ReachesFurther
        <5>6. QED
          BY <3>1, <3>3, <4>1, <5>5
      <4>7. QED
        BY <4>5, <4>6
    <3>4. QED
      BY <3>2, <3>3
  <2> HIDE DEF w, c, from
  <2>3. /\ file'[n].open = f.open /\ file'[n].sclust = f.sclust
        /\ file'[n].fptr = k /\ file'[n].clust = x /\ file'[n].objsize = f.objsize
        /\ \A m \in Names \ {n} : file'[m] = file[m]
    BY <2>1, <2>2 DEF File
  <2>4. SavedLess
    BY <1>1, LessStays
  <2>5. FileKept(n)'
    <3>1. FileKept(n) /\ (Safe(n)' => Safe(n) /\ saved'[n] = saved[n])
      BY <2>4, LessIsSafe DEF Kept
    <3>2. QED
      BY <1>1, <1>2, <2>2, <2>3, <3>1 DEF FileKept
  <2>6. ASSUME NEW m \in Names \ {n} PROVE FileKept(m)'
    BY <1>1, <1>2, <2>3, <2>4, FileStays
  <2>7. QED
    BY <1>1, <1>2, <2>4, <2>5, <2>6, CallEndsKept, KeptSame
<1>5. QED
  BY <1>3, <1>4

LEMMA TruncateKeeps ==
  ASSUME TypeOK, Good, Kept, NEW n \in Names, Truncate(n)
  PROVE  Kept'
<1> DEFINE f == file[n]
           c == f.clust
           S == {FatSector[c]}
           nxt == view.fat[c]
           all == f.fptr = 0 /\ f.sclust # 0
<1>1. /\ Idle /\ f.open /\ saved' = [saved EXCEPT ![n] = NotSaved]
      /\ emptied' \subseteq emptied \cup {n}
  BY DEF Truncate
<1>2. SavedLess /\ ~Safe(n)'
  BY <1>1, LessStays DEF Kept, Safe
<1>3. CASE UNCHANGED <<window, file>> /\ call' = Calling("truncate", "remove", n, f.sclust, 0)
  <2>1. WindowMoved /\ view' = view
    BY <1>3, LookMoves DEF Good
  <2>2. call'.at = "remove" /\ call'.name = n
    BY <1>3 DEF Calling
  <2>3. CallKept'
    BY <1>2, <2>2 DEF CallKept, At
  <2>4. FileKept(n)'
    BY <1>2, <1>3, <2>1 DEF Kept, FileKept
  <2>5. ASSUME NEW m \in Names \ {n} PROVE FileKept(m)'
    BY <1>1, <1>2, <1>3, <2>1, FileStays
  <2>6. QED
    BY <1>2, <2>1, <2>3, <2>4, <2>5, KeptSame
<1>4. CASE /\ WindowMoved /\ view' = view /\ call' = call
           /\ FileEnds(n, TRUE) \/ FileEnds(n, FALSE)
  <2>1. FileKept(n)' /\ \A m \in Names \ {n} : file'[m] = file[m]
    BY <1>2, <1>4, FileEndsKept
  <2>2. ASSUME NEW m \in Names \ {n} PROVE FileKept(m)'
    BY <1>1, <1>2, <1>4, <2>1, FileStays
  <2>3. QED
    BY <1>1, <1>2, <1>4, <2>1, <2>2, CallEndsKept, KeptSame DEF Idle
<1>5. CASE /\ nxt \in Clusters /\ c \in Clusters /\ f.fptr # 0
           /\ CutAfter(c, S)
           /\ call' = Calling("truncate", "remove", n, nxt, 0)
           /\ file' = file
  <2>1. WindowMoved /\ view' = SetFat(c, EOC)
    BY <1>5, EditMoves DEF Good, CutAfter
  <2>2. PICK b \in Clusters : b = c
    BY <1>5
  <2>3. /\ view'.dir = view.dir
        /\ view'.fat = [view.fat EXCEPT ![b] = EOC] /\ view.fat \in Fats
    BY <2>1, <2>2, SetFatFacts
  <2>4. f.fptr > 0 /\ f.sclust # 0
    BY <1>5 DEF TypeOK, File, Good, FileInv
  <2>5. PICK s \in Entries : view.dir[s].name = n /\ Own[s] = f.sclust
    BY <1>1, IdleFacts, FileOwns
  <2>6. Reaches(view.fat, Own[s], b) /\ Own[s] # 0 /\ Own \in Owns /\ OneOwner(view.fat, Own)
    BY <1>1, <1>5, <2>2, <2>4, <2>5, OwnType DEF Kept, FileKept, Good, ViewInv, InOrder
  <2>7. ASSUME NEW m \in Names, file[m].open, file[m].fptr > 0, file[m].clust \in Clusters,
               Reaches(view.fat, file[m].sclust, file[m].clust)
        PROVE  Reaches(view'.fat, file[m].sclust, file[m].clust)
    <3>1. PICK t \in Entries : view.dir[t].name = m /\ Own[t] = file[m].sclust
      BY <1>1, <2>7, IdleFacts, FileOwns
    <3>2. Own[t] # 0
      BY <2>7, <3>1 DEF Good, FileInv
    <3>3. PICK x \in Clusters : x = file[m].clust
      BY <2>7
    <3>4. s = t => x = b
      BY <2>2, <2>5, <3>1, <3>3
    <3>5. Reaches(view.fat, Own[t], x)
      BY <2>7, <3>1, <3>3
    <3>6. Reaches([view.fat EXCEPT ![b] = EOC], Own[t], x)
      BY ONLY <2>3, <2>6, <3>2, <3>4, <3>5, s \in Entries, t \in Entries, b \in Clusters,
              x \in Clusters, ReachesCut
    <3>7. QED
      BY <2>3, <3>1, <3>3, <3>6
  <2>8. ASSUME NEW m \in Names, NEW t \in Entries, Safe(m)', view.dir[t].name = m, Own[t] # 0,
               Leads(view.fat, Own[t], saved[m])
        PROVE  Leads(view'.fat, Own[t], saved[m])
    <3>1. m # n /\ Safe(m) /\ s # t
      BY <1>2, <2>5, <2>8, LessIsSafe
    <3>2. PICK q \in Seq(Clusters) : q = saved[m]
      BY <3>1, SavedFacts
    <3>3. \A i \in 1 .. Len(q) : q[i] # b
      BY <2>6, <2>8, <3>1, <3>2, LeadsApart
    <3>4. ASSUME NEW i \in 1 .. Len(q)-1, q # <<>> PROVE view'.fat[q[i]] = q[i+1]
      <4>1. i \in 1 .. Len(q) /\ q[i] \in Clusters
        BY SavedSequence
      <4>2. view.fat[q[i]] = q[i+1]
        BY <2>8, <3>2, <3>4 DEF Leads
      <4>3. QED
        BY <2>3, <3>3, <4>1, <4>2 DEF Fats
    <3>5. QED
      BY <2>8, <3>2, <3>4 DEF Leads
  <2>9. KeptOn(view)'
    BY <1>2, <2>3, <2>8, TableKept
  <2>10. FileKept(n)'
    BY <1>1, <1>2, <1>5, <2>7 DEF Kept, FileKept
  <2>11. ASSUME NEW m \in Names \ {n} PROVE FileKept(m)'
    BY <1>1, <1>2, <1>5, <2>7, FileStays
  <2>12. call'.at = "remove" /\ call'.name = n
    BY <1>5 DEF Calling
  <2>13. CallKept'
    BY <1>2, <2>12 DEF CallKept, At
  <2>14. QED
    BY <1>2, <2>1, <2>9, <2>10, <2>11, <2>13, KeptTogether
<1>6. \/ UNCHANGED <<window, file>> /\ call' = Calling("truncate", "remove", n, f.sclust, 0)
      \/ FileEnds(n, TRUE) /\ UNCHANGED <<window, call>>
      \/ Look(S, FatSector[c]) /\ (FileEnds(n, TRUE) \/ FileEnds(n, FALSE)) /\ UNCHANGED call
      \/ DiskError(S) /\ FileEnds(n, TRUE) /\ UNCHANGED call
      \/ /\ nxt \in Clusters /\ c \in Clusters /\ f.fptr # 0
         /\ CutAfter(c, S)
         /\ call' = Calling("truncate", "remove", n, nxt, 0)
         /\ file' = file
  BY DEF Truncate
<1>7. UNCHANGED window \/ Look(S, FatSector[c]) \/ DiskError(S) => WindowMoved /\ view' = view
  BY LookMoves DEF Good
<1>8. QED
  BY <1>3, <1>4, <1>5, <1>6, <1>7

LEMMA CallSyncKeeps ==
  ASSUME TypeOK, Good, Kept, NEW n \in Names, NEW op \in {"sync", "close"}, CallSync(n, op)
  PROVE  Kept'
<1> DEFINE f == file[n]
           S == {DirSector[f.entry]}
<1>1. Idle /\ f.open /\ emptied' = emptied /\ saved' = saved
  BY DEF CallSync, quiet
<1>2. SavedLess
  BY <1>1, LessStays
<1>3. PICK s \in Entries : s = f.entry /\ view.dir[s].name = n /\ Own[s] = f.sclust
  BY <1>1, IdleFacts, FileOwns
<1>4. CASE DiskError(S) /\ UNCHANGED <<file, call>>
  <2>1. WindowMoved /\ view' = view
    BY <1>4, LookMoves DEF Good
  <2>2. QED
    BY <1>1, <1>4, <2>1, CallEndsQuietly DEF Idle
<1>5. CASE /\ ~f.modified /\ file' = [file EXCEPT ![n] = Closed]
           /\ UNCHANGED <<window, call>>
  <2>1. WindowMoved /\ view' = view
    BY <1>5, LookMoves DEF Good
  <2>2. ~file'[n].open /\ \A m \in Names \ {n} : file'[m] = file[m]
    BY <1>5 DEF Closed, TypeOK
  <2>3. FileKept(n)'
    BY <1>1, <1>2, <2>2, FileShut
  <2>4. ASSUME NEW m \in Names \ {n} PROVE FileKept(m)'
    BY <1>1, <1>2, <2>1, <2>2, FileStays
  <2>5. CallKept'
    BY <1>1, <1>5, CallEndsKept DEF Idle
  <2>6. QED
    BY <1>2, <2>1, <2>3, <2>4, <2>5, KeptSame
<1>6. CASE /\ Edit(S, DirSector[f.entry], SetDir(f.entry, Entry(n, f.sclust, f.objsize)))
           /\ call' = Calling(op, "sync", n, 0, 0) /\ file' = file
  <2>1. PICK c \in {0} \cup Clusters, z \in 0..MaxSize : c = f.sclust /\ z = f.objsize
    BY DEF TypeOK, File
  <2>2. WindowMoved /\ view' = SetDir(s, Entry(n, c, z))
    BY <1>3, <1>6, <2>1, EditMoves DEF Good
  <2>3. /\ view'.fat = view.fat
        /\ view'.dir[s].name = n /\ view'.dir[s].clust = c /\ view'.dir[s].size = z
        /\ \A t \in Entries \ {s} : view'.dir[t] = view.dir[t]
    <3>1. n \in Names \cup {Blank, Deleted}
      OBVIOUS
    <3>2. QED
      BY <2>2, <3>1, SetDirFacts
  <2>4. ASSUME NEW m \in Names, Safe(m)' PROVE Keeps(view', m, saved'[m])
    <3>1. Safe(m) /\ saved'[m] = saved[m]
      BY <1>2, <2>4, LessIsSafe
    <3>2. PICK t \in Entries :
             /\ view.dir[t].name = m /\ view.dir[t].size >= Len(saved[m])
             /\ Leads(view.fat, view.dir[t].clust, saved[m])
             /\ Leads(view.fat, Own[t], saved[m])
      BY <3>1, SafeOwns
    <3>3. CASE m = n
      <4>1. t = s
        BY <1>3, <3>2, <3>3 DEF Good, ViewInv, Directory
      <4>2. z >= Len(saved[n])
        BY <1>1, <2>1, <3>1, <3>3 DEF Kept, FileKept
      <4>3. Leads(view.fat, c, saved[n])
        BY <1>3, <2>1, <3>2, <3>3, <4>1
      <4>4. QED
        BY <2>3, <3>1, <3>3, <4>2, <4>3 DEF Keeps
    <3>4. CASE m # n
      <4>1. t # s
        BY <1>3, <3>2, <3>4
      <4>2. QED
        BY <2>3, <3>1, <3>2, <4>1 DEF Keeps
    <3>5. QED
      BY <3>3, <3>4
  <2>5. KeptOn(view)'
    BY <2>4 DEF KeptOn
  <2>6. ASSUME NEW m \in Names PROVE FileKept(m)'
    BY <1>1, <1>2, <1>6, <2>3, FileStays
  <2>7. call'.at = "sync" /\ call'.name = n
    BY <1>6 DEF Calling
  <2>8. view'.dir[file'[n].entry].size = file'[n].objsize
    BY <1>3, <1>6, <2>1, <2>3
  <2>9. CallKept'
    BY <2>7, <2>8 DEF CallKept, At
  <2>10. QED
    BY <1>2, <2>2, <2>5, <2>6, <2>9, KeptTogether
<1>7. QED
  BY <1>4, <1>5, <1>6 DEF CallSync

\* sync_fs fails: the card and what FatFs sees stay as they are.
LEMMA SyncFailsKeeps ==
  ASSUME TypeOK, Good, Kept, At("sync") \/ At("info"), SyncFails,
         view' = view, disk' = disk, wflag' = wflag, emptied' = emptied
  PROVE  Kept'
<1>1. PICK n \in Names : n = call.name
  BY DEF Good, CallInv, Idle, NoCall, At
<1>2. /\ call' = NoCall /\ saved' = saved
      /\ file' = file \/ file' = [file EXCEPT ![n].modified = FALSE]
  BY <1>1 DEF SyncFails, Returns
<1>3. WindowMoved
  BY DEF WindowMoved, Good, DiskInv, TypeOK
<1>4. QED
  BY <1>2, <1>3, CallEndsQuietly

LEMMA SyncWindowKeeps ==
  ASSUME TypeOK, Good, Kept, SyncWindow
  PROVE  Kept'
<1>1. PICK n \in Names : At("sync") /\ n = call.name
  BY DEF SyncWindow, Good, CallInv, Idle, NoCall, At
<1>2. CASE SyncFails /\ UNCHANGED <<disk, view, winsect, wflag, emptied>>
  BY <1>1, <1>2, SyncFailsKeeps
<1>3. CASE /\ WriteWindow /\ emptied' = emptied \ {n}
           /\ UNCHANGED <<view, winsect, faults, file, saved, cut>>
  <2>1. /\ disk' = view /\ wflag' = FALSE /\ view' = view /\ file' = file /\ saved' = saved
        /\ emptied' = emptied \ {n}
    BY <1>3 DEF WriteWindow, WrittenBack, Good, DiskInv
  <2>2. call'.op = call.op /\ call'.at = "info" /\ call'.name = n
    BY <1>1, <1>3 DEF WriteWindow, Goes, TypeOK, Call
  <2>3. WindowMoved
    BY <2>1 DEF WindowMoved
  <2>4. SavedLess
    BY <2>1, LessStays
  <2>5. ASSUME NEW m \in Names PROVE FileKept(m)'
    BY <2>1, <2>4, FileStays
  <2>6. call.op \in {"sync", "close"} => view.dir[file[n].entry].size = file[n].objsize
    BY <1>1 DEF Kept, CallKept
  <2>7. CallKept'
    BY <2>1, <2>2, <2>6 DEF CallKept, At
  <2>8. QED
    BY <2>1, <2>3, <2>4, <2>5, <2>7, KeptSame
<1>4. QED
  BY <1>1, <1>2, <1>3 DEF SyncWindow

\* f_sync or f_close returns FR_OK: the entry that is on the card leads to the
\* clusters of the file, and these are safe from now on.
LEMMA SyncInfoKeeps ==
  ASSUME TypeOK, Good, Kept, SyncInfo
  PROVE  Kept'
<1>1. /\ At("info") /\ view' = view /\ disk' = disk /\ wflag' = wflag /\ emptied' = emptied
  BY DEF SyncInfo
<1>2. PICK n \in Names : n = call.name
  BY <1>1 DEF Good, CallInv, Idle, NoCall, At
<1>3. CASE SyncFails
  BY <1>1, <1>3, SyncFailsKeeps
<1>4. CASE SyncSucceeds /\ call.op \notin {"sync", "close"}
  <2>1. call' = NoCall /\ file' = file /\ saved' = saved
    BY <1>4 DEF SyncSucceeds, Returns
  <2>2. WindowMoved
    BY <1>1 DEF WindowMoved, Good, DiskInv, TypeOK
  <2>3. QED
    BY <1>1, <2>1, <2>2, CallEndsQuietly
<1>5. CASE SyncSucceeds /\ call.op \in {"sync", "close"}
  <2> DEFINE f == file[n]
  <2>1. /\ f.open /\ view.dir[f.entry].clust = f.sclust /\ view.dir[f.entry].size = f.objsize
        /\ n \notin emptied /\ disk = view
    BY <1>1, <1>2, <1>5 DEF Good, CallInv, DiskInv, Kept, CallKept
  <2>2. PICK s \in Entries : s = f.entry /\ view.dir[s].name = n
    BY <2>1 DEF Good, FileInv
  <2>3. PICK q : q = ChainOf(f)
    OBVIOUS
  <2>4. q \in Seq(Clusters) /\ Len(q) <= f.objsize /\ Leads(view.fat, f.sclust, q)
    <3>1. view.fat \in Fats /\ f.sclust \in {0} \cup Clusters /\ f.objsize \in 0..MaxSize
      BY DEF TypeOK, Volume, Fats, File
    <3>2. QED
      BY <2>3, <3>1, ChainOfFacts
  <2>5. Len(q) \in Nat /\ f.objsize \in Nat /\ f.objsize <= MaxSize /\ f.objsize >= Len(q)
    <3>1. f.objsize \in 0..MaxSize /\ Len(q) \in Nat
      BY <2>4, SavedSequence DEF TypeOK, File
    <3>2. QED
      BY <2>4, <3>1, NumberOfPlaces
  <2>6. saved' = [saved EXCEPT ![n] = q]
    BY <1>2, <1>5, <2>3 DEF SyncSucceeds
  <2>7. q \in SavedValues
    BY <2>4, <2>5, NumberOfPlaces DEF SavedValues
  <2>8. saved' \in [Names -> SavedValues] /\ saved'[n] = q
        /\ \A m \in Names \ {n} : saved'[m] = saved[m]
    BY <2>6, <2>7 DEF Kept
  <2>9. ASSUME NEW m \in Names, Safe(m)' PROVE Keeps(view', m, saved'[m])
    <3>1. CASE m = n
      BY <1>1, <2>1, <2>2, <2>4, <2>5, <2>8, <3>1 DEF Keeps
    <3>2. CASE m # n
      <4>1. Safe(m) /\ saved'[m] = saved[m]
        BY <2>8, <2>9, <3>2 DEF Safe
      <4>2. QED
        BY <1>1, <4>1 DEF Kept, KeptOn
    <3>3. QED
      BY <3>1, <3>2
  <2>10. KeptOn(view)' /\ KeptOn(disk)'
    BY <1>1, <2>1, <2>9 DEF KeptOn
  <2>11. file' = [file EXCEPT ![n].modified = FALSE] \/ file' = [file EXCEPT ![n] = Closed]
    BY <1>2, <1>5 DEF SyncSucceeds
  <2>12. /\ \A m \in Names \ {n} : file'[m] = file[m]
         /\ \/ ~file'[n].open
            \/ /\ file'[n].objsize = f.objsize /\ file'[n].sclust = f.sclust
               /\ file'[n].fptr = f.fptr /\ file'[n].clust = f.clust
    BY <2>11 DEF TypeOK, File, Closed
  <2>13. FileKept(n)'
    <3>1. f.fptr > 0 /\ f.clust \in Clusters => Reaches(view.fat, f.sclust, f.clust)
      BY <2>1 DEF Kept, FileKept
    <3>2. QED
      BY <1>1, <2>1, <2>5, <2>8, <2>12, <3>1 DEF FileKept
  <2>14. ASSUME NEW m \in Names \ {n} PROVE FileKept(m)'
    <3>1. FileKept(m) /\ (Safe(m)' <=> Safe(m))
      BY <2>8 DEF Kept, Safe
    <3>2. QED
      BY <1>1, <2>8, <2>12, <3>1 DEF FileKept
  <2>15. CallKept'
    BY <1>5, CallEndsKept DEF SyncSucceeds, Returns
  <2>16. QED
    BY <2>8, <2>10, <2>13, <2>14, <2>15 DEF Kept
<1>6. QED
  BY <1>3, <1>4, <1>5 DEF SyncInfo

\* A step that writes an entry of no safe file, and touches no file object.
LEMMA EntryKeeps ==
  ASSUME TypeOK, Kept, SavedLess, WindowMoved, view'.fat = view.fat, file' = file,
         emptied' = emptied, NEW s \in Entries,
         \A t \in Entries \ {s} : view'.dir[t] = view.dir[t],
         \A n \in Names : view.dir[s].name = n => ~Safe(n)',
         CallKept'
  PROVE  Kept'
<1>1. KeptOn(view)'
  BY DirKept
<1>2. ASSUME NEW m \in Names PROVE FileKept(m)'
  BY FileStays
<1>3. QED
  BY <1>1, <1>2, KeptTogether

LEMMA UnlinkKeeps ==
  ASSUME TypeOK, Good, Kept, NEW n \in Names, Unlink(n)
  PROVE  Kept'
<1>1. Idle /\ Has(n) /\ emptied' = emptied /\ file' = file
  BY DEF Unlink
<1>2. PICK s \in Entries : s = Slot(n) /\ view.dir[s].name = n
  BY <1>1, SlotFacts
<1>3. PICK c : c = view.dir[s].clust
  OBVIOUS
<1>4. CASE DiskError(UpTo(s)) /\ UNCHANGED <<call, saved>>
  <2>1. WindowMoved /\ view' = view
    BY <1>4, LookMoves DEF Good
  <2>2. QED
    BY <1>1, <1>4, <2>1, CallEndsQuietly DEF Idle
<1>5. CASE /\ Edit(UpTo(s), DirSector[s], SetDir(s, Entry(Deleted, 0, 0)))
           /\ call' = Calling("unlink", IF c = 0 THEN "sync" ELSE "remove", n, c, 0)
           /\ saved' = [saved EXCEPT ![n] = NotSaved]
  <2>1. WindowMoved /\ view' = SetDir(s, Entry(Deleted, 0, 0))
    BY <1>5, EditMoves DEF Good
  <2>2. view'.fat = view.fat /\ \A t \in Entries \ {s} : view'.dir[t] = view.dir[t]
    <3>1. 0 \in {0} \cup Clusters /\ 0 \in 0..MaxSize /\ Deleted \in Names \cup {Blank, Deleted}
      BY NumberOfPlaces
    <3>2. QED
      BY <2>1, <3>1, SetDirFacts
  <2>3. SavedLess /\ ~Safe(n)'
    BY <1>5, LessStays DEF Kept, Safe
  <2>4. call'.op = "unlink" /\ call'.at \in {"sync", "remove"} /\ call'.name = n
    BY <1>5 DEF Calling
  <2>5. CallKept'
    BY <2>3, <2>4 DEF CallKept, At
  <2>6. QED
    BY <1>1, <1>2, <2>1, <2>2, <2>3, <2>5, EntryKeeps
<1>6. QED
  BY <1>2, <1>3, <1>4, <1>5 DEF Unlink

LEMMA RenameKeeps ==
  ASSUME TypeOK, Good, Kept, NEW o \in Names, NEW n \in Names, Rename(o, n)
  PROVE  Kept'
<1>1. Idle /\ Has(o) /\ emptied' = emptied /\ file' = file
  BY DEF Rename
<1>2. PICK s \in Entries : s = Slot(o) /\ view.dir[s].name = o
  BY <1>1, SlotFacts
<1>3. PICK c \in {0} \cup Clusters, z \in 0..MaxSize :
        c = view.dir[s].clust /\ z = view.dir[s].size
  BY DirType
<1>4. PICK t \in Entries : \E S :
         /\ FirstFree(t)
         /\ \/ /\ Edit(S, DirSector[t], SetDir(t, Entry(n, c, z)))
               /\ call' = Calling("rename", "unname", o, 0, s)
               /\ saved' = [saved EXCEPT ![o] = NotSaved, ![n] = NotSaved]
            \/ DiskError(S) /\ UNCHANGED <<call, saved>>
  BY <1>2, <1>3 DEF Rename
<1>5. PICK S :
         /\ FirstFree(t)
         /\ \/ /\ Edit(S, DirSector[t], SetDir(t, Entry(n, c, z)))
               /\ call' = Calling("rename", "unname", o, 0, s)
               /\ saved' = [saved EXCEPT ![o] = NotSaved, ![n] = NotSaved]
            \/ DiskError(S) /\ UNCHANGED <<call, saved>>
  BY <1>4
<1>6. CASE DiskError(S) /\ UNCHANGED <<call, saved>>
  <2>1. WindowMoved /\ view' = view
    BY <1>6, LookMoves DEF Good
  <2>2. QED
    BY <1>1, <1>6, <2>1, CallEndsQuietly DEF Idle
<1>7. CASE /\ Edit(S, DirSector[t], SetDir(t, Entry(n, c, z)))
           /\ call' = Calling("rename", "unname", o, 0, s)
           /\ saved' = [saved EXCEPT ![o] = NotSaved, ![n] = NotSaved]
  <2>1. WindowMoved /\ view' = SetDir(t, Entry(n, c, z))
    BY <1>7, EditMoves DEF Good
  <2>2. view'.fat = view.fat /\ \A u \in Entries \ {t} : view'.dir[u] = view.dir[u]
    <3>1. n \in Names \cup {Blank, Deleted}
      OBVIOUS
    <3>2. QED
      BY <2>1, <3>1, SetDirFacts
  <2>3. SavedLess /\ ~Safe(o)'
    BY <1>7 DEF Kept, Safe, SavedLess, SavedValues
  <2>4. call'.op = "rename" /\ call'.at = "unname" /\ call'.name = o
    BY <1>7 DEF Calling
  <2>5. CallKept'
    BY <2>3, <2>4 DEF CallKept, At
  <2>6. view.dir[t].name \notin Names
    BY <1>5, FreeNames DEF FirstFree
  <2>7. QED
    BY <1>1, <2>1, <2>2, <2>3, <2>5, <2>6, EntryKeeps
<1>8. QED
  BY <1>5, <1>6, <1>7

LEMMA UnnameKeeps ==
  ASSUME TypeOK, Good, Kept, Unname
  PROVE  Kept'
<1>1. At("unname") /\ emptied' = emptied /\ file' = file /\ saved' = saved
  BY DEF Unname
<1>2. PICK s \in Entries, o \in Names :
        s = call.ncl /\ o = call.name /\ view.dir[s].name = o /\ call.op = "rename"
  BY <1>1 DEF Good, CallInv, Idle, NoCall, At
<1>3. CASE DiskError({DirSector[s]}) /\ Returns
  <2>1. WindowMoved /\ view' = view
    BY <1>3, LookMoves DEF Good
  <2>2. QED
    BY <1>1, <1>3, <2>1, CallEndsQuietly DEF Returns
<1>4. CASE /\ Edit({DirSector[s]}, DirSector[s], SetDir(s, Entry(Deleted, 0, 0)))
           /\ Goes("sync", 0, 0)
  <2>1. WindowMoved /\ view' = SetDir(s, Entry(Deleted, 0, 0))
    BY <1>4, EditMoves DEF Good
  <2>2. view'.fat = view.fat /\ \A t \in Entries \ {s} : view'.dir[t] = view.dir[t]
    <3>1. 0 \in {0} \cup Clusters /\ 0 \in 0..MaxSize /\ Deleted \in Names \cup {Blank, Deleted}
      BY NumberOfPlaces
    <3>2. QED
      BY <2>1, <3>1, SetDirFacts
  <2>3. SavedLess
    BY <1>1, LessStays
  <2>4. ~Safe(o)'
    BY <1>1, <1>2 DEF Kept, CallKept, Safe
  <2>5. call'.op = "rename" /\ call'.at = "sync"
    BY <1>2, <1>4 DEF Goes, TypeOK, Call
  <2>6. CallKept'
    BY <2>5 DEF CallKept, At
  <2>7. QED
    BY <1>1, <1>2, <2>1, <2>2, <2>3, <2>4, <2>6, EntryKeeps
<1>5. QED
  BY <1>2, <1>3, <1>4 DEF Unname

\* After a restart FatFs sees what the card has.
LEMMA RestartKeeps ==
  ASSUME TypeOK, Good, Kept, Restart
  PROVE  Kept'
<1>1. /\ view' = disk /\ disk' = disk /\ wflag' = FALSE /\ call' = NoCall
      /\ file' = [n \in Names |-> Closed] /\ emptied' = {} /\ saved' = saved
  BY DEF Restart
<1>2. SavedLess /\ WindowMoved
  BY <1>1, LessStays DEF WindowMoved
<1>3. KeptOn(view)'
  BY <1>1 DEF Kept, KeptOn, Safe
<1>4. ASSUME NEW n \in Names PROVE FileKept(n)'
  <2>1. ~file'[n].open
    BY <1>1 DEF Closed
  <2>2. QED
    BY <1>1, <1>2, <2>1, FileShut
<1>5. QED
  BY <1>1, <1>2, <1>3, <1>4, CallEndsKept, KeptTogether

-----------------------------------------------------------------------------
(* What was made safe stays safe. *)

KInv == IInv /\ (cut \/ Kept)

LEMMA InitKept == Init => KInv
<1> SUFFICES ASSUME Init PROVE KInv
  OBVIOUS
<1>1. /\ saved = [n \in Names |-> NotSaved] /\ emptied = {} /\ call = NoCall
      /\ file = [n \in Names |-> Closed]
  BY DEF Init
<1>2. saved \in [Names -> SavedValues] /\ \A n \in Names : ~Safe(n)
  BY <1>1 DEF SavedValues, Safe
<1>3. KeptOn(disk) /\ KeptOn(view)
  BY <1>2 DEF KeptOn
<1>4. ASSUME NEW n \in Names PROVE FileKept(n)
  <2>1. ~file[n].open
    BY <1>1 DEF Closed
  <2>2. QED
    BY <1>1, <2>1 DEF FileKept
<1>5. CallKept
  BY <1>1 DEF CallKept, NoCall, At
<1>6. QED
  BY <1>2, <1>3, <1>4, <1>5, InitInv DEF KInv, Kept

LEMMA StepKept == KInv /\ [Next]_vars => KInv'
<1> SUFFICES ASSUME KInv, [Next]_vars PROVE KInv'
  OBVIOUS
<1>1. IInv' /\ TypeOK /\ (cut \/ (Good /\ Kept))
  BY StepInv DEF KInv, IInv
<1>2. CASE UNCHANGED vars
  <2>1. /\ disk' = disk /\ view' = view /\ wflag' = wflag /\ saved' = saved
        /\ file' = file /\ call' = call /\ emptied' = emptied /\ cut' = cut
    BY <1>2 DEF vars, window, quiet
  <2>2. ASSUME Kept PROVE Kept'
    <3>1. KeptOn(disk)' /\ KeptOn(view)'
      BY <2>1, <2>2 DEF Kept, KeptOn, Safe
    <3>2. \A n \in Names : FileKept(n)'
      BY <2>1, <2>2 DEF Kept, FileKept, Safe
    <3>3. CallKept'
      BY <2>1, <2>2 DEF Kept, CallKept, Safe, At
    <3>4. QED
      BY <2>1, <2>2, <3>1, <3>2, <3>3 DEF Kept
  <2>3. QED
    BY <1>1, <2>1, <2>2 DEF KInv
<1>3. CASE ~cut /\ Continue
  <2>1. Good /\ Kept
    BY <1>1, <1>3
  <2>2. Kept'
    BY <1>1, <1>3, <2>1, RemoveClusterKeeps, BackToEntryKeeps, LinkNewKeeps, WriteDataKeeps,
       SyncWindowKeeps, SyncInfoKeeps, UnnameKeeps DEF Continue
  <2>3. QED
    BY <1>1, <2>2 DEF KInv
<1>4. CASE ~cut /\ Restart
  BY <1>1, <1>4, RestartKeeps DEF KInv
<1>5. ASSUME ~cut, NEW n \in Names, Begin(n) PROVE KInv'
  <2>1. Good /\ Kept
    BY <1>1, <1>5
  <2>2. Kept'
    BY <1>1, <1>5, <2>1, OpenAppendKeeps, CreateNewKeeps, CreateOverKeeps, WriteHereKeeps,
       WriteInsaneKeeps, WriteNewKeeps, WriteFullKeeps, SeekKeeps, TruncateKeeps,
       CallSyncKeeps, UnlinkKeeps, RenameKeeps DEF Begin
  <2>3. QED
    BY <1>1, <2>2 DEF KInv
<1>6. QED
  BY <1>2, <1>3, <1>4, <1>5 DEF Next, Damaged

\* The card has a file that is safe, in the clusters it had.
LEMMA KeptIsThere ==
  ASSUME TypeOK, Kept, NEW n \in Names, Safe(n)
  PROVE  \E s \in Entries :
           LET e == disk.dir[s]
               w == Chain(disk.fat, e.clust)
           IN /\ e.name = n /\ e.size >= Len(saved[n])
              /\ \A k \in DOMAIN saved[n] : w[k] = saved[n][k]
<1>1. PICK s \in Entries : /\ disk.dir[s].name = n /\ disk.dir[s].size >= Len(saved[n])
                           /\ Leads(disk.fat, disk.dir[s].clust, saved[n])
  BY DEF Kept, KeptOn, Keeps
<1>2. PICK q \in Seq(Clusters) : q = saved[n] /\ Len(q) <= MaxSize
  BY SavedFacts
<1>3. PICK c \in {0} \cup Clusters : c = disk.dir[s].clust
  BY DEF TypeOK, Volume
<1>4. PICK fat \in Fats : fat = disk.fat
  BY DEF TypeOK, Volume, Fats
<1>5. \A k \in 1 .. Len(q) : Chain(fat, c)[k] = q[k]
  BY <1>1, <1>2, <1>3, <1>4, ChainFindsSaved
<1>6. \A k \in DOMAIN saved[n] : Chain(disk.fat, disk.dir[s].clust)[k] = saved[n][k]
  BY <1>2, <1>3, <1>4, <1>5, SavedSequence
<1>7. QED
  BY <1>1, <1>6

\* f_write writes to clusters of its own file, or to one nothing leads to.
LEMMA WritesApart ==
  ASSUME TypeOK, Good, Kept, NEW n \in Names, Safe(n), NEW k \in DOMAIN saved[n],
         NEW m \in Names \ {n}
  PROVE  ~WrittenFor(saved[n][k], m)
<1>1. SUFFICES ASSUME At("data"), call.clst = saved[n][k], call.name = m PROVE FALSE
  BY DEF WrittenFor
<1>2. PICK q \in Seq(Clusters) : q = saved[n]
  BY SavedFacts
<1>3. k \in 1 .. Len(q) /\ q # <<>>
  BY <1>2, SavedSequence
<1>4. PICK t \in Entries : /\ view.dir[t].name = n /\ Leads(view.fat, Own[t], q)
                           /\ Own[t] # 0
  BY <1>2, <1>3, SafeOwns
<1>5. PICK x \in Clusters : x = call.clst /\ q[k] = x /\ file[m].open
  BY <1>1, <1>2 DEF Good, CallInv
<1>6. CASE file[m].sclust = 0
  <2>1. Unreferred(view.fat, Own, x)
    BY <1>1, <1>5, <1>6 DEF Good, CallInv, Loose
  <2>2. QED
    BY <1>3, <1>4, <1>5, <2>1, LeadsBeside
<1>7. CASE file[m].sclust # 0
  <2>1. ~Emptying(m)
    BY <1>1 DEF At, Emptying
  <2>2. PICK s \in Entries : view.dir[s].name = m /\ Own[s] = file[m].sclust
    BY <1>5, <2>1, FileOwns
  <2>3. s # t
    BY <1>4, <2>2
  <2>4. Reaches(view.fat, Own[s], x)
    BY <1>1, <1>5, <1>7, <2>2 DEF Kept, CallKept
  <2>5. Own \in Owns /\ OneOwner(view.fat, Own)
    BY OwnType DEF Good, ViewInv, InOrder
  <2>6. QED
    BY <1>3, <1>4, <1>5, <1>7, <2>2, <2>3, <2>4, <2>5, LeadsApart
<1>8. QED
  BY <1>6, <1>7

\* A file whose f_sync or f_close wrote its entry and returned FR_OK is on the
\* card in the clusters it had, and no other file is written to them, until a
\* call shortens, removes, empties or renames it: whatever is done to the others,
\* wherever the power goes and whichever transfers fail, on a volume of any size,
\* as long as no rename was cut short and no restart met a damaged volume.  A
\* second f_close after a failed one (ff.c:3992) returns FR_OK with nothing
\* written; it makes nothing safe.
THEOREM DataStaysKept == Spec => []DataKept
<1>1. KInv => DataKept
  <2> SUFFICES ASSUME KInv, ~cut, NEW n \in Names, saved[n] # NotSaved
               PROVE  /\ \E s \in Entries :
                           LET e == disk.dir[s]
                               w == Chain(disk.fat, e.clust)
                           IN /\ e.name = n /\ e.size >= Len(saved[n])
                              /\ \A k \in DOMAIN saved[n] : w[k] = saved[n][k]
                      /\ \A k \in DOMAIN saved[n], m \in Names \ {n} :
                           ~WrittenFor(saved[n][k], m)
    BY DEF DataKept
  <2>1. TypeOK /\ Good /\ Kept /\ Safe(n)
    BY DEF KInv, IInv, Safe
  <2>2. QED
    BY <2>1, KeptIsThere, WritesApart
<1>2. QED
  BY <1>1, InitKept, StepKept, PTL DEF Spec
=============================================================================
