--------------------------------- MODULE FatFs ---------------------------------
(***************************************************************************)
(* The FatFs volume of the kernel's disk under any sequence of calls, with *)
(* a disk that may refuse an access and a machine that may lose power in   *)
(* the middle of a call.  ff.c keeps no locks (FF_FS_REENTRANT is 0): a    *)
(* call is one step.  As ffconf.h asks when FF_FS_LOCK is 0, no file is    *)
(* opened twice, and none is removed or renamed while it is open.          *)
(***************************************************************************)
EXTENDS FatPath, FiniteSets

CONSTANTS
  Handles,
  Scenes,      \* for each kind of use: its paths, calls, modes, sizes, seeks and bounds
  Starts,      \* and the state it starts from: fs and name
  Absent, Directory, NoFile

VARIABLES
  fs,                    \* the volume and the objects of ff.c
  scene,
  name,                  \* the path that a file object was opened with
  unsettled, doubtful,   \* paths that the loss of power may change; that a call failed on
  cut,                   \* file objects truncated to nothing since they were synced
  damaged,               \* a call was cut short where ff.c does not allow for it
  got, serial,           \* what the last call read, and the number of writes
  ops, faults,           \* calls and faults so far
  seen, there,           \* what the listing returned, and entries unchanged since its start
  file                   \* what the volume holds for each path

vars == <<fs, scene, name, unsettled, doubtful, cut, damaged, got, serial, ops, faults, seen, there, file>>

sc == Scenes[scene]

NoFault == [kind |-> "none", n |-> 0]

\* A volume after f_mount, and nothing read from it yet.
Fresh(disk) ==
  [disk |-> disk, win |-> disk[0], winsect |-> NoSector, wflag |-> FALSE, mounted |-> FALSE,
   last_clst |-> Unknown, free_clst |-> Unknown, fil |-> [h \in Handles |-> Closed],
   dir |-> NoDir, dj |-> NoDir, res |-> "OK", val |-> 0, out |-> <<>>, fault |-> NoFault]

\* A volume with nothing on it.
Formatted ==
  [s \in 0 .. (database + csize * (n_fatent - 2) - 1) |->
     IF s \in dirbase .. (database - 1) THEN [i \in 0 .. (DirEnts - 1) |-> End]
     ELSE IF s \in fatbase .. (dirbase - 1)
     THEN [i \in 0 .. (FatEnts - 1) |-> IF (s - fatbase) % fsize = 0 /\ i < 2 THEN EOC ELSE 0]
     ELSE NoBuf]
-----------------------------------------------------------------------------
\* What is on the volume, the window and the buffers included.

View(S) == IF S.wflag THEN [S.disk EXCEPT ![S.winsect] = S.win] ELSE S.disk

Fat(S, clst) == View(S)[fatbase + clst \div FatEnts][clst % FatEnts]

RECURSIVE ChainFrom(_, _, _)
ChainFrom(S, clst, n) ==
  IF clst \notin Clusters \/ n = 0 THEN <<>> ELSE <<clst>> \o ChainFrom(S, Fat(S, clst), n - 1)

Chain(S, clst) == ChainFrom(S, clst, n_fatent)

\* The contents of a chain; the buffer of the file object fp counts if it is dirty.
Contents(S, clst, size, fp) ==
  LET chain == Chain(S, clst)
      sect(i) == clst2sect(chain[i \div bcs + 1]) + (i % bcs) \div SS
      data(s) == IF fp.dirty /\ fp.sect = s THEN fp.buf ELSE View(S)[s]
  IN  [i \in 1 .. size |-> IF (i - 1) \div bcs < Len(chain) THEN data(sect(i - 1))[(i - 1) % SS] ELSE -1]

FileAt(S, names, p) ==
  LET hs == {h \in Handles : names[h] = p}
      fp == S.fil[CHOOSE h \in hs : TRUE]
  IN  IF hs # {} THEN Contents(S, fp.sclust, fp.objsize, fp)
      ELSE With(Lookup([S EXCEPT !.fault = NoFault, !.res = "OK"], p), LAMBDA r :
             IF r.res # "OK" THEN Absent
             ELSE IF Current(r).dir THEN Directory
             ELSE Contents(S, Current(r).clust, Current(r).size, Closed))

AllPaths == UNION {Scenes[s].paths : s \in DOMAIN Scenes}
Files(S, names) == [p \in AllPaths |-> IF p \in sc.paths THEN FileAt(S, names, p) ELSE Absent]

\* The entries of a table, by sector and index.
Table(S, clst) ==
  IF clst = 0 THEN dirbase .. (database - 1)
  ELSE UNION {clst2sect(c) .. (clst2sect(c) + csize - 1) : c \in ToSet(Chain(S, clst))}

Objects(S, clst) ==
  {l \in Table(S, clst) \X (0 .. (DirEnts - 1)) :
     LET e == View(S)[l[1]][l[2]] IN e.kind = "obj" /\ e.name \notin {<<".", 0>>, <<"..", 0>>}}

EntryAt(S, l) == View(S)[l[1]][l[2]]

RECURSIVE AllFrom(_, _)
AllFrom(S, clst) ==
  Objects(S, clst) \cup
    UNION {AllFrom(S, EntryAt(S, l).clust) : l \in {m \in Objects(S, clst) : EntryAt(S, m).dir}}

\* The chain of an object: of its file object, if it is open.
ChainOf(S, l) ==
  LET hs == {h \in Handles : S.fil[h].open /\ <<S.fil[h].dir_sect, S.fil[h].dir_ptr>> = l}
  IN  Chain(S, IF hs # {} THEN S.fil[CHOOSE h \in hs : TRUE].sclust ELSE EntryAt(S, l).clust)

\* A directory was given a cluster that has not been cleared.
RECURSIVE Uncleared(_, _)
Uncleared(S, clst) ==
  \/ \E s \in Table(S, clst) : DOMAIN View(S)[s] # 0 .. (DirEnts - 1)
  \/ \E l \in Objects(S, clst) : EntryAt(S, l).dir /\ Uncleared(S, EntryAt(S, l).clust)

\* A call works on the volume as it is, with a fault in one of its accesses.
Begin(fault) == [fs EXCEPT !.fault = fault, !.res = "OK", !.val = 0, !.out = <<>>]

\* The critical section of f_rename, which makes the new entry before it removes the old
\* one: the object that had the name p has two entries.
Doubled(S, ps) ==
  \E p \in ps : LET r == Lookup(Begin(NoFault), p) IN
    /\ r.res = "OK" /\ Current(r).clust # 0
    /\ Cardinality({l \in AllFrom(S, 0) : EntryAt(S, l).clust = Current(r).clust}) = 2

\* Where ff.c makes no provision for a call that is not completed.
HalfDone(S, c, ps) == Uncleared(S, 0) \/ (c = "rename" /\ Doubled(S, ps))
Cutting(c, ps) == IF c = "truncate" THEN {h \in Handles : name[h] \in ps /\ fs.fil[h].fptr = 0} ELSE {}
Damage(c, ps, disk) == cut \cup Cutting(c, ps) # {} \/ HalfDone(Fresh(disk), c, ps)
-----------------------------------------------------------------------------
\* A call.

Init ==
  /\ scene \in DOMAIN Scenes
  /\ \E start \in {Starts[scene]} : fs = start.fs /\ name = start.name
  /\ unsettled = {} /\ doubtful = {} /\ cut = {} /\ damaged = FALSE
  /\ got = <<>> /\ serial = 0 /\ ops = 0 /\ faults = 0
  /\ seen = <<>> /\ there = {} /\ file = Files(fs, name)

\* What can go wrong in a call that makes n accesses.
Faults(n) ==
  {NoFault} \cup
    IF faults < sc.faults THEN [kind : {"error", "power"}, n : 0 .. (n - 1)] ELSE {}

Finish(r) == [r EXCEPT !.fault = NoFault, !.res = "OK", !.val = 0, !.out = <<>>, !.dj = NoDir]

RootObjects(S) == {<<l, EntryAt(S, l).name>> : l \in Objects(S, 0)}

Under(ps) ==
  {q \in sc.paths : \E p \in ps : Len(q) >= Len(p) /\ SubSeq(q, 1, Len(p)) = p}

Unchanged == UNCHANGED <<name, unsettled, doubtful>>
Unsettle(p) == unsettled' = unsettled \cup {p} /\ UNCHANGED <<name, doubtful>>
Settled(p) == unsettled' = unsettled \ ({p} \ doubtful)

\* The memory is lost, and the volume is mounted again.
LosePower(disk, damage) ==
  /\ fs' = Fresh(disk)
  /\ name' = [h \in Handles |-> NoFile]
  /\ unsettled' = {} /\ doubtful' = {} /\ cut' = {} /\ damaged' = damage
  /\ got' = <<>> /\ seen' = <<>> /\ there' = {}
  /\ file' = IF damage THEN file ELSE Files(Fresh(disk), name')

\* The call c works on the paths ps; Done says what it means to have succeeded.
Call(c, ps, Op(_), Done(_)) ==
  /\ c \in sc.calls /\ ops < sc.ops /\ ~damaged
  /\ ops' = ops + 1 /\ UNCHANGED scene
  /\ \E fault \in Faults(Op(Begin(NoFault)).fault.n) : \E r \in {Op(Begin(fault))} :
       LET failed == r.res # "OK" /\ r.fault.kind = "over"
       IN  /\ fault = NoFault \/ r.fault.kind \in {"over", "off"}
           /\ faults' = IF fault = NoFault THEN faults ELSE faults + 1
           /\ IF r.fault.kind = "off" THEN LosePower(r.disk, Damage(c, ps, r.disk))
              ELSE /\ fs' = Finish(r) /\ got' = IF c = "read" /\ r.res = "OK" THEN r.out ELSE <<>>
                   /\ damaged' = (failed /\ HalfDone(r, c, ps))
                   /\ cut' = Cutting(c, ps) \cup
                        {h \in cut : ~(r.res = "OK" /\ c \in {"sync", "close"} /\ name[h] \in ps)}
                   /\ there' = IF failed \/ ~r.dir.open THEN {}
                               ELSE IF c = "opendir" THEN RootObjects(r) ELSE there \cap RootObjects(r)
                   /\ seen' = IF c = "opendir" THEN <<>> ELSE IF c = "readdir" THEN seen \o r.out ELSE seen
                   /\ \/ r.res = "OK" /\ Done(r)
                      \/ r.res # "OK" /\ ~failed /\ Unchanged
                      \/ /\ failed /\ UNCHANGED name
                         /\ unsettled' = unsettled \cup Under(ps) /\ doubtful' = doubtful \cup Under(ps)
                   /\ file' = IF damaged' THEN file ELSE Files(r, name')

Free(p) == \A h \in Handles : name[h] # p
Busy(h) == name[h] # NoFile
Data(k) == [i \in 1 .. k |-> 10 * serial + i]

Open(h, p, mode) ==
  /\ ~Busy(h) /\ Free(p) /\ UNCHANGED serial
  /\ Call("open", {p}, LAMBDA s : f_open(s, h, p, mode), LAMBDA r :
       /\ name' = [name EXCEPT ![h] = p] /\ UNCHANGED doubtful
       /\ unsettled' = IF r.fil[h].modified THEN unsettled \cup {p} ELSE unsettled)

Read(h, k) ==
  /\ Busy(h) /\ UNCHANGED serial
  /\ Call("read", {name[h]}, LAMBDA s : f_read(s, h, k), LAMBDA r : Unchanged)

Write(h, k) ==
  /\ Busy(h) /\ serial' = serial + 1
  /\ Call("write", {name[h]}, LAMBDA s : f_write(s, h, Data(k)), LAMBDA r : Unsettle(name[h]))

Seek(h, n) ==
  /\ Busy(h) /\ UNCHANGED serial
  /\ Call("seek", {name[h]}, LAMBDA s : f_lseek(s, h, n), LAMBDA r :
       IF r.fil[h].objsize > fs.fil[h].objsize THEN Unsettle(name[h]) ELSE Unchanged)

Truncate(h) ==
  /\ Busy(h) /\ UNCHANGED serial
  /\ Call("truncate", {name[h]}, LAMBDA s : f_truncate(s, h), LAMBDA r : Unsettle(name[h]))

Sync(h) ==
  /\ Busy(h) /\ UNCHANGED serial
  /\ Call("sync", {name[h]}, LAMBDA s : f_sync(s, h), LAMBDA r :
       Settled(name[h]) /\ UNCHANGED <<name, doubtful>>)

Close(h) ==
  /\ Busy(h) /\ UNCHANGED serial
  /\ Call("close", {name[h]}, LAMBDA s : f_close(s, h), LAMBDA r :
       Settled(name[h]) /\ name' = [name EXCEPT ![h] = NoFile] /\ UNCHANGED doubtful)

Unlink(p) ==
  /\ Free(p) /\ UNCHANGED serial
  /\ Call("unlink", {p}, LAMBDA s : f_unlink(s, p), LAMBDA r :
       Settled(p) /\ UNCHANGED <<name, doubtful>>)

Mkdir(p) ==
  /\ UNCHANGED serial
  /\ Call("mkdir", {p}, LAMBDA s : f_mkdir(s, p), LAMBDA r :
       Settled(p) /\ UNCHANGED <<name, doubtful>>)

Moved(p, q, r) ==
  IF r # NoFile /\ r \in Under({p}) THEN q \o SubSeq(r, Len(p) + 1, Len(r)) ELSE r

\* A directory is not moved into itself, and everything in it keeps a name.
Rename(p, q) ==
  /\ Free(p) /\ UNCHANGED serial
  /\ p = q \/ q \notin Under({p})
  /\ \A r \in Under({p}) : Moved(p, q, r) \in sc.paths
  /\ Call("rename", {p, q}, LAMBDA s : f_rename(s, p, q), LAMBDA r :
       /\ name' = [h \in Handles |-> Moved(p, q, name[h])]
       /\ unsettled' = {Moved(p, q, x) : x \in unsettled \ ({p, q} \ doubtful)}
       /\ doubtful' = {Moved(p, q, x) : x \in doubtful})

Listing ==
  /\ UNCHANGED serial
  /\ \/ ~fs.dir.open /\ Call("opendir", {}, LAMBDA s : f_opendir(s, <<>>), LAMBDA r : Unchanged)
     \/ fs.dir.open /\ Call("readdir", {}, f_readdir, LAMBDA r : Unchanged)
     \/ fs.dir.open /\ Call("closedir", {}, f_closedir, LAMBDA r : Unchanged)

GetFree ==
  /\ UNCHANGED serial
  /\ Call("getfree", {}, f_getfree, LAMBDA r : Unchanged)

\* Between two calls.
PowerLoss ==
  /\ faults < sc.faults /\ ~damaged /\ ops > 0
  /\ faults' = faults + 1 /\ UNCHANGED <<scene, serial, ops>>
  /\ LosePower(fs.disk, Damage("none", {}, fs.disk))

Next ==
  \/ \E h \in Handles : \/ \E p \in sc.paths, mode \in sc.modes : Open(h, p, mode)
                        \/ \E k \in sc.sizes : Read(h, k) \/ Write(h, k)
                        \/ \E n \in sc.offsets : Seek(h, n)
                        \/ Truncate(h) \/ Sync(h) \/ Close(h)
  \/ \E p \in sc.paths : \/ Unlink(p) \/ Mkdir(p)
                         \/ \E q \in sc.paths : Rename(p, q)
  \/ Listing \/ GetFree \/ PowerLoss

Spec == Init /\ [][Next]_vars
-----------------------------------------------------------------------------
\* Properties.

\* The file objects and the counters hold what their types and ff.c allow: unless a call has
\* failed no file pointer lies behind the end of its file, and only an open file is dirty.
TypeOK ==
  /\ fs.winsect \in DOMAIN fs.disk \cup {NoSector}
  /\ fs.last_clst \in (1 .. (n_fatent - 1)) \cup {Unknown}
  /\ fs.free_clst \in (0 .. (n_fatent - 2)) \cup {Unknown}
  /\ \A h \in Handles :
       /\ fs.fil[h].err = "OK" => fs.fil[h].fptr \in 0 .. fs.fil[h].objsize
       /\ fs.fil[h].open = Busy(h)
       /\ fs.fil[h].dirty => fs.fil[h].open

\* remove_chain, create_chain: no cluster belongs to two objects or twice to one, none that
\* belongs to an object is free, and every chain ends in an end mark.  It is so whatever disk
\* access has failed and wherever power was lost, but for three states that ff.c can be left
\* in, which end the behaviour: a call that failed or lost power between linking a cluster
\* to a directory and clearing it (dir_next), the same in the critical section of f_rename
\* while the object has both entries, and power lost after an f_truncate to nothing that
\* was not synced.  The state has its types in any case.
ChainsApart ==
  TypeOK /\ (damaged \/
    LET all == AllFrom(fs, 0)
    IN  \A l \in all :
          LET c == ChainOf(fs, l)
          IN  /\ IsInjective(c)
              /\ c # <<>> => Fat(fs, c[Len(c)]) = EOC
              /\ \A m \in all \ {l} : ToSet(c) \cap ToSet(ChainOf(fs, m)) = {})

\* create_chain, remove_chain, f_getfree: while the disk has not failed, every cluster that
\* is not free belongs to an object, and free_clst is the number of free ones once known.
NothingLost ==
  faults > 0 \/
    LET used == {c \in Clusters : Fat(fs, c) # 0}
    IN  /\ used = UNION {ToSet(ChainOf(fs, l)) : l \in AllFrom(fs, 0)}
        /\ fs.free_clst # Unknown => fs.free_clst = Cardinality(Clusters \ used)

\* dir_register: the objects of a directory have different short names, but for the three
\* states that end a behaviour (see ChainsApart).
NamesDiffer ==
  damaged \/
    LET dirs == {0} \cup {EntryAt(fs, l).clust : l \in {m \in AllFrom(fs, 0) : EntryAt(fs, m).dir}}
    IN  \A d \in dirs : \A l, m \in Objects(fs, d) :
          EntryAt(fs, l).name = EntryAt(fs, m).name => l = m

\* f_readdir: a listing that has come to its end has returned every entry of the directory
\* that was there all the time.
ListedAll ==
  fs.dir.open /\ fs.dir.sect = 0 => \A x \in there : x[2] \in ToSet(seen)

Promise ==
  INSTANCE Files WITH
    Paths <- AllPaths,
    Sizes <- UNION {Scenes[s].sizes : s \in DOMAIN Scenes},
    Offsets <- UNION {Scenes[s].offsets : s \in DOMAIN Scenes},
    at <- [h \in Handles |-> IF Busy(h) THEN [path |-> name[h], pos |-> fs.fil[h].fptr] ELSE NoFile]

\* The calls keep the promise of Files: files hold what was written to them, also after the
\* loss of power if they were synced; reads return it; and a call changes no other file.  A
\* step into one of the three states that end a behaviour (see ChainsApart) shows no files.
KeepsFiles == Promise!Spec
=============================================================================
