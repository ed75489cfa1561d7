------------------------------- MODULE FatVolume -------------------------------
(***************************************************************************)
(* The lower half of fs/fat/ff.c on a FAT16 volume: the window onto one    *)
(* sector, the entries of the FAT, and cluster chains.  An operation takes *)
(* the state S of the file system and returns the one it leaves, with its  *)
(* FRESULT in S.res, or with the number it returns in S.val and res "OK".  *)
(*                                                                         *)
(* S.fault is what happens to the disk during the call: nothing, an error  *)
(* at one of its accesses, or the loss of power after some of its writes;  *)
(* after it no write reaches the disk.                                     *)
(***************************************************************************)
EXTENDS Integers, Sequences

CONSTANTS
  SS,          \* units of data in a sector
  csize,       \* sectors in a cluster
  FatEnts,     \* entries of the FAT in a sector
  DirEnts,     \* directory entries in a sector
  n_fatent, n_rootdir

EOC == 65535
DISK_ERR == 65536    \* 0xFFFFFFFF as a cluster number
NoSector == -1

Clusters == 2 .. (n_fatent - 1)
fatbase == 1
fsize == (n_fatent + FatEnts - 1) \div FatEnts
dirbase == fatbase + 2 * fsize
database == dirbase + n_rootdir \div DirEnts

\* clst2sect, for a cluster that exists; 0 for any other.
clst2sect(clst) == IF clst \in Clusters THEN database + csize * (clst - 2) ELSE 0

Fail(S, res) == [S EXCEPT !.res = res]
Value(S, val) == [S EXCEPT !.val = val, !.res = "OK"]

\* The next step of an operation, unless this one has failed.
Then(S, Op(_)) == IF S.res = "OK" THEN Op(S) ELSE S

\* The next step, which looks at the result of this one itself.
With(S, Op(_)) == Op(S)
-----------------------------------------------------------------------------
\* The disk, as diskio.c and the driver under it present it: a call is refused with
\* nothing changed, or done sector by sector.

\* Without a fault, fault.n counts the accesses and the sectors stored.
Counted(S) == [S EXCEPT !.fault.n = @ + 1]

disk_read(S) ==
  IF S.fault.kind # "error" THEN IF S.fault.kind = "none" THEN Counted(S) ELSE S
  ELSE IF S.fault.n = 0 THEN [S EXCEPT !.res = "DISK_ERR", !.fault.kind = "over"]
  ELSE [S EXCEPT !.fault.n = @ - 1]

Store(S, sect, data) ==
  IF S.fault.kind = "off" THEN S
  ELSE IF S.fault.kind = "none" THEN Counted([S EXCEPT !.disk[sect] = data])
  ELSE IF S.fault.kind # "power" THEN [S EXCEPT !.disk[sect] = data]
  ELSE IF S.fault.n = 0 THEN [S EXCEPT !.fault.kind = "off"]
  ELSE [S EXCEPT !.disk[sect] = data, !.fault.n = @ - 1]

disk_write(S, sect, data) == Then(disk_read(S), LAMBDA s : Store(s, sect, data))
-----------------------------------------------------------------------------
\* The window.

\* A sector of the first FAT is written to the second, whose result is not looked at.
Reflect(S) ==
  IF S.winsect - fatbase \in 0 .. (fsize - 1)
  THEN [disk_write(S, S.winsect + fsize, S.win) EXCEPT !.res = "OK"]
  ELSE S

sync_window(S) ==
  IF S.wflag
  THEN Then(disk_write(S, S.winsect, S.win), LAMBDA s : Reflect([s EXCEPT !.wflag = FALSE]))
  ELSE S

move_window(S, sect) ==
  IF sect = S.winsect THEN S
  ELSE Then(sync_window(S), LAMBDA s : With(disk_read(s), LAMBDA r :
         IF r.res = "OK" THEN [r EXCEPT !.win = r.disk[sect], !.winsect = sect]
         ELSE [r EXCEPT !.winsect = NoSector]))

\* On FAT16 there is no FSInfo sector, and CTRL_SYNC does nothing.
sync_fs(S) == sync_window(S)
-----------------------------------------------------------------------------
\* The FAT.

get_fat(S, clst) ==
  IF clst \notin Clusters THEN Value(S, 1)
  ELSE With(move_window(S, fatbase + clst \div FatEnts), LAMBDA s :
         Value(s, IF s.res = "OK" THEN s.win[clst % FatEnts] ELSE DISK_ERR))

put_fat(S, clst, val) ==
  IF clst \notin Clusters THEN Fail(S, "INT_ERR")
  ELSE Then(move_window(S, fatbase + clst \div FatEnts), LAMBDA s :
         [s EXCEPT !.win[clst % FatEnts] = val, !.wflag = TRUE])

\* The count is kept only once f_getfree has made it known.
Freed(S) == IF S.free_clst < n_fatent - 2 THEN [S EXCEPT !.free_clst = @ + 1] ELSE S
Taken(S) == IF S.free_clst \in 1 .. (n_fatent - 2) THEN [S EXCEPT !.free_clst = @ - 1] ELSE S

RECURSIVE RemoveLinks(_, _)
RemoveLinks(S, clst) ==
  With(get_fat(S, clst), LAMBDA g :
    IF g.val = 0 THEN g
    ELSE IF g.val = 1 THEN Fail(g, "INT_ERR")
    ELSE IF g.val = DISK_ERR THEN Fail(g, "DISK_ERR")
    ELSE Then(put_fat(g, clst, 0), LAMBDA s :
           IF g.val < n_fatent THEN RemoveLinks(Freed(s), g.val) ELSE Freed(s)))

remove_chain(S, clst, pclst) ==
  IF clst \notin Clusters THEN Fail(S, "INT_ERR")
  ELSE Then(IF pclst # 0 THEN put_fat(S, pclst, EOC) ELSE S, LAMBDA s : RemoveLinks(s, clst))

\* The search for a free cluster after ncl, round the volume and back to scl.
RECURSIVE Search(_, _, _)
Search(S, ncl, scl) ==
  LET nxt == IF ncl + 1 >= n_fatent THEN 2 ELSE ncl + 1
  IN  IF nxt = 2 /\ ncl + 1 >= n_fatent /\ 2 > scl THEN Value(S, 0)
      ELSE With(get_fat(S, nxt), LAMBDA g :
             IF g.val = 0 THEN Value(g, nxt)
             ELSE IF g.val \in {1, DISK_ERR} THEN g
             ELSE IF nxt = scl THEN Value(g, 0)
             ELSE Search(g, nxt, scl))

\* The result of linking the cluster ncl.
Linked(s, ncl) ==
  IF s.res = "OK" THEN Value(Taken([s EXCEPT !.last_clst = ncl]), ncl)
  ELSE Value(s, IF s.res = "DISK_ERR" THEN DISK_ERR ELSE 1)

\* Mutant: the new cluster is linked before it is marked as the end of the chain,
\* and is not marked when the link fails.
Link_Order(S, clst, ncl) ==
  Linked(Then(IF clst # 0 THEN put_fat(S, clst, ncl) ELSE S, LAMBDA s : put_fat(s, ncl, EOC)), ncl)

Link(S, clst, ncl) ==
  Linked(Then(put_fat(S, ncl, EOC), LAMBDA s : IF clst # 0 THEN put_fat(s, clst, ncl) ELSE s), ncl)

\* What a search returned: a cluster to link, no cluster, or an error.
Found(g, clst) == IF g.val \in Clusters THEN Link(g, clst, g.val) ELSE g

Stretch(S, clst) ==
  LET ncl == IF clst + 1 >= n_fatent THEN 2 ELSE clst + 1
      scl == IF S.last_clst \in Clusters THEN S.last_clst ELSE clst
  IN  With(get_fat(S, ncl), LAMBDA g :
        IF g.val = 0 THEN Link(g, clst, ncl)
        ELSE IF g.val \in {1, DISK_ERR} THEN g
        ELSE Found(Search(g, scl, scl), clst))

create_chain(S, clst) ==
  LET scl == IF S.last_clst = 0 \/ S.last_clst >= n_fatent THEN 1 ELSE S.last_clst
  IN  IF clst = 0
      THEN IF S.free_clst = 0 THEN Value(S, 0) ELSE Found(Search(S, scl, scl), 0)
      ELSE With(get_fat(S, clst), LAMBDA g :
             IF g.val < 2 THEN Value(g, 1)
             ELSE IF g.val = DISK_ERR \/ g.val < n_fatent THEN g
             ELSE IF g.free_clst = 0 THEN Value(g, 0) ELSE Stretch(g, clst))
=============================================================================
