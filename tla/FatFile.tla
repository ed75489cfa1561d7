-------------------------------- MODULE FatFile --------------------------------
(***************************************************************************)
(* The calls of fs/fat/ff.c on files and names, each an operator on the    *)
(* state S of the volume.  A file object is S.fil[f]; its buffer holds one *)
(* sector.  Sequences of units stand for the caller's buffers: the data of *)
(* f_write are a parameter, those of f_read are left in S.out.             *)
(***************************************************************************)
EXTENDS FatDir, SequencesExt

NoBuf == [i \in 0 .. (SS - 1) |-> 0]

Closed ==
  [open |-> FALSE, access |-> {}, dirty |-> FALSE, modified |-> FALSE, err |-> "OK", fptr |-> 0, clust |-> 0,
   sclust |-> 0, objsize |-> 0, sect |-> 0, buf |-> NoBuf, dir_sect |-> 0, dir_ptr |-> 0]

\* ABORT: the error stays with the object, and every later call returns it.
ABORT(S, f, res) == [S EXCEPT !.fil[f].err = res, !.res = res]
Checked(S, f, Op(_)) == IF S.res = "OK" THEN Op(S) ELSE ABORT(S, f, S.res)

\* validate, and the error flag.
Valid(S, f) ==
  IF ~S.fil[f].open THEN Fail(S, "INVALID_OBJECT") ELSE Fail(S, S.fil[f].err)

Permitted(S, f, access) ==
  Then(Valid(S, f), LAMBDA s : IF access \in s.fil[f].access THEN s ELSE Fail(s, "DENIED"))

Cluster(S, f, clst) == [S EXCEPT !.fil[f].clust = clst]

\* A cluster number that an operation on the FAT has returned.
Usable(S, f, Op(_)) ==
  IF S.val < 2 THEN ABORT(S, f, "INT_ERR")
  ELSE IF S.val = DISK_ERR THEN ABORT(S, f, "DISK_ERR") ELSE Op(Cluster(S, f, S.val))

\* Mutant: what was written into the buffer is lost when the buffer is needed.
FlushBuf_Drops(S, f) == [S EXCEPT !.fil[f].dirty = FALSE]

\* The buffer is written back if it is dirty.
FlushBuf(S, f) ==
  IF S.fil[f].dirty
  THEN Then(disk_write(S, S.fil[f].sect, S.fil[f].buf), LAMBDA s : [s EXCEPT !.fil[f].dirty = FALSE])
  ELSE S

\* The buffer is filled from sect, unless it shows it already.
LoadBuf(S, f, sect) ==
  IF S.fil[f].sect = sect THEN S
  ELSE Then(FlushBuf(S, f), LAMBDA s :
         Then(disk_read(s), LAMBDA t : [t EXCEPT !.fil[f].buf = t.disk[sect], !.fil[f].sect = sect]))

\* Units of a sector from offset o on replaced by those of d.
Fit(buf, o, d) == [i \in DOMAIN buf |-> IF i - o \in 0 .. (Len(d) - 1) THEN d[i - o + 1] ELSE buf[i]]
Units(buf, o, n) == [i \in 1 .. n |-> buf[o + i - 1]]
Smaller(a, b) == IF a < b THEN a ELSE b
Larger(a, b) == IF a > b THEN a ELSE b

csect(fp) == (fp.fptr \div SS) % csize
Sector(fp) == clst2sect(fp.clust) + csect(fp)
OnCluster(fp) == fp.fptr % (SS * csize) = 0
-----------------------------------------------------------------------------
\* f_read

\* On the boundary of a cluster the chain is followed.
ReadCluster(S, f) ==
  LET fp == S.fil[f]
  IN  IF ~OnCluster(fp) THEN S
      ELSE Usable(IF fp.fptr = 0 THEN Value(S, fp.sclust) ELSE get_fat(S, fp.clust), f, LAMBDA s : s)

\* Whole sectors go to the caller from the disk, but for one that is dirty in the buffer.
ReadSectors(S, f, sect, cc) ==
  LET fp == S.fil[f]
      data(k) == IF fp.dirty /\ fp.sect = k THEN fp.buf ELSE S.disk[k]
  IN  [i \in 1 .. (cc * SS) |-> data(sect + (i - 1) \div SS)[(i - 1) % SS]]

Got(S, f, d) == [S EXCEPT !.out = @ \o d, !.fil[f].fptr = @ + Len(d)]

RECURSIVE ReadLoop(_, _, _)
ReadLoop(S, f, btr) ==
  IF btr = 0 THEN S
  ELSE LET fp == S.fil[f]
           o == fp.fptr % SS
           rcnt == Smaller(SS - o, btr)
           Part(s) == ReadLoop(Got(s, f, Units(s.fil[f].buf, o, rcnt)), f, btr - rcnt)
       IN  IF o # 0 THEN Part(S)
           ELSE Then(ReadCluster(S, f), LAMBDA s :
             LET cc == Smaller(btr \div SS, csize - csect(fp))
                 sect == Sector(s.fil[f])
             IN  IF clst2sect(s.fil[f].clust) = 0 THEN ABORT(s, f, "INT_ERR")
                 ELSE IF cc > 0
                 THEN Checked(disk_read(s), f, LAMBDA t :
                        ReadLoop(Got(t, f, ReadSectors(t, f, sect, cc)), f, btr - cc * SS))
                 ELSE Checked(LoadBuf(s, f, sect), f, Part))

f_read(S, f, btr) ==
  Then(Permitted(S, f, "READ"), LAMBDA s :
    ReadLoop(s, f, Smaller(btr, s.fil[f].objsize - s.fil[f].fptr)))
-----------------------------------------------------------------------------
\* f_write

\* On the boundary of a cluster the chain is followed or stretched.
WriteCluster(S, f) ==
  LET fp == S.fil[f]
  IN  IF fp.fptr = 0 /\ fp.sclust # 0 THEN Value(S, fp.sclust)
      ELSE create_chain(S, IF fp.fptr = 0 THEN 0 ELSE fp.clust)

\* The first cluster that a file gets is where its chain starts.
WriteFirst(S, f) == Usable(S, f, LAMBDA s : [s EXCEPT !.fil[f].sclust = IF @ = 0 THEN S.val ELSE @])

Put(S, f, n) ==
  [S EXCEPT !.fil[f].fptr = @ + n, !.fil[f].objsize = Larger(@, S.fil[f].fptr + n)]

RECURSIVE StoreSectors(_, _, _)
StoreSectors(S, sect, d) ==
  IF d = <<>> THEN S
  ELSE StoreSectors(Store(S, sect, [i \in 0 .. (SS - 1) |-> d[i + 1]]), sect + 1,
                    SubSeq(d, SS + 1, Len(d)))

\* Whole sectors go straight to the disk; the buffer is refilled if it shows one of them.
WriteDirect(S, f, sect, d) ==
  Checked(Then(disk_read(S), LAMBDA s : StoreSectors(s, sect, d)), f, LAMBDA s :
    LET k == s.fil[f].sect - sect
    IN  IF k \in 0 .. (Len(d) \div SS - 1)
        THEN [s EXCEPT !.fil[f].buf = [i \in 0 .. (SS - 1) |-> d[k * SS + i + 1]],
                       !.fil[f].dirty = FALSE]
        ELSE s)

\* At the end of the file there is nothing to fill the buffer with.
WriteBuf(S, f, sect) ==
  LET fp == S.fil[f]
  IN  IF fp.sect # sect /\ fp.fptr < fp.objsize
      THEN Then(disk_read(S), LAMBDA s : [s EXCEPT !.fil[f].buf = s.disk[sect], !.fil[f].sect = sect])
      ELSE [S EXCEPT !.fil[f].sect = sect]

Modified(S, f) == [S EXCEPT !.fil[f].modified = TRUE]

\* The positions of the model are far below 4 GiB, where f_write cuts the data short.
RECURSIVE WriteLoop(_, _, _)
WriteLoop(S, f, d) ==
  IF d = <<>> THEN Modified(S, f)
  ELSE LET fp == S.fil[f]
           o == fp.fptr % SS
           wcnt == Smaller(SS - o, Len(d))
           Rest(n) == SubSeq(d, n + 1, Len(d))
           Part(s) == WriteLoop(Put([s EXCEPT !.fil[f].buf = Fit(@, o, SubSeq(d, 1, wcnt)),
                                              !.fil[f].dirty = TRUE], f, wcnt), f, Rest(wcnt))
       IN  IF o # 0 THEN Part(S)
           ELSE With(IF OnCluster(fp) THEN WriteCluster(S, f) ELSE S, LAMBDA c :
             IF OnCluster(fp) /\ c.val = 0 THEN Modified(c, f)
             ELSE Then(IF OnCluster(fp) THEN WriteFirst(c, f) ELSE c, LAMBDA s :
               Checked(FlushBuf(s, f), f, LAMBDA t :
                 LET n == SS * Smaller(Len(d) \div SS, csize - csect(fp))
                     sect == Sector(t.fil[f])
                 IN  IF clst2sect(t.fil[f].clust) = 0 THEN ABORT(t, f, "INT_ERR")
                     ELSE IF n > 0
                     THEN Then(WriteDirect(t, f, sect, SubSeq(d, 1, n)), LAMBDA u :
                            WriteLoop(Put(u, f, n), f, Rest(n)))
                     ELSE Checked(WriteBuf(t, f, sect), f, Part))))

f_write(S, f, d) == Then(Permitted(S, f, "WRITE"), LAMBDA s : WriteLoop(s, f, d))
-----------------------------------------------------------------------------
\* f_sync and f_close

\* The flag is cleared even if sync_fs fails.
f_sync(S, f) ==
  IF ~S.fil[f].open THEN Fail(S, "INVALID_OBJECT")
  ELSE IF ~S.fil[f].modified THEN S
  ELSE LET fp == S.fil[f] IN
       Then(FlushBuf(S, f), LAMBDA s : Then(move_window(s, fp.dir_sect), LAMBDA t :
         [sync_fs([t EXCEPT !.win[fp.dir_ptr].clust = fp.sclust,
                            !.win[fp.dir_ptr].size = fp.objsize, !.wflag = TRUE])
            EXCEPT !.fil[f].modified = FALSE]))

f_close(S, f) == Then(f_sync(S, f), LAMBDA s : [s EXCEPT !.fil[f] = Closed])
-----------------------------------------------------------------------------
\* f_lseek and f_truncate

bcs == SS * csize

\* The end of a seek, ofs units into the current cluster: the file may have grown, and the
\* buffer is filled unless it shows the sector already.
SeekTo(S, f, ofs) ==
  LET fptr == S.fil[f].fptr + ofs
      s == [S EXCEPT !.fil[f].fptr = fptr, !.fil[f].objsize = Larger(@, fptr),
                     !.fil[f].modified = @ \/ fptr > S.fil[f].objsize]
      sect == clst2sect(S.fil[f].clust)
  IN  IF ofs % SS = 0 THEN s
      ELSE IF sect = 0 THEN ABORT([S EXCEPT !.fil[f].fptr = fptr], f, "INT_ERR")
      ELSE Checked(LoadBuf(s, f, sect + ofs \div SS), f, LAMBDA t : t)

\* Clusters are followed, and in a file that may be written made where the chain ends; a full
\* disk clips the seek.
RECURSIVE SeekChain(_, _, _)
SeekChain(S, f, ofs) ==
  LET clst == S.fil[f].clust
      write == "WRITE" \in S.fil[f].access
      s == [S EXCEPT !.fil[f].fptr = @ + bcs]
  IN  IF ofs <= bcs THEN SeekTo(S, f, ofs)
      ELSE With(IF write THEN create_chain(s, clst) ELSE get_fat(s, clst), LAMBDA c :
             IF write /\ c.val = 0 THEN SeekTo(c, f, 0)
             ELSE IF c.val \in n_fatent .. (DISK_ERR - 1) THEN ABORT(c, f, "INT_ERR")
             ELSE Then(Usable(c, f, LAMBDA t : t), LAMBDA t : SeekChain(t, f, ofs - bcs)))

\* Where the current cluster starts: one that is just full is still the current one.
SeekBase(fptr) == ((fptr - 1) \div bcs) * bcs

f_lseek(S, f, to) ==
  LET fp == S.fil[f]
      ofs == IF "WRITE" \in fp.access THEN to ELSE Smaller(to, fp.objsize)
      base == SeekBase(fp.fptr)
  IN  Then(Valid(S, f), LAMBDA s :
        IF ofs = 0 THEN [s EXCEPT !.fil[f].fptr = 0]
        ELSE IF fp.fptr > 0 /\ (ofs - 1) \div bcs >= (fp.fptr - 1) \div bcs
        THEN SeekChain([s EXCEPT !.fil[f].fptr = base], f, ofs - base)
        ELSE IF fp.sclust # 0 THEN SeekChain([s EXCEPT !.fil[f].fptr = 0, !.fil[f].clust = fp.sclust], f, ofs)
        ELSE With(create_chain([s EXCEPT !.fil[f].fptr = 0], 0), LAMBDA c :
               IF c.val = 0 THEN Cluster(c, f, 0)
               ELSE Then(Usable(c, f, LAMBDA t : [t EXCEPT !.fil[f].sclust = c.val]),
                         LAMBDA t : SeekChain(t, f, ofs))))

\* The clusters behind the file pointer are given back.
Cut(S, f) ==
  LET fp == S.fil[f]
  IN  IF fp.fptr = 0 THEN [remove_chain(S, fp.sclust, 0) EXCEPT !.fil[f].sclust = 0]
      ELSE With(get_fat(S, fp.clust), LAMBDA g :
             IF g.val = DISK_ERR THEN Fail(g, "DISK_ERR")
             ELSE IF g.val = 1 THEN Fail(g, "INT_ERR")
             ELSE IF g.val < n_fatent THEN remove_chain(g, g.val, fp.clust)
             ELSE g)

f_truncate(S, f) ==
  LET fp == S.fil[f]
  IN  Then(Permitted(S, f, "WRITE"), LAMBDA s :
        IF fp.fptr >= fp.objsize THEN s
        ELSE Checked(Then([Cut(s, f) EXCEPT !.fil[f].objsize = fp.fptr, !.fil[f].modified = TRUE],
                          LAMBDA t : FlushBuf(t, f)), f, LAMBDA t : t))
=============================================================================
