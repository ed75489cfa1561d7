-------------------------------- MODULE FatPath --------------------------------
(***************************************************************************)
(* The calls of fs/fat/ff.c that take a path, and those that read a        *)
(* directory.  S.dir is the directory object of f_opendir.                 *)
(***************************************************************************)
EXTENDS FatFile

Unknown == DISK_ERR     \* 0xFFFFFFFF as last_clst or free_clst
NoDir == [open |-> FALSE, sclust |-> 0, dptr |-> 0, clust |-> 0, sect |-> 0, blk |-> NoBlock]

\* The end of a mount: a FAT16 volume has no FSInfo sector to take the two from.
Mounted(S) == [S EXCEPT !.mounted = TRUE, !.last_clst = Unknown, !.free_clst = Unknown]

\* The volume is mounted by the first call that needs it.  The drive is always ready and
\* never protected (diskio.c), and the volume's boot sector is in order if it can be read.
mount_volume(S) ==
  IF S.mounted THEN S
  ELSE Then(move_window([S EXCEPT !.wflag = FALSE, !.winsect = NoSector], 0), Mounted)

\* The object at the end of a path, for the calls that go on with its absence.
Lookup(S, path) == Then(mount_volume(S), LAMBDA s : follow_path(s, path))
Clear(S) == Fail(S, "OK")
-----------------------------------------------------------------------------
\* f_open

\* Mutant: the clusters of a file that is overwritten are not given back.
Overwrite_Leaks(S) == SetCurrent(S, [Current(S) EXCEPT !.dir = FALSE, !.clust = 0, !.size = 0])

\* The object's entry is reset, and written back when remove_chain moves the window.
Overwrite(S) ==
  LET cl == Current(S).clust
      s == SetCurrent(S, [Current(S) EXCEPT !.dir = FALSE, !.clust = 0, !.size = 0])
  IN  IF cl = 0 THEN s
      ELSE Then(remove_chain(s, cl, 0), LAMBDA t :
             [move_window(t, S.winsect) EXCEPT !.last_clst = cl - 1])

\* mode: which of READ, WRITE, CREATE_NEW, CREATE_ALWAYS, OPEN_ALWAYS and OPEN_APPEND are given.
Creating(mode) == mode \cap {"CREATE_NEW", "CREATE_ALWAYS", "OPEN_ALWAYS", "OPEN_APPEND"} # {}

Opened(p, path, mode) ==
  IF ~Creating(mode) THEN Then(p, LAMBDA s : IF Current(s).dir THEN Fail(s, "NO_FILE") ELSE s)
  ELSE IF p.res = "NO_FILE" THEN Then(dir_register(Clear(p), path[Len(path)]), Overwrite)
  ELSE Then(p, LAMBDA s :
         IF Current(s).dir THEN Fail(s, "DENIED")
         ELSE IF "CREATE_NEW" \in mode THEN Fail(s, "EXIST")
         ELSE IF "CREATE_ALWAYS" \in mode THEN Overwrite(s) ELSE s)

\* OPEN_APPEND: the chain is followed to the end of the file.
RECURSIVE SeekEnd(_, _, _)
SeekEnd(S, f, ofs) ==
  LET fp == S.fil[f]
      sect == clst2sect(fp.clust) + ofs \div SS
  IN  IF ofs > bcs
      THEN With(get_fat(S, fp.clust), LAMBDA g :
             IF g.val < 2 THEN Fail(g, "INT_ERR")
             ELSE IF g.val = DISK_ERR THEN Fail(g, "DISK_ERR")
             ELSE SeekEnd(Cluster(g, f, g.val), f, ofs - bcs))
      ELSE IF ofs % SS = 0 THEN S
      ELSE IF clst2sect(fp.clust) = 0 THEN Fail(S, "INT_ERR")
      ELSE Then(disk_read(S), LAMBDA s : [s EXCEPT !.fil[f].sect = sect, !.fil[f].buf = s.disk[sect]])

\* The file object of the entry that was found or, if new is TRUE, made or overwritten.
Object(S, f, mode, new) ==
  LET e == Current(S)
      s == [S EXCEPT !.fil[f] =
             [Closed EXCEPT !.open = TRUE, !.access = mode, !.sclust = e.clust, !.objsize = e.size,
                            !.modified = new, !.dir_sect = S.winsect, !.dir_ptr = S.dj.dptr % DirEnts]]
  IN  IF "OPEN_APPEND" \in mode /\ e.size > 0
      THEN SeekEnd([s EXCEPT !.fil[f].fptr = e.size, !.fil[f].clust = e.clust], f, e.size)
      ELSE s

f_open(S, f, path, mode) ==
  With(With(Lookup(S, path), LAMBDA p :
         Then(Opened(p, path, mode), LAMBDA s :
           Object(s, f, mode, Creating(mode) /\ (p.res # "OK" \/ "CREATE_ALWAYS" \in mode)))),
       LAMBDA r : IF r.res = "OK" THEN r ELSE [r EXCEPT !.fil[f] = Closed])
-----------------------------------------------------------------------------
\* Removing, making and renaming.

\* A directory that holds nothing but its dot entries.
Empty(S, clst) ==
  With(Then(dir_sdi([S EXCEPT !.dj.sclust = clst], 0), dir_read), LAMBDA r :
    IF r.res = "OK" THEN Fail(r, "DENIED") ELSE IF r.res = "NO_FILE" THEN Clear(r) ELSE r)

Unlinked(S, clst) ==
  Then(dir_remove(S), LAMBDA s :
    Then(IF clst = 0 THEN s ELSE remove_chain(s, clst, 0), sync_fs))

f_unlink(S, path) ==
  Then(Lookup(S, path), LAMBDA s :
    LET e == Current(s)
    IN  Then([(IF e.dir THEN Empty(s, e.clust) ELSE s) EXCEPT !.dj = s.dj], LAMBDA t :
               Unlinked(t, e.clust)))

DotEntry(name, clst) == [Entry("obj", <<name, 0>>) EXCEPT !.dir = TRUE, !.clust = clst]

\* The new table, in a window that shows its first sector.
NewTable(S, clst) ==
  Then(dir_clear(S, clst), LAMBDA s :
    [s EXCEPT !.win[0] = DotEntry(".", clst), !.win[1] = DotEntry("..", S.dj.sclust), !.wflag = TRUE])

\* Without a place in the parent the cluster is given back, whatever comes of that.
Registered(r, clst) ==
  IF r.res # "OK" THEN Fail(remove_chain(Clear(r), clst, 0), r.res)
  ELSE sync_fs(SetCurrent(r, [Current(r) EXCEPT !.dir = TRUE, !.clust = clst]))

f_mkdir(S, path) ==
  With(Lookup(S, path), LAMBDA p :
    IF p.res = "OK" THEN Fail(p, "EXIST")
    ELSE IF p.res # "NO_FILE" THEN p
    ELSE With(create_chain(Clear(p), 0), LAMBDA c :
           IF c.val \notin Clusters
           THEN Fail(c, IF c.val = 0 THEN "DENIED" ELSE IF c.val = 1 THEN "INT_ERR" ELSE "DISK_ERR")
           ELSE Registered(Then(NewTable(c, c.val), LAMBDA s : dir_register(s, path[Len(path)])), c.val)))

\* The ".." entry of a directory that has moved.
Reparent(S, e, djo) ==
  IF ~e.dir \/ djo.sclust = S.dj.sclust THEN S
  ELSE IF clst2sect(e.clust) = 0 THEN Fail(S, "INT_ERR")
  ELSE Then(move_window(S, clst2sect(e.clust)), LAMBDA s :
         IF s.win[1].name = <<"..", 0>>
         THEN [s EXCEPT !.win[1].clust = s.dj.sclust, !.wflag = TRUE] ELSE s)

Copied(S, e) == SetCurrent(S, [Current(S) EXCEPT !.dir = e.dir, !.clust = e.clust, !.size = e.size])

f_rename(S, path_old, path_new) ==
  Then(Lookup(S, path_old), LAMBDA s :
    LET e == Current(s)
        djo == s.dj
        same(n) == n.dj.sclust = djo.sclust /\ n.dj.dptr = djo.dptr
    IN  With(follow_path(s, path_new), LAMBDA n :
          IF n.res = "OK" /\ ~same(n) THEN Fail(n, "EXIST")
          ELSE IF n.res \notin {"OK", "NO_FILE"} THEN n
          ELSE Then(dir_register(Clear(n), path_new[Len(path_new)]), LAMBDA t :
                 Then(Reparent(Copied(t, e), e, djo), LAMBDA u :
                   Then(dir_remove([u EXCEPT !.dj = djo]), sync_fs)))))
-----------------------------------------------------------------------------
\* Counting free clusters, and listing a directory.

RECURSIVE CountFree(_, _)
CountFree(S, clst) ==
  IF clst = n_fatent THEN S
  ELSE Then(move_window(S, fatbase + clst \div FatEnts), LAMBDA s :
         CountFree([s EXCEPT !.val = IF s.win[clst % FatEnts] = 0 THEN @ + 1 ELSE @], clst + 1))

f_getfree(S) ==
  Then(mount_volume(S), LAMBDA s :
    IF s.free_clst <= n_fatent - 2 THEN Value(s, s.free_clst)
    ELSE Then(CountFree(Value(s, 0), 0), LAMBDA t : [t EXCEPT !.free_clst = t.val]))

\* The call in progress works with the directory object.
WithDir(S, Op(_)) ==
  With(Op([S EXCEPT !.dj = S.dir]), LAMBDA r : [r EXCEPT !.dir = r.dj])

\* The table of the directory at the end of a path.
FollowDir(S, path) ==
  Then(mount_volume(S), LAMBDA s :
    IF path = <<>> THEN [s EXCEPT !.dj.sclust = 0]
    ELSE Then(follow_path(s, path), LAMBDA t :
           IF Current(t).dir THEN [t EXCEPT !.dj.sclust = Current(t).clust] ELSE Fail(t, "NO_PATH")))

f_opendir(S, path) ==
  With(Then(FollowDir(S, path), LAMBDA s : dir_sdi(s, 0)), LAMBDA r :
    IF r.res = "OK" THEN [r EXCEPT !.dir = [r.dj EXCEPT !.open = TRUE]]
    ELSE [r EXCEPT !.dir = NoDir, !.res = IF @ = "NO_FILE" THEN "NO_PATH" ELSE @])

Ended(S) == IF S.res = "NO_FILE" THEN Clear(S) ELSE S

\* The object read is left in S.out; there is none at the end of the directory.
f_readdir(S) ==
  IF ~S.dir.open THEN Fail(S, "INVALID_OBJECT")
  ELSE WithDir(S, LAMBDA s :
         With(dir_read(s), LAMBDA r :
           IF r.res = "NO_FILE" THEN Clear(r)
           ELSE Then(r, LAMBDA t : Ended(dir_next([t EXCEPT !.out = <<Current(t).name>>], FALSE)))))

f_closedir(S) ==
  IF S.dir.open THEN [S EXCEPT !.dir = NoDir] ELSE Fail(S, "INVALID_OBJECT")
=============================================================================
