-------------------------------- MODULE FatDir ---------------------------------
(***************************************************************************)
(* Directories of fs/fat/ff.c: finding, reading, registering and removing  *)
(* entries, with their long names.                                         *)
(*                                                                         *)
(* A name is given by the parts of its long form, the body of its short    *)
(* form, and whether making the body loses something (lossy) or only needs *)
(* the long form to tell its capitals or extended characters (mixed).      *)
(* Short forms are pairs of a body and a number, 0 for none, and stand for *)
(* their checksums too.  An entry is a record, of a part of a long name or *)
(* of an object.  S.dj is the DIR that the call in progress works with.    *)
(***************************************************************************)
EXTENDS FatVolume

CONSTANT Names    \* parts, body, lossy and mixed for each name

\* The flags NS_LFN: entries are needed for the long form; NS_LOSS: the short one needs a
\* number; and NS_NOLFN, which only dir_register sets.
create_name(n) ==
  [parts |-> Names[n].parts, sfn |-> <<Names[n].body, 0>>, lfn |-> Names[n].lossy \/ Names[n].mixed,
   loss |-> Names[n].lossy, nolfn |-> FALSE]

Entry(kind, name) ==
  [kind |-> kind, name |-> name, part |-> "", ord |-> 0, last |-> FALSE, dir |-> FALSE,
   clust |-> 0, size |-> 0]

End == Entry("end", <<"", 0>>)

\* Mutant: a deleted entry looks like the end of the directory.
Deleted_End == End

Deleted == Entry("del", <<"", 0>>)
IsFree(e) == e.kind \in {"end", "del"}

NoBlock == -1
BadOrd == 255

\* The entry that dj points at, in a window that shows its sector.
Current(S) == S.win[S.dj.dptr % DirEnts]
SetCurrent(S, e) == [S EXCEPT !.win[S.dj.dptr % DirEnts] = e, !.wflag = TRUE]
-----------------------------------------------------------------------------
\* Moving about in a table.

RECURSIVE FollowTable(_, _, _)
FollowTable(S, clst, ofs) ==
  IF clst \notin Clusters THEN Fail(S, "INT_ERR")
  ELSE IF ofs < csize * DirEnts
  THEN [S EXCEPT !.dj.clust = clst, !.dj.sect = clst2sect(clst) + ofs \div DirEnts]
  ELSE With(get_fat(S, clst), LAMBDA g :
         IF g.val = DISK_ERR THEN Fail(g, "DISK_ERR")
         ELSE FollowTable(g, g.val, ofs - csize * DirEnts))

dir_sdi(S, ofs) ==
  LET s == [S EXCEPT !.dj.dptr = ofs]
  IN  IF S.dj.sclust # 0 THEN FollowTable(s, S.dj.sclust, ofs)
      ELSE IF ofs >= n_rootdir THEN Fail(s, "INT_ERR")
      ELSE [s EXCEPT !.dj.clust = 0, !.dj.sect = dirbase + ofs \div DirEnts]

RECURSIVE ClearSectors(_, _, _)
ClearSectors(S, sect, n) ==
  IF n = csize THEN S
  ELSE Then(disk_write(S, sect + n, S.win), LAMBDA s : ClearSectors(s, sect, n + 1))

\* The window is put over the cluster.  Sectors are written one by one, as with clusters of
\* one sector or without memory for a buffer; to write all at once fails in fewer ways.
dir_clear(S, clst) ==
  Then(sync_window(S), LAMBDA s :
    ClearSectors([s EXCEPT !.winsect = clst2sect(clst), !.win = [i \in 0 .. (DirEnts - 1) |-> End]],
                 clst2sect(clst), 0))

EndOfTable(S) == Fail([S EXCEPT !.dj.sect = 0], "NO_FILE")

\* The cluster after the current one of a table, which may have to be stretched.
NextCluster(S, stretch) ==
  With(get_fat(S, S.dj.clust), LAMBDA g :
    IF g.val \in {0, 1} THEN Fail(g, "INT_ERR")
    ELSE IF g.val = DISK_ERR THEN Fail(g, "DISK_ERR")
    ELSE IF g.val < n_fatent THEN g
    ELSE IF ~stretch THEN EndOfTable(g)
    ELSE With(create_chain(g, S.dj.clust), LAMBDA c :
           IF c.val = 0 THEN Fail(c, "DENIED")
           ELSE IF c.val = 1 THEN Fail(c, "INT_ERR")
           ELSE IF c.val = DISK_ERR THEN Fail(c, "DISK_ERR")
           ELSE dir_clear(c, c.val)))

dir_next(S, stretch) ==
  LET ofs == S.dj.dptr + 1
      To(s) == [s EXCEPT !.dj.dptr = ofs]
      s1 == [S EXCEPT !.dj.sect = @ + 1]
  IN  IF S.dj.sect = 0 THEN Fail(S, "NO_FILE")
      ELSE IF ofs % DirEnts # 0 THEN To(S)
      ELSE IF S.dj.clust = 0 THEN IF ofs >= n_rootdir THEN EndOfTable(S) ELSE To(s1)
      ELSE IF (ofs \div DirEnts) % csize # 0 THEN To(s1)
      ELSE Then(NextCluster(S, stretch), LAMBDA s :
             To([s EXCEPT !.dj.clust = s.val, !.dj.sect = clst2sect(s.val)]))
-----------------------------------------------------------------------------
\* Finding and reading.

cmp_lfn(name, e) ==
  /\ e.ord \in DOMAIN name.parts
  /\ name.parts[e.ord] = e.part
  /\ e.last => e.ord = Len(name.parts)

\* The part of the search that concerns long names: lfn is its order, its sum and the
\* start of its block.
NextLfn(lfn, e, dptr, ok) ==
  LET l == IF e.last THEN [ord |-> e.ord, sum |-> e.name, blk |-> dptr] ELSE lfn
  IN  [l EXCEPT !.ord = IF e.ord = l.ord /\ e.name = l.sum /\ ok THEN @ - 1 ELSE BadOrd]

NoLfn == [ord |-> BadOrd, sum |-> <<"", 0>>, blk |-> NoBlock]

RECURSIVE FindFrom(_, _, _)
FindFrom(S, name, lfn) ==
  Then(move_window(S, S.dj.sect), LAMBDA s :
    LET e == Current(s)
        matched == e.kind = "obj" /\ (\/ lfn.ord = 0 /\ lfn.sum = e.name
                                      \/ ~name.loss /\ e.name = name.sfn)
        next == IF e.kind # "lfn" THEN NoLfn
                ELSE IF name.nolfn THEN lfn
                ELSE NextLfn(lfn, e, s.dj.dptr, cmp_lfn(name, e))
    IN  IF e.kind = "end" THEN Fail(s, "NO_FILE")
        ELSE IF matched THEN [s EXCEPT !.dj.blk = lfn.blk]
        ELSE Then(dir_next(s, FALSE), LAMBDA t : FindFrom(t, name, next)))

dir_find(S, name) == Then(dir_sdi(S, 0), LAMBDA s : FindFrom(s, name, NoLfn))

\* dir_read: on to the next object; val is the block of its long name, if it has one.
RECURSIVE ReadFrom(_, _)
ReadFrom(S, lfn) ==
  IF S.dj.sect = 0 THEN Fail(S, "NO_FILE")
  ELSE Then(move_window(S, S.dj.sect), LAMBDA s :
    LET e == Current(s)
        next == IF e.kind = "lfn" THEN NextLfn(lfn, e, s.dj.dptr, TRUE)
                ELSE [lfn EXCEPT !.ord = BadOrd]
    IN  IF e.kind = "end" THEN Fail(s, "NO_FILE")
        ELSE IF e.kind = "obj" /\ e.name # <<".", 0>> /\ e.name # <<"..", 0>>
        THEN [s EXCEPT !.dj.blk = IF lfn.ord = 0 /\ lfn.sum = e.name THEN lfn.blk ELSE NoBlock]
        ELSE Then(dir_next(s, FALSE), LAMBDA t : ReadFrom(t, next)))

dir_read(S) ==
  With(ReadFrom(S, NoLfn), LAMBDA s : IF s.res = "OK" THEN s ELSE [s EXCEPT !.dj.sect = 0])

\* A path is a sequence of names; every one but the last is a directory.
RECURSIVE FollowFrom(_, _)
FollowFrom(S, path) ==
  With(dir_find(S, create_name(Head(path))), LAMBDA s :
    IF Len(path) = 1 THEN s
    ELSE IF s.res = "NO_FILE" THEN Fail(s, "NO_PATH")
    ELSE Then(s, LAMBDA t :
           IF ~Current(t).dir THEN Fail(t, "NO_PATH")
           ELSE FollowFrom([t EXCEPT !.dj.sclust = Current(t).clust], Tail(path))))

follow_path(S, path) == FollowFrom([S EXCEPT !.dj.sclust = 0, !.dj.blk = NoBlock], path)
-----------------------------------------------------------------------------
\* Registering and removing.

RECURSIVE AllocFrom(_, _, _)
AllocFrom(S, n, n_ent) ==
  Then(move_window(S, S.dj.sect), LAMBDA s :
    LET m == IF IsFree(Current(s)) THEN n + 1 ELSE 0
    IN  IF m = n_ent THEN s
        ELSE With(dir_next(s, TRUE), LAMBDA t :
               IF t.res = "NO_FILE" THEN Fail(t, "DENIED")
               ELSE Then(t, LAMBDA u : AllocFrom(u, m, n_ent))))

dir_alloc(S, n_ent) == Then(dir_sdi(S, 0), LAMBDA s : AllocFrom(s, 0, n_ent))

\* The first number whose short name is not taken; 100 is not reached.
RECURSIVE Number(_, _, _)
Number(S, name, n) ==
  With(dir_find(S, [name EXCEPT !.sfn = <<@[1], n>>, !.nolfn = TRUE, !.loss = FALSE]), LAMBDA s :
    IF s.res = "OK" THEN Number(s, name, n + 1)
    ELSE IF s.res = "NO_FILE" THEN Value(s, n) ELSE s)

RECURSIVE PutLfn(_, _, _, _)
PutLfn(S, name, sfn, ord) ==
  IF ord = 0 THEN S
  ELSE Then(move_window(S, S.dj.sect), LAMBDA s :
    Then(dir_next(SetCurrent(s, [Entry("lfn", sfn) EXCEPT !.part = name.parts[ord], !.ord = ord,
                                                          !.last = (ord = Len(name.parts))]),
                  FALSE),
         LAMBDA t : PutLfn(t, name, sfn, ord - 1)))

\* Mutant: a numbered name is not looked for before it is used.
Numbered_First(S, name) == Value(S, 1)

Numbered(S, name) == Number(S, name, 1)

dir_register(S, n) ==
  LET name == create_name(n)
      n_ent == IF name.lfn THEN Len(name.parts) ELSE 0
  IN  Then(IF name.loss THEN Numbered(S, name) ELSE Value(S, name.sfn[2]), LAMBDA s :
        LET sfn == <<name.sfn[1], s.val>> IN
        Then(dir_alloc(s, n_ent + 1), LAMBDA t :
          Then(IF n_ent = 0 THEN t
               ELSE Then(dir_sdi(t, t.dj.dptr - n_ent), LAMBDA u : PutLfn(u, name, sfn, n_ent)),
               LAMBDA u : Then(move_window(u, u.dj.sect), LAMBDA v :
                                 SetCurrent(v, Entry("obj", sfn))))))

RECURSIVE RemoveTo(_, _)
RemoveTo(S, last) ==
  Then(move_window(S, S.dj.sect), LAMBDA s :
    LET d == SetCurrent(s, Deleted)
    IN  IF s.dj.dptr >= last THEN d ELSE Then(dir_next(d, FALSE), LAMBDA t : RemoveTo(t, last)))

dir_remove(S) ==
  With(Then(IF S.dj.blk = NoBlock THEN S ELSE dir_sdi(S, S.dj.blk), LAMBDA s :
              RemoveTo(s, S.dj.dptr)),
       LAMBDA s : IF s.res = "NO_FILE" THEN Fail(s, "INT_ERR") ELSE s)
=============================================================================
