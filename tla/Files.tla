--------------------------------- MODULE Files ---------------------------------
(***************************************************************************)
(* What the file system promises the programs that use it: named files     *)
(* with contents, and handles on them.  Until a file is synced it is        *)
(* unsettled, and the loss of power may change it; a call in which the      *)
(* disk fails may change the names it was given, and makes them doubtful   *)
(* until the next loss of power, as a later sync does not write again what  *)
(* this one did not.                                                       *)
(***************************************************************************)
EXTENDS Integers, Sequences

CONSTANTS
  Handles,
  Paths,      \* sequences of names
  Sizes,      \* how much a call may write
  Offsets,    \* where a seek may go
  Absent, Directory, NoFile

VARIABLES
  file,       \* Absent, Directory or a sequence of units, for each path
  at,         \* path and position for each handle, or NoFile
  unsettled, doubtful,
  got,        \* what the last call read
  serial      \* the number of writes so far

vars == <<file, at, unsettled, doubtful, got, serial>>

IsFile(p) == file[p] \notin {Absent, Directory}

\* Files may be open, as they were left by the last sync.
Init ==
  /\ \A h \in Handles : at[h] = NoFile \/ IsFile(at[h].path)
  /\ unsettled = {} /\ doubtful = {} /\ got = <<>> /\ serial = 0

IsOpen(p) == \E h \in Handles : at[h] # NoFile /\ at[h].path = p

\* The path is p or leads through it.
Under(p) == {q \in Paths : Len(q) >= Len(p) /\ SubSeq(q, 1, Len(p)) = p}

Same(ps) == \A p \in Paths \ ps : file'[p] = file[p]
Unsettle(p) == unsettled' = unsettled \cup {p} /\ UNCHANGED doubtful
Keep == UNCHANGED <<unsettled, doubtful>>
Silent == got' = <<>>

\* Units of s from position n on replaced by those of d.
Overlay(s, n, d) ==
  [i \in 1 .. (IF n + Len(d) > Len(s) THEN n + Len(d) ELSE Len(s)) |->
     IF i - n \in DOMAIN d THEN d[i - n] ELSE s[i]]

\* No two writes write the same.
Data(n, k) == [i \in 1 .. k |-> 10 * n + i]

\* A call on an open handle that puts it at position n.
On(h, n) == at' = [at EXCEPT ![h].pos = n]

\* The handle can be used: a seek that failed may have left it behind the end of the file.
Ready(h) == at[h] # NoFile /\ at[h].pos <= Len(file[at[h].path])

Open(h) ==
  \E p \in Paths :
    /\ at[h] = NoFile /\ IsFile(p)
    /\ \E n \in {0, Len(file[p])} : at' = [at EXCEPT ![h] = [path |-> p, pos |-> n]]
    /\ Same({}) /\ Keep /\ Silent

Create(h) ==
  \E p \in Paths :
    /\ at[h] = NoFile /\ file[p] # Directory /\ file'[p] = <<>>
    /\ at' = [at EXCEPT ![h] = [path |-> p, pos |-> 0]]
    /\ Same({p}) /\ Unsettle(p) /\ Silent

\* As much as there is.
Read(h) ==
  /\ Ready(h)
  /\ \E n \in at[h].pos .. Len(file[at[h].path]) :
       got' = SubSeq(file[at[h].path], at[h].pos + 1, n) /\ On(h, n)
  /\ Same({}) /\ Keep

\* As much as there is room for.
Write(h) ==
  /\ Ready(h) /\ serial' = serial + 1
  /\ \E k \in Sizes : \E n \in 0 .. k :
       /\ file'[at[h].path] = Overlay(file[at[h].path], at[h].pos, SubSeq(Data(serial, k), 1, n))
       /\ On(h, at[h].pos + n)
  /\ Same({at[h].path}) /\ Unsettle(at[h].path) /\ Silent

\* Behind the end the file grows, by units that are not defined, or the seek is clipped.
Seek(h) ==
  /\ Ready(h)
  /\ \E n \in Offsets : LET p == at[h].path
     IN  \/ On(h, IF n < Len(file[p]) THEN n ELSE Len(file[p])) /\ Same({}) /\ Keep
         \/ /\ n > Len(file[p]) /\ at'[h] # NoFile
            /\ Len(file'[p]) \in Len(file[p]) .. n
            /\ SubSeq(file'[p], 1, Len(file[p])) = file[p]
            /\ On(h, Len(file'[p])) /\ Same({p}) /\ Unsettle(p)
  /\ Silent

Truncate(h) ==
  /\ Ready(h)
  /\ file'[at[h].path] = SubSeq(file[at[h].path], 1, at[h].pos)
  /\ Same({at[h].path}) /\ Unsettle(at[h].path) /\ Silent
  /\ UNCHANGED at

\* From now on the file is safe, unless a call on it has failed.
Settle(p) == unsettled' = unsettled \ ({p} \ doubtful) /\ UNCHANGED doubtful

Sync(h) == at[h] # NoFile /\ Same({}) /\ Settle(at[h].path) /\ Silent /\ UNCHANGED at

Close(h) ==
  /\ at[h] # NoFile /\ at' = [at EXCEPT ![h] = NoFile]
  /\ Same({at[h].path} \cap doubtful) /\ Settle(at[h].path) /\ Silent

Unlink ==
  \E p \in Paths :
    /\ file[p] # Absent /\ ~IsOpen(p)
    /\ \A q \in Under(p) \ {p} : file[q] = Absent
    /\ file'[p] = Absent /\ Same({p}) /\ Settle(p) /\ Silent /\ UNCHANGED at

Mkdir ==
  \E p \in Paths :
    /\ file[p] = Absent /\ file'[p] = Directory
    /\ Same({p}) /\ Settle(p) /\ Silent /\ UNCHANGED at

\* A directory takes what is in it along.
Moved(p, q, r) == IF r \in Under(p) THEN q \o SubSeq(r, Len(p) + 1, Len(r)) ELSE r

Rename ==
  \E p, q \in Paths :
    /\ file[p] # Absent /\ ~IsOpen(p) /\ (p = q \/ file[q] = Absent)
    /\ \A r \in Under(p) : Moved(p, q, r) \in Paths /\ file'[Moved(p, q, r)] = file[r]
    /\ \A r \in Under(p) : p # q => file'[r] = Absent
    /\ Same(Under(p) \cup Under(q))
    /\ at' = [h \in Handles |-> IF at[h] = NoFile THEN NoFile
                                ELSE [at[h] EXCEPT !.path = Moved(p, q, @)]]
    /\ unsettled' = {Moved(p, q, r) : r \in unsettled \ ({p, q} \ doubtful)}
    /\ doubtful' = {Moved(p, q, r) : r \in doubtful}
    /\ Silent

\* A call is refused, and nothing has changed.
Refuse == Same({}) /\ Keep /\ Silent /\ UNCHANGED at

\* The disk has refused an access: the paths given to the call are in doubt.
Fail ==
  \E p, q \in Paths :
    LET ps == Under(p) \cup Under(q)
    IN  /\ Same(ps)
        /\ unsettled' = unsettled \cup ps /\ doubtful' = doubtful \cup ps
        /\ \A h \in Handles : at'[h] # at[h] => at[h] = NoFile \/ at[h].path \in ps

\* Everything settled is still there, but for the paths of a call in progress.
PowerLoss ==
  \E p, q \in Paths :
    /\ Same(unsettled \cup Under(p) \cup Under(q))
    /\ at' = [h \in Handles |-> NoFile]
    /\ unsettled' = {} /\ doubtful' = {} /\ Silent

Next ==
  \/ /\ \/ \E h \in Handles : \/ Open(h) \/ Create(h) \/ Read(h) \/ Seek(h)
                              \/ Truncate(h) \/ Sync(h) \/ Close(h)
        \/ Unlink \/ Mkdir \/ Rename
     /\ UNCHANGED serial
  \/ \E h \in Handles : Write(h)
  \/ Refuse \/ Fail \/ PowerLoss

Spec == Init /\ [][Next]_vars
=============================================================================
