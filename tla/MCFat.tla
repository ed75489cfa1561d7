--------------------------------- MODULE MCFat ---------------------------------
(***************************************************************************)
(* Volumes of a few clusters, on which the disk soon is full, the FAT and  *)
(* the directories span several sectors, and names collide.                *)
(***************************************************************************)
EXTENDS FatFs

Short(n) == [parts |-> <<n>>, body |-> n, lossy |-> FALSE, mixed |-> FALSE]
Mixed(n) == [parts |-> <<n>>, body |-> n, lossy |-> FALSE, mixed |-> TRUE]
Long(n) == [parts |-> <<"long", n>>, body |-> "LONG", lossy |-> TRUE, mixed |-> FALSE]

MCNames ==
  [n \in {"a", "b"} |-> Short(n)] @@ [n \in {"d"} |-> Mixed(n)] @@ [n \in {"x", "y"} |-> Long(n)]

AnyHandle == CHOOSE h \in Handles : TRUE

\* A volume on which the file p has been written.
Written(S, p, data) ==
  f_close(f_write(f_open(S, AnyHandle, p, {"WRITE", "CREATE_ALWAYS"}), AnyHandle, data), AnyHandle)

Blank == Fresh(Formatted)

Both == {"READ", "WRITE"}
NoNames == [h \in Handles |-> NoFile]
OneFile == Written(Blank, <<"a">>, <<1001, 1002, 1003, 1004, 1005>>)

\* Two files are open, one of them empty.
TwoOpen(mode) ==
  LET h1 == AnyHandle
      h2 == CHOOSE h \in Handles : h # h1
      s == Written(OneFile, <<"b">>, <<>>)
  IN  [fs |-> Finish(f_open(f_open(s, h1, <<"a">>, mode), h2, <<"b">>, Both)),
       name |-> [NoNames EXCEPT ![h1] = <<"a">>, ![h2] = <<"b">>]]

OneName == [fs |-> Finish(f_mkdir(Written(Blank, <<"x">>, <<1001>>), <<"d">>)), name |-> NoNames]
Changes == {"open", "close", "unlink", "mkdir", "rename"}
AnyPath == {<<"a">>, <<"x">>, <<"y">>, <<"d">>, <<"d", "x">>}
New == {Both \cup {"CREATE_NEW"}, Both \cup {"OPEN_ALWAYS"}}

MCStarts ==
  [data |-> TwoOpen(Both), long |-> TwoOpen({"READ"}),
   files |-> [fs |-> Finish(OneFile), name |-> NoNames],
   names |-> OneName, broken |-> OneName, listing |-> OneName]

\* Long sequences without a fault, shorter ones with a fault in any access.
MCScenes ==
  [data |->
     [paths |-> {<<"a">>, <<"b">>}, modes |-> {}, sizes |-> {1, 5}, offsets |-> {7},
      calls |-> {"read", "write", "seek", "truncate", "sync", "close"}, ops |-> 4, faults |-> 1],
   long |->
     [paths |-> {<<"a">>, <<"b">>}, modes |-> {}, sizes |-> {3}, offsets |-> {1, 8},
      calls |-> {"read", "write", "seek", "truncate"}, ops |-> 5, faults |-> 0],
   files |->
     [paths |-> {<<"a">>, <<"b">>}, sizes |-> {5}, offsets |-> {},
      modes |-> {{"READ"}, Both \cup {"CREATE_ALWAYS"}, {"WRITE", "OPEN_APPEND"}},
      calls |-> {"open", "write", "close", "unlink", "getfree"}, ops |-> 4, faults |-> 1],
   names |->
     [paths |-> AnyPath, sizes |-> {}, offsets |-> {}, modes |-> New,
      calls |-> Changes, ops |-> 3, faults |-> 0],
   broken |->
     [paths |-> AnyPath, sizes |-> {}, offsets |-> {}, modes |-> New,
      calls |-> Changes, ops |-> 2, faults |-> 1],
   listing |->
     [paths |-> {<<"a">>, <<"x">>, <<"y">>, <<"d">>}, sizes |-> {}, offsets |-> {},
      modes |-> {Both \cup {"CREATE_NEW"}},
      calls |-> {"open", "unlink", "opendir", "readdir", "closedir"}, ops |-> 6, faults |-> 0]]
=============================================================================
