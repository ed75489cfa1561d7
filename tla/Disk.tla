---------------------------------- MODULE Disk ----------------------------------
(***************************************************************************)
(* What disk_read and disk_write of fs/fat/diskio.c promise the file       *)
(* system: one call at a time on an array of sectors.  A call either       *)
(* begins, and then happens, or is refused before that with nothing        *)
(* changed, until the device reports an error; from then on nothing is     *)
(* promised.                                                               *)
(***************************************************************************)
EXTENDS Integers, Sequences

CONSTANTS
  Sectors,    \* the sectors that are used
  Contents,   \* what a sector may hold
  None        \* no call is in progress

VARIABLES
  store,      \* what each sector holds
  call,       \* the call in progress: op, at, n and, for a write, data
  begun,      \* the call in progress has begun: it is no longer refused
  ret,        \* the result of the last call: ok, and for a read the data
  faulty      \* the device has reported an error

vars == <<store, call, begun, ret, faulty>>

Init == call = None /\ begun = FALSE /\ faulty = FALSE

Range(c) == [i \in 1 .. c.n |-> store[c.at + i - 1]]

Call ==
  /\ call = None /\ call' # None
  /\ UNCHANGED <<store, begun, ret, faulty>>

Begin ==
  /\ call # None /\ ~begun /\ begun' = TRUE
  /\ UNCHANGED <<store, call, ret, faulty>>

StoreOne ==
  /\ begun /\ call.op = "write"
  /\ \E i \in 1 .. call.n : store' = [store EXCEPT ![call.at + i - 1] = call.data[i]]
  /\ UNCHANGED <<call, begun, ret, faulty>>

Return ==
  /\ begun /\ begun' = FALSE /\ call' = None
  /\ \/ call.op = "read" /\ ret' = [ok |-> TRUE, data |-> Range(call)]
     \/ call.op = "write" /\ Range(call) = call.data /\ ret' = [ok |-> TRUE, data |-> <<>>]
  /\ UNCHANGED <<store, faulty>>

\* At once, or after a while, but never once a sector may have been stored.
Refuse ==
  /\ ~begun /\ call' = None
  /\ ret' = [ok |-> FALSE, data |-> <<>>]
  /\ UNCHANGED <<store, begun, faulty>>

Fault == faulty' /\ UNCHANGED <<store, call, begun, ret>>

Anything == faulty /\ faulty'

Next == Call \/ Begin \/ StoreOne \/ Return \/ Refuse \/ Fault \/ Anything

Spec == Init /\ [][Next]_vars
=============================================================================
