----------------------------- MODULE Bootloader -----------------------------
(***************************************************************************)
(* The end of the UEFI application, gnu-efi/bootloader/main.c: efi_main    *)
(* takes the memory map, looks for the RSDP, leaves the boot services and  *)
(* calls the kernel.  The firmware may change its memory map whenever the  *)
(* application is between two calls (timer events allocate), and each      *)
(* change makes the keys handed out before worthless.                      *)
(*                                                                         *)
(* Sizes are counted in descriptors; the version of the map stands for its *)
(* key and its contents.                                                   *)
(***************************************************************************)
EXTENDS Integers, Sequences

CONSTANTS
  Growth,        \* bound: by how many descriptors the map grows
  RsdpTables     \* the possible sequences of ACPI 2.0 configuration tables

ASSUME GrowthAssumption == Growth \in Nat

Unknown == [version |-> -1, size |-> 0]
NULL == "NULL"

VARIABLES
  efi,           \* the next step of efi_main
  firmware,      \* the firmware's memory map
  tables,        \* the ACPI 2.0 tables of the firmware: "valid" or "broken"
  Map, MapSize, MapKey, capacity,     \* the buffer, and what is known of it
  rsdp

efiVars == <<efi, firmware, tables, Map, MapSize, MapKey, capacity, rsdp>>

InitBootloader ==
  /\ efi = "probe"
  /\ firmware = [version |-> 0, size |-> 1]
  /\ tables \in RsdpTables
  /\ Map = Unknown /\ MapSize = 0 /\ MapKey = -1 /\ capacity = 0
  /\ rsdp = NULL

(* The firmware allocates for itself: between two steps of efi_main, and   *)
(* inside the calls of efi_main that allocate or print.                    *)
NewMap ==
  \E size \in {firmware.size, firmware.size + 1} :
    /\ size <= 1 + Growth
    /\ firmware.version <= Growth
    /\ firmware' = [version |-> firmware.version + 1, size |-> size]

MapChanges == NewMap \/ UNCHANGED firmware

(* GetMemoryMap: a buffer that is too small is told the size needed.       *)
GetMemoryMap ==
  /\ MapSize' = firmware.size
  /\ IF firmware.size > MapSize
     THEN UNCHANGED <<Map, MapKey>>
     ELSE Map' = firmware /\ MapKey' = firmware.version

BufferTooSmall == firmware.size > MapSize

Go(from, to) == efi = from /\ efi' = to

ProbeSize ==
  /\ Go("probe", "allocate")
  /\ GetMemoryMap
  /\ UNCHANGED <<firmware, tables, capacity, rsdp>>

(* Two descriptors more than the map has now; without the memory for them  *)
(* efi_main stops.                                                         *)
AllocateMap ==
  /\ MapSize' = MapSize + 2
  /\ \/ Go("allocate", "get") /\ capacity' = MapSize'
     \/ Go("allocate", "stuck") /\ UNCHANGED capacity
  /\ MapChanges
  /\ UNCHANGED <<tables, Map, MapKey, rsdp>>

(* From here on MapSize is the size of the map, no longer of the buffer.   *)
GetMap ==
  /\ Go("get", IF BufferTooSmall THEN "stuck" ELSE "rsdp")
  /\ GetMemoryMap
  /\ UNCHANGED <<firmware, tables, capacity, rsdp>>

(* The loop leaves at the first table whose checksum is right and keeps    *)
(* the last one it saw otherwise.  The checksum is printed.                *)
FindRsdp ==
  /\ Go("rsdp", "refresh")
  /\ rsdp' = IF \E i \in DOMAIN tables : tables[i] = "valid" THEN "valid"
             ELSE IF tables # <<>> THEN tables[Len(tables)] ELSE NULL
  /\ MapChanges
  /\ UNCHANGED <<tables, Map, MapSize, MapKey, capacity>>

(* The result of this call is not looked at.                               *)
RefreshMap ==
  /\ Go("refresh", "exit")
  /\ GetMemoryMap
  /\ UNCHANGED <<firmware, tables, capacity, rsdp>>

ExitBootServices_Unchecked ==
  /\ Go("exit", "started")
  /\ UNCHANGED <<firmware, tables, Map, MapSize, MapKey, capacity, rsdp>>

ExitBootServices ==
  /\ Go("exit", IF MapKey = firmware.version THEN "started" ELSE "stuck")
  /\ UNCHANGED <<firmware, tables, Map, MapSize, MapKey, capacity, rsdp>>

efi_main ==
  ProbeSize \/ AllocateMap \/ GetMap \/ FindRsdp \/ RefreshMap \/ ExitBootServices

FirmwareEvent ==
  /\ efi \notin {"started", "stuck"}
  /\ NewMap
  /\ UNCHANGED <<efi, tables, Map, MapSize, MapKey, capacity, rsdp>>

-----------------------------------------------------------------------------

(* The kernel starts with the memory map the firmware had when it gave up  *)
(* control, with the right length, all of it inside the buffer, and with a *)
(* valid RSDP if the firmware has one (main.c: the three calls of          *)
(* GetMemoryMap around an AllocatePool and a Print that may change it).    *)
MapIsCurrent ==
  efi = "started" =>
    /\ Map = firmware
    /\ MapSize = firmware.size /\ MapSize <= capacity
    /\ (\E i \in DOMAIN tables : tables[i] = "valid") => rsdp = "valid"
=============================================================================
