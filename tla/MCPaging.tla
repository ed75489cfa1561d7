------------------------------- MODULE MCPaging -------------------------------
(******************************************************************************)
(* Tables of two entries: sixteen virtual pages, of which five are used.      *)
(* Four pages of memory: a device in page 0, which shares its table with      *)
(* the kernel in page 1, and the framebuffer in page 2, where both loops of   *)
(* paging_init write.  Programs use page 12, which shares only the root with  *)
(* them.  Of the two things they map, one has a frame that does not fit in an *)
(* entry and an address that is not aligned.                                  *)
(******************************************************************************)
EXTENDS Paging
MCVirtuals == (0 .. 3) \cup {12}
MCDevicePages == {0}
MCUserPages == {12}
MCPhysicals == {[frame |-> 35, low |-> {CACHE_DISABLED}], [frame |-> 5, low |-> {}]}
MCUserFlags == {{}}
MCGarbage == [addr |-> 1, flags |-> {PRESENT}]
=============================================================================
