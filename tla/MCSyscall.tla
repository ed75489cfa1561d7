------------------------------- MODULE MCSyscall -------------------------------
EXTENDS Syscall, TLC
MCPrograms == {{"memory"}, {"files"}}
Symmetry == Permutations(Users)
=============================================================================
