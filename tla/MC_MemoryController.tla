------------------------ MODULE MC_MemoryController ------------------------
(***************************************************************************)
(* Instances of MemoryController for TLC.  Timing is in memory cycles,    *)
(* scaled down from a DDR3 profile while keeping the relations the        *)
(* controller depends on: BL/2 > tCCD, tRC = tRAS + tRP, tRCD - AL >=      *)
(* BL/2 - 1, RL > WL.                                                      *)
(***************************************************************************)
EXTENDS MemoryController, TLC

\* addressMapping: three addresses of rank 0 -- two rows of bank 0 and one
\* row of bank 1.
MC_Addrs1 == {64, 128, 192}
MC_AddrMap1 == (64  :> [rank |-> 0, bank |-> 0, row |-> 1]) @@
               (128 :> [rank |-> 0, bank |-> 0, row |-> 2]) @@
               (192 :> [rank |-> 0, bank |-> 1, row |-> 1])

\* Two ranks: an address in each rank.
MC_Addrs2 == {64, 320}
MC_AddrMap2 == (64  :> [rank |-> 0, bank |-> 0, row |-> 1]) @@
               (320 :> [rank |-> 1, bank |-> 0, row |-> 1])
=============================================================================
