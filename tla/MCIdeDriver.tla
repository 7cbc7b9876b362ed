---------------------------- MODULE MCIdeDriver ----------------------------
(* The bytes ide_check_disk fills its blocks with: 0xff in the loops, 0xab,  *)
(* 0xca and 0x22 in the single blocks.                                       *)
EXTENDS IdeDriver, TLC

CONSTANTS ab, ca, d22

TestPattern == 1 :> ab @@ 3 :> ca @@ 5 :> ab @@ 2 :> d22
=============================================================================
