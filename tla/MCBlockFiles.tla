---------------------------- MODULE MCBlockFiles ----------------------------
(* Four blocks, of which a packed file holds two or three. *)
EXTENDS BlockFiles

CONSTANTS s1, s2, s3, big

MCBlocks == {s1, s2, s3, big}
MCSize == [b \in MCBlocks |-> IF b = big THEN 3 ELSE IF b = s3 THEN 2 ELSE 1]
=============================================================================
