------------------------------ MODULE ChainStarts ------------------------------
(***************************************************************************)
(* The chain state with a history: the blocks the program has been led to  *)
(* expect another target of.  After a start the cached target is that of   *)
(* the first block, until the next block is connected or disconnected.     *)
(***************************************************************************)
EXTENDS ChainProps

VARIABLE misjudged

StartedInit == Init /\ misjudged = {}

\* A start on a tip misjudges the tip's children whose target does not follow
\* from that of the first block.
StartedNext ==
    /\ Next
    /\ misjudged' = IF Restart
                    THEN misjudged \cup {x \in Blocks : Prev[x] = DbTip(db) /\ ~ FreshBits(x)}
                    ELSE misjudged

StartedSpec     == StartedInit /\ [][StartedNext]_<<vars, misjudged>>
StartedFairSpec == StartedSpec /\ WF_vars(Running)

\* In an archival node a block is marked invalid only if its branch breaks a
\* rule: a failed reorganisation condemns no block but the one at fault and
\* its descendants (mark_block_branch_invalid).  The target is one of the rules:
\* the one the branch prescribes and, where the program has been started on the
\* parent, the one it then expects.
InvalidIsEarned ==
    storage = "archival" =>
        \A b \in Blocks : db.status[b] = "invalid" =>
            \/ ~ LegalBranch(b)
            \/ \E x \in Branch[b] \ {Genesis} : ~ RightBits(x) \/ x \in misjudged
=============================================================================
