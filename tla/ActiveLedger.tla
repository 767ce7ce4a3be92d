----------------------------- MODULE ActiveLedger -----------------------------
(***************************************************************************)
(* What the chain state promises its readers: an active branch, legal to   *)
(* its last block, and the ledger of exactly that branch.  The branch      *)
(* changes in one step, and only for one with more work; wiping the chain  *)
(* goes back to the first block.                                           *)
(***************************************************************************)
EXTENDS BlockRules

VARIABLES
    best,    \* the last block of the active branch
    ledger   \* the unspent outputs

Start == best = Genesis /\ ledger = LedgerAt[Genesis]

Adopt(b) ==
    /\ LegalBranch(b)
    /\ ChainWork[b] > ChainWork[best]
    /\ best' = b
    /\ ledger' = LedgerAt[b]

Forget == best' = Genesis /\ ledger' = LedgerAt[Genesis]

Change == Forget \/ \E b \in Blocks : Adopt(b)

Promise == Start /\ [][Change]_<<best, ledger>>
=============================================================================
