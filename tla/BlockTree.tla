------------------------------ MODULE BlockTree ------------------------------
(***************************************************************************)
(* The blocks a node can be shown, as constant data: every block names its *)
(* parent, and carries a header (target, timestamp) and a list of          *)
(* transactions.  A block's hash is its identity, so two nodes of the tree *)
(* are two members of Blocks.  What the code derives when it indexes a     *)
(* block - its height and the cumulative work of its branch - depends on   *)
(* the block alone and is constant too.                                    *)
(*                                                                         *)
(* Targets are integers: the compact form of src/src/data/target_bits.py   *)
(* represents every integer below 2^23 exactly, and no larger one is used. *)
(***************************************************************************)
EXTENDS Integers, Sequences, FiniteSets, FiniteSetsExt

CONSTANTS
    Blocks,            \* every block that can be submitted
    Genesis,           \* the hard-coded first block
    NoBlock,           \* "None", and the parent of Genesis
    Prev,              \* header.prev_block
    Height,            \* block_index.height
    Bits,              \* header.bits, as the target it stands for
    Time,              \* header.timestamp
    ChainWork,         \* block_index.chainwork
    MaxTarget,         \* 2^256 - 1, scaled down
    Outpoints,         \* every txid:vout that some block creates or spends
    Amount,            \* the value of an output
    Body,              \* block.txs, the coinbase first
    Bip30Exceptions    \* the historical blocks allowed to overwrite outputs

\* calc_block_work: the expected number of hashes a target stands for.
BlockWork(t) == (MaxTarget + 1) \div (t + 1)

\* A transaction: the outpoints it spends and those it creates.  The null
\* outpoint of a coinbase is never looked up, so a coinbase spends nothing.
Tx == [ins : SUBSET Outpoints, outs : SUBSET Outpoints]

\* A row of the utxos table: the outpoint and the block that created it, which
\* fixes the height, the coinbase flag and the amount of the row.
Coins == [op : Outpoints, by : Blocks]

\* A hash has 256 bits, so there are finitely many blocks, and finitely many
\* outpoints.
ASSUME TreeAssumption ==
    /\ IsFiniteSet(Blocks)
    /\ Genesis \in Blocks
    /\ NoBlock \notin Blocks
    /\ Prev \in [Blocks -> Blocks \cup {NoBlock}]
    /\ \A b \in Blocks : Prev[b] = NoBlock <=> b = Genesis
    /\ Height \in [Blocks -> Nat] /\ Height[Genesis] = 0
    /\ \A b \in Blocks \ {Genesis} : Height[b] = Height[Prev[b]] + 1

ASSUME WorkAssumption ==
    /\ MaxTarget \in Nat
    /\ Bits \in [Blocks -> 1 .. MaxTarget]
    /\ ChainWork \in [Blocks -> Nat]
    /\ ChainWork[Genesis] = BlockWork(Bits[Genesis])
    /\ \A b \in Blocks \ {Genesis} :
          ChainWork[b] = ChainWork[Prev[b]] + BlockWork(Bits[b])

ASSUME BodyAssumption ==
    /\ IsFiniteSet(Outpoints)
    /\ Time \in [Blocks -> Nat]
    /\ Amount \in [Outpoints -> Nat]
    /\ Body \in [Blocks -> Seq(Tx)]
    /\ \A b \in Blocks : Body[b] # << >> /\ Body[b][1].ins = {}
    /\ Bip30Exceptions \subseteq Blocks

-----------------------------------------------------------------------------
(* Branches *)

\* The branch that ends in b, b included: the blocks every set holds that
\* holds b and is closed under "parent of".
Branch == [b \in Blocks |->
    {a \in Blocks :
        \A S \in SUBSET Blocks :
            (b \in S /\ \A x \in S : Prev[x] \in Blocks => Prev[x] \in S)
            => a \in S}]

Ancestor(b, h) == CHOOSE a \in Branch[b] : Height[a] = h

-----------------------------------------------------------------------------
(* What a block does to the ledger *)

\* The outpoints the non-coinbase transactions of a block spend, and those all
\* of its transactions create.
Spends == [b \in Blocks |->
    UNION {Body[b][i].ins : i \in 1 .. Len(Body[b])}]
Creates == [b \in Blocks |->
    UNION {Body[b][i].outs : i \in 1 .. Len(Body[b])}]

\* The rows a block deletes and the rows it inserts (_block_utxo_delta): an
\* output spent in its own block is never inserted, and an exception to BIP30
\* replaces the rows it overwrites.
Deletes == [b \in Blocks |->
    Spends[b] \cup IF b \in Bip30Exceptions THEN Creates[b] ELSE {}]
Inserts(b) == {[op |-> o, by |-> b] : o \in Creates[b] \ Spends[b]}

Ops(coins) == {c.op : c \in coins}
Without(coins, ops) == {c \in coins : c.op \notin ops}

-----------------------------------------------------------------------------
(* The reference ledger, stated without any step: an output is unspent     *)
(* after a branch when a block of the branch created it and no later block *)
(* of the branch spent it or replaced it.                                  *)
UnspentIn(branch) ==
    {c \in Coins :
        /\ c.by \in branch
        /\ c.op \in Creates[c.by] \ Spends[c.by]
        /\ \A x \in branch : Height[x] > Height[c.by] => c.op \notin Deletes[x]}

LedgerAt == [b \in Blocks |-> UnspentIn(Branch[b])]

Value(ops) == MapThenSumSet(LAMBDA o : Amount[o], ops)
=============================================================================
