------------------------------- MODULE MCChain -------------------------------
(***************************************************************************)
(* A tree of ten blocks for TLC.                                           *)
(*                                                                         *)
(*           /--- y2                                                       *)
(*     g -- a1 -- a2                                                       *)
(*      \    \--- c2 -- c3                                                 *)
(*       \-- b1 -- b2 -- b3                                                *)
(*            \--- x2                                                      *)
(*                                                                         *)
(* a1 and b1 confirm the same transaction, which spends the coinbase of g; *)
(* a2, c2 and b2 spend its output in different ways; b3 repeats the        *)
(* coinbase of b1 and is a historical exception; x2 fails only once it is  *)
(* connected; y2 spends an output its branch does not have.  The subsidy   *)
(* halves at height 2, where every block claims the old one, and the       *)
(* target is lowered at height 3.                                          *)
(***************************************************************************)
EXTENDS ChainStarts

CONSTANTS g, a1, a2, b1, b2, b3, c2, c3, x2, y2

MCBlocks == {g, a1, a2, b1, b2, b3, c2, c3, x2, y2}
MCPrev == g :> NoBlock @@ a1 :> g @@ a2 :> a1 @@ b1 :> g @@ b2 :> b1 @@ b3 :> b2
          @@ c2 :> a1 @@ c3 :> c2 @@ x2 :> b1 @@ y2 :> a1
MCHeight == [b \in MCBlocks |-> CASE b = g -> 0
                                   [] b \in {a1, b1} -> 1
                                   [] b \in {a2, b2, c2, x2, y2} -> 2
                                   [] b \in {b3, c3} -> 3]
MCBits == [b \in MCBlocks |-> IF MCHeight[b] = 3 THEN 1 ELSE 3]
MCTime == [b \in MCBlocks |-> IF b = b3 THEN 5 ELSE MCHeight[b]]
MCWork == [b \in MCBlocks |-> IF MCHeight[b] = 3 THEN 10 ELSE 2 * (MCHeight[b] + 1)]
MCOutpoints ==
    {"cg", "ca1", "ca2", "cb1", "cb2", "cc2", "cc3", "cx2", "cy2", "p", "q", "r"}
MCAmount == [o \in MCOutpoints |-> CASE o \in {"p", "q", "r"} -> 3
                                      [] o = "ca1" -> 5
                                      [] o \in {"cb1", "cc3"} -> 2
                                      [] OTHER -> 4]
Coinbase(o) == [ins |-> {}, outs |-> {o}]
Spend(i, o) == [ins |-> {i}, outs |-> {o}]
MCBody ==
    g  :> <<Coinbase("cg")>> @@
    a1 :> <<Coinbase("ca1"), Spend("cg", "p")>> @@
    a2 :> <<Coinbase("ca2"), Spend("p", "q")>> @@
    b1 :> <<Coinbase("cb1"), Spend("cg", "p")>> @@
    b2 :> <<Coinbase("cb2"), Spend("p", "r")>> @@
    b3 :> <<Coinbase("cb1")>> @@
    c2 :> <<Coinbase("cc2"), Spend("ca1", "r")>> @@
    c3 :> <<Coinbase("cc3"), Spend("p", "q")>> @@
    x2 :> <<Coinbase("cx2")>> @@
    y2 :> <<Coinbase("cy2"), Spend("q", "r")>>
MCFlaw == [b \in MCBlocks |-> IF b = x2 THEN "script" ELSE "none"]
MCSize == [b \in MCBlocks |-> IF b \in {b3, a2} THEN 2 ELSE IF b = x2 THEN 4 ELSE 1]

(* Variants of the tree for single questions. *)

\* The first retarget, at height 2, lowers the target; c3 goes back to the
\* target of the genesis block, which its height does not allow.
MCTimeRetarget == [b \in MCBlocks |-> 2 * MCHeight[b]]
MCBitsRetarget == [b \in MCBlocks |-> IF MCHeight[b] >= 2 /\ b # c3 THEN 1 ELSE 3]
MCWorkRetarget ==
    [b \in MCBlocks |-> CASE MCHeight[b] < 2 -> 2 * (MCHeight[b] + 1)
                           [] b = c3 -> 10
                           [] OTHER -> 4 * MCHeight[b]]
=============================================================================
