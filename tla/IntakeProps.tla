----------------------------- MODULE IntakeProps -----------------------------
(* Properties of Intake.                                                        *)
EXTENDS Intake

(*------------------------------ the connection ------------------------------*)

\* The messages that recv_one returns are the messages sent, in order and with
\* their values, up to the first frame that was damaged or cut; and the session
\* does not end before it.  Every reader of network/messages is the inverse of its
\* writer behind this, and every field of the envelope is checked.
DeliveredAsSent ==
    /\ Len(got) <= sent
    /\ hurt > 0 => Len(got) < hurt
    /\ \A k \in DOMAIN got :
         /\ got[k].command = CommandBytes(scen.frames[k].command)
         /\ got[k].value = scen.frames[k].value
    /\ verdict = "closed" => Len(got) = hurt - 1

(*--------------------------------- scripts ---------------------------------*)

\* The numbers of OP_ELSE met at each open level, Unbalanced once an OP_ELSE or
\* OP_ENDIF has no conditional or a level has a second OP_ELSE.
Unbalanced == <<9>>
ShapeNext(levels, op) ==
    IF levels = Unbalanced THEN Unbalanced
    ELSE CASE op \in Conditional -> Append(levels, 0)
           [] op \in {OP_ELSE, OP_ENDIF} /\ levels = <<>> -> Unbalanced
           [] op = OP_ELSE /\ levels # <<>> ->
                IF Last(levels) = 1 THEN Unbalanced ELSE Append(Front(levels), 1)
           [] op = OP_ENDIF /\ levels # <<>> -> Front(levels)
           [] OTHER -> levels

\* The levels open at the end of a list of instructions.
Shape(list) ==
    LET f[k \in 0..Len(list)] ==
          IF k = 0 THEN <<>> ELSE ShapeNext(f[k - 1], list[k].op)
    IN f[Len(list)]

\* The code is bytes, all of which are instructions with names, and its conditionals
\* are balanced.
WellFormed(code) ==
    /\ code \in Seq(Byte)
    /\ Disassembles(code)
    /\ Shape(Instructions(code, 1).list) = <<>>

\* A script read once from left to right with a flag for each open conditional: an
\* instruction runs when every flag is set.
FlaggedNext(c, s) ==
    LET m == s.m
        ins == s.list[1]
        flags == s.flags
        on == \A k \in DOMAIN flags : flags[k]
        met == IsTrue(m.main[1]) = (ins.op = OP_IF)
        turned == Append(Front(flags), ~Last(flags))
        then(n, fs) == [m |-> n, list |-> Tail(s.list), flags |-> fs]
    IN IF s.list = <<>> \/ m.ok # "go" THEN s
       ELSE CASE ins.op \in Conditional /\ on ->
                   IF m.main = <<>> THEN [s EXCEPT !.m = Raise(m)]
                   ELSE IF ~IsNum(m.main[1]) THEN [s EXCEPT !.m = Raise(m)]
                   ELSE then(op_drop(m), Append(flags, met))
              [] ins.op \in Conditional /\ ~on -> then(m, Append(flags, FALSE))
              [] ins.op = OP_ELSE -> then(m, turned)
              [] ins.op = OP_ENDIF -> then(m, Front(flags))
              [] OTHER -> then(IF on THEN Execute(m, c, ins) ELSE m, flags)
Flagged(m, c, list) ==
    Rounds(Len(list), [m |-> m, list |-> list, flags |-> <<>>], LAMBDA s : FlaggedNext(c, s)).m

\* The engine copies the branch it takes out of the script and runs it as a script
\* of its own, branch by branch.  On a well-formed script that leaves the stacks
\* and the outcome of an interpreter that reads the script once.
SameStacks(m, n) ==
    /\ m.ok = n.ok
    /\ m.ok # "raise" => m.main = n.main /\ m.alt = n.alt
ConditionalsAgree ==
    (frames = <<>> /\ (stage = "script" \/ mach.ok = "raise") /\ WellFormed(began.code)) =>
        SameStacks(Flagged(began.mach, ctx, Instructions(began.code, 1).list), mach)

\* Scripts that mean the same: SWAP is 1 ROLL, 2OVER is 3 PICK twice, and so on.
Synonymous ==
    { << <<\h7c>>, <<\h51, \h7a>> >>,              << <<\h7b>>, <<\h52, \h7a>> >>,
      << <<\h76>>, <<0, \h79>> >>,                 << <<\h78>>, <<\h51, \h79>> >>,
      << <<\h77>>, <<\h7c, \h75>> >>,              << <<\h7d>>, <<\h7c, \h78>> >>,
      << <<\h6e>>, <<\h78, \h78>> >>,              << <<\h6f>>, <<\h52, \h79, \h52, \h79, \h52, \h79>> >>,
      << <<\h72>>, <<\h53, \h7a, \h53, \h7a>> >>,  << <<\h70>>, <<\h53, \h79, \h53, \h79>> >>,
      << <<\h71>>, <<\h55, \h7a, \h55, \h7a>> >>,  << <<\h6d>>, <<\h75, \h75>> >>,
      << <<\h8b>>, <<\h51, \h93>> >>,              << <<\h8c>>, <<\h51, \h94>> >>,
      << <<\h8f>>, <<0, \h7c, \h94>> >>,           << <<\h92>>, <<\h91, \h91>> >>,
      << <<\h9f>>, <<\h7c, \ha0>> >>,              << <<\ha1>>, <<\ha0, \h91>> >>,
      << <<\ha2>>, <<\h9f, \h91>> >>,              << <<\h9e>>, <<\h9c, \h91>> >>,
      << <<\ha3>>, <<\h6e, \ha4, \h6b, \h93, \h6c, \h94>> >>,
      << <<\ha9>>, <<\ha8, \ha6>> >>,              << <<\haa>>, <<\ha8, \ha8>> >> }

\* The opcode functions agree with one another on every stack that is reached with
\* room for what they push: each moves the items it should and no other.
SameItems(run) ==
    /\ run[1].ok = run[2].ok
    /\ run[1].ok = "go" => run[1].main = run[2].main
SynonymsAgree ==
    (stage = "script" /\ frames # <<>> /\ Len(mach.main) + 3 <= MaxStack) =>
        \A pair \in Synonymous :
            SameItems([k \in 1..2 |-> Flagged(mach, ctx, Instructions(pair[k], 1).list)])

(*------------------------------ transactions ------------------------------*)

\* A message that fixes what the transaction spends and pays.
Commits(msg, tx) ==
    /\ msg.outputs = tx.outputs
    /\ msg.outpoints = Outpoints(tx)
    /\ msg.locktime = tx.locktime

\* The owners who signed this transaction among the signatures it carries.
Consenting(tx) ==
    {scen.signed[r].pub : r \in {q \in scen.carried :
        scen.signed[q].pub \in scen.owners /\ Commits(scen.signed[q].msg, tx)}}

\* A transaction is accepted only with the signatures of as many owners of the
\* output as its script asks for, each over this transaction.  The outputs of a
\* failed version 0 script are left out: the engine forgives the failure.
OnlyAuthorisedSpends ==
    (verdict = "accepted" /\ ~forgiven) =>
        \A t \in DOMAIN Brought(Last(got)) :
            Cardinality(Consenting(Brought(Last(got))[t])) >= scen.needed

\* No two inputs of an accepted message spend the same output, within a transaction
\* or across those of a block; each spends an output of the chain or one that an
\* earlier transaction of the block created.
NoOutputSpentTwice ==
    verdict = "accepted" =>
        LET txs == Brought(Last(got))
            point(t, k) == txs[t].inputs[k].outpoint
        IN \A t, u \in DOMAIN txs : \A k \in DOMAIN txs[t].inputs, l \in DOMAIN txs[u].inputs :
             /\ point(t, k) = point(u, l) => t = u /\ k = l
             /\ \/ point(t, k) \in DOMAIN scen.coins
                \/ \E e \in 1..t - 1 : point(t, k) \in DOMAIN Created(txs[e])

\* A transaction that carries the signatures its script asks for, made over the
\* messages of sig_ops, is never refused and never raises: signer and engine agree
\* on the message of every kind of output.
HonestSpendsAccepted ==
    (stage = "done" /\ scen.honest) => verdict = "accepted"
=============================================================================
