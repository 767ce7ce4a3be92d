------------------------------- MODULE Intake -------------------------------
(* A connection of a ready peer, from the bytes on the wire to the verdict on the *)
(* transactions they carry: Transport.recv_one, validate_loaded_tx,               *)
(* validate_tx_scripts and the ScriptEngine that runs the scripts of every input  *)
(* one instruction at a time.                                                    *)
(*                                                                              *)
(* The peer sends the frames of one scenario in order.  A frame may be damaged on *)
(* its way and the connection may end in the middle of it.  An exception that the  *)
(* validation lets out is the verdict "raised".                                   *)
EXTENDS Wire

CONSTANT Scenarios      \* a function to records [frames, faulty, validated, coins, ...]

VARIABLES
    scen,       \* the scenario of this behaviour
    sent,       \* how many of its frames were sent
    hurt,       \* the number of the frame that was damaged or cut, 0 if none
    wire,       \* the bytes that arrived and were not read
    open,       \* the peer has not closed the connection
    head,       \* the header whose payload is read next, or None
    got,        \* the messages that recv_one returned
    stage,      \* "wire", "tx", "input", "script" or "done"
    todo,       \* the transactions of the message that wait for validation
    seen,       \* the outpoints spent by those before them
    coins,      \* the outputs they may spend: of the chain, of those before them
    ctx,        \* ScriptExecutionContext of the input
    mach,       \* the engine
    frames,     \* the script and the branches being executed, the innermost last
    phase,      \* which script of the input this is
    redeem,     \* the redeem script of a P2SH input
    began,      \* the engine and the script when the execution began
    forgiven,   \* a failed witness script was accepted
    verdict     \* "", "accepted", "refused", "raised" or "closed"
connection == <<sent, hurt, wire, open, head, got>>
script == <<ctx, mach, frames, phase, redeem, began, forgiven>>
vars == <<scen, connection, stage, todo, seen, coins, script, verdict>>

NoContext == [i |-> 0]

Init ==
    /\ \E k \in DOMAIN Scenarios : scen = Scenarios[k]
    /\ sent = 0 /\ hurt = 0 /\ wire = <<>> /\ open = TRUE /\ head = None /\ got = <<>>
    /\ stage = "wire" /\ todo = <<>> /\ seen = {} /\ coins = scen.coins
    /\ ctx = NoContext /\ mach = Engine /\ frames = <<>> /\ phase = "" /\ redeem = <<>>
    /\ began = [mach |-> Engine, code |-> <<>>] /\ forgiven = FALSE
    /\ verdict = ""

Settle(v) == stage' = "done" /\ verdict' = v

(*------------------------------- the connection -------------------------------*)

Frame(f) == Envelope(Magic, CommandBytes(f.command), Payload(f.command, f.value))

\* What the peer writes to its socket are bytes, and this network is not the only one.
ASSUME FramesAssumption ==
    \A k \in DOMAIN Scenarios :
      LET list == Scenarios[k].frames
      IN Len(list) \in Nat /\ \A j \in 1..Len(list) : Frame(list[j]) \in Seq(Byte) \ {<<>>}
ASSUME MagicAssumption ==
    AllowedMagic \subseteq Seq(Byte) /\ \E other \in AllowedMagic : other # Magic

\* What may happen to a frame: another network's magic, one that nobody knows,
\* bytes after the padding of the command, a size or a payload that is not the one
\* the checksum was made for.
Faults == {"none", "magic", "unknown", "padding", "size", "payload"}
Damage(b, fault) ==
    CASE fault = "magic" -> (CHOOSE x \in AllowedMagic : x # Magic) \o Drop(b, 4)
      [] fault = "unknown" -> [b EXCEPT ![1] = 255 - @]
      [] fault = "padding" -> [b EXCEPT ![16] = 1]
      [] fault = "size" -> [b EXCEPT ![17] = (@ + 1) % 256]
      [] fault = "payload" -> [b EXCEPT ![Len(b)] = 255 - @]
      [] OTHER -> b

\* Transport.send at the peer.
Send ==
    /\ stage = "wire" /\ open /\ sent < Len(scen.frames)
    /\ \E fault \in IF scen.faulty THEN Faults ELSE {"none"} :
         /\ wire' = wire \o Damage(Frame(scen.frames[sent + 1]), fault)
         /\ hurt' = IF hurt = 0 /\ fault # "none" THEN sent + 1 ELSE hurt
    /\ sent' = sent + 1
    /\ UNCHANGED <<scen, open, head, got, stage, todo, seen, coins, script, verdict>>

\* The peer closes, between two frames or with a part of one sent.
Close ==
    /\ stage = "wire" /\ open /\ scen.faulty
    /\ \/ wire' = wire
       \/ /\ sent < Len(scen.frames)
          /\ \E b \in {Frame(scen.frames[sent + 1])} :
               wire' \in {wire \o Take(b, 1), wire \o Take(b, Len(b) - 1)}
    /\ hurt' = IF hurt = 0 THEN sent + 1 ELSE hurt
    /\ open' = FALSE
    /\ UNCHANGED <<scen, sent, head, got, stage, todo, seen, coins, script, verdict>>

\* The first half of recv_one: a header of this network.
ReceiveHeader ==
    /\ stage = "wire" /\ ~head.ok /\ Len(wire) >= HeaderLength
    /\ LET h == ReadHeader(Take(wire, HeaderLength)) IN
       /\ h.ok
       /\ h.magic = Magic
       /\ head' = h
    /\ wire' = Drop(wire, HeaderLength)
    /\ UNCHANGED <<scen, sent, hurt, open, got, stage, todo, seen, coins, script, verdict>>

\* The transactions a message brings for validation.
Brought(msg) ==
    CASE msg.command = CommandBytes("tx") -> <<msg.value>>
      [] msg.command = CommandBytes("block") -> Tail(msg.value.txs)
      [] OTHER -> <<>>

\* The second half: the payload, its checksum and its layout.
ReceivePayload ==
    /\ stage = "wire" /\ head.ok
    /\ Len(wire) >= head.size
    /\ \E msg \in {FromEnvelope(head, Take(wire, head.size))} :
       /\ msg.ok
       /\ got' = Append(got, [command |-> msg.command, value |-> msg.value])
       /\ todo' = IF scen.validated THEN Brought(msg) ELSE <<>>
    /\ wire' = Drop(wire, head.size)
    /\ head' = None
    /\ stage' = IF todo' = <<>> THEN "wire" ELSE "tx"
    /\ UNCHANGED <<scen, sent, hurt, open, seen, coins, script, verdict>>

\* recv_one raises: a header or a payload that is refused, or the end of the
\* connection where bytes are missing.  The session ends.
ReceiveFails ==
    /\ stage = "wire"
    /\ IF ~head.ok
       THEN IF Len(wire) >= HeaderLength
            THEN LET h == ReadHeader(Take(wire, HeaderLength)) IN h.ok => h.magic # Magic
            ELSE ~open
       ELSE IF Len(wire) >= head.size
            THEN ~FromEnvelope(head, Take(wire, head.size)).ok
            ELSE ~open
    /\ Settle("closed")
    /\ UNCHANGED <<scen, connection, todo, seen, coins, script>>

(*------------------------------ a transaction ------------------------------*)

Available(tx) == \A k \in DOMAIN tx.inputs : tx.inputs[k].outpoint \in DOMAIN coins
Spent(tx) == [k \in DOMAIN tx.inputs |-> coins[tx.inputs[k].outpoint]]

\* The outputs that a transaction of a block leaves for those behind it.
Outputs(txid, outputs) ==
    LET point(k) == txid \o ToLe(k - 1, 4)
        coin(out) == [amount |-> FromLe(out.amount), script |-> out.script,
                      height |-> scen.view.next_height, coinbase |-> FALSE]
    IN [p \in {point(k) : k \in DOMAIN outputs} |->
          coin(outputs[CHOOSE k \in DOMAIN outputs : point(k) = p])]
Created(tx) == Outputs(Txid(tx), tx.outputs)

\* Before the scripts of the next transaction.
CheckTx ==
    /\ stage = "tx" /\ todo # <<>>
    /\ LET tx == todo[1]
           view == Over([seen |-> seen], scen.view)
       IN IF Available(tx) /\ Spendable(tx, Spent(tx), view)
          THEN /\ seen' = seen \union {tx.inputs[k].outpoint : k \in DOMAIN tx.inputs}
               /\ ctx' = [tx |-> tx, i |-> 1, utxos |-> Spent(tx), flags |-> scen.flags,
                          version |-> "base", code |-> <<>>, leaf |-> <<>>,
                          signed |-> scen.signed]
               /\ stage' = "input"
               /\ UNCHANGED verdict
          ELSE Settle("refused") /\ UNCHANGED <<seen, ctx>>
    /\ UNCHANGED <<scen, connection, todo, coins, mach, frames, phase, redeem, began, forgiven>>

\* The input is valid: the next one, the next transaction, or the verdict.
Advance ==
    /\ mach' = Engine
    /\ IF ctx.i < Len(ctx.tx.inputs)
       THEN /\ ctx' = [ctx EXCEPT !.i = @ + 1, !.version = "base", !.code = <<>>, !.leaf = <<>>]
            /\ stage' = "input"
            /\ UNCHANGED <<todo, coins, verdict>>
       ELSE /\ ctx' = NoContext
            /\ todo' = Tail(todo)
            /\ coins' = Over(Created(ctx.tx), coins)
            /\ IF Len(todo) > 1 THEN stage' = "tx" /\ UNCHANGED verdict ELSE Settle("accepted")

Conclude(v) ==
    IF v = "accepted" THEN Advance ELSE Settle(v) /\ UNCHANGED <<todo, coins, ctx, mach>>

(*------------------------------- an input's start -------------------------------*)

\* A script to run in a phase, or the verdict that is already known.
Run(c, m, code, name) == [verdict |-> "", ctx |-> c, mach |-> m, code |-> code, phase |-> name]
Known(v) == [verdict |-> v]
Judged(v) == Known(CASE v = "valid" -> "accepted" [] v = "invalid" -> "refused" [] OTHER -> "raised")

Start(r) ==
    IF r.verdict = "" /\ r.mach.ok = "go"
    THEN /\ ctx' = r.ctx /\ mach' = r.mach /\ phase' = r.phase
         /\ frames' = <<[code |-> r.code, at |-> 1]>>
         /\ began' = [mach |-> r.mach, code |-> r.code]
         /\ stage' = "script"
         /\ UNCHANGED <<todo, coins, verdict>>
    ELSE /\ Conclude(IF r.verdict = "" THEN "raised" ELSE r.verdict)
         /\ UNCHANGED <<frames, phase, began>>

WitnessKeyHash(c, program) ==
    LET w == c.tx.witness[c.i]
        code == P2PKH(Drop(program, 2))
    IN IF Len(w) # 2 THEN Known("raised")
       ELSE Run([c EXCEPT !.code = Serialized(code)], [Engine EXCEPT !.main = Reverse(w)],
                code, "witness")

WitnessScriptHash(c, program) ==
    LET w == c.tx.witness[c.i]
        code == Last(w)
    IN IF w = <<>> THEN Known("raised")
       ELSE IF sha256(code) # Drop(program, 2) THEN Known("refused")
       ELSE Run([c EXCEPT !.code = Serialized(code)], PushList(Engine, Reverse(Front(w))),
                code, "witness")

\* The key path: a type byte only in a signature of 65 bytes.
TaprootKey(c, program) ==
    LET item == c.tx.witness[c.i][1]
        typed == Len(item) = 65
        type == IF typed THEN Last(item) ELSE 0
    IN IF ~HasMessage(c, TRUE, type) THEN Known("raised")
       ELSE Judged(VerifySchnorr(c, Drop(program, 2), IF typed THEN Front(item) ELSE item,
                                 TaprootMessage(c, <<>>, type)))

\* The script path: the control block last, the leaf before it, the other items
\* pushed with the first on top.
TaprootScript(c, program) ==
    LET w == c.tx.witness[c.i]
        control == Last(w)
        code == w[Len(w) - 1]
        proof == ControlBlock(control, code, Drop(program, 2))
        m == PushList([Engine EXCEPT !.weight = Len(WitnessBytes(w)) + 50], Take(w, Len(w) - 2))
    IN IF proof # "valid" THEN Judged(proof)
       ELSE Run([c EXCEPT !.version = "tapscript",
                          !.leaf = TapLeaf(control[1] - (control[1] % 2), code)], m, code, "leaf")

\* ScriptEngine.validate_segwit.
WitnessProgram(c, program) ==
    IF c.i \notin DOMAIN c.tx.witness THEN Known("raised")
    ELSE CASE IsP2WPKH(program) -> WitnessKeyHash(c, program)
           [] IsP2WSH(program) -> WitnessScriptHash(c, program)
           [] IsP2TR(program) /\ c.tx.witness[c.i] = <<>> -> Known("refused")
           [] IsP2TR(program) /\ Len(c.tx.witness[c.i]) = 1 -> TaprootKey(c, program)
           [] OTHER -> TaprootScript(c, program)

\* ScriptEngine.validate_script_pair, or validate_script before BIP16.
ScriptPair(c, kind, scriptsig) ==
    LET script_ == c.utxos[c.i].script
    IN CASE kind # "P2SH" -> Run(c, Engine, scriptsig \o script_, "combined")
         [] kind = "P2SH" /\ "P2SH" \notin c.flags ->
              Run(c, Engine, scriptsig \o script_, "bare")
         [] OTHER ->
              IF ~Instructions(scriptsig, 1).ok THEN Known("raised")
              ELSE IF ~PushOnly(scriptsig) THEN Known("refused")
              ELSE Run(c, Engine, scriptsig, "scriptsig")

Native == {"P2WPKH", "P2WSH", "P2TR"}

\* One round of the loop of validate_tx_scripts: the kinds of the scripts, then a
\* native witness program or a pair of scripts.  Before its activation a native
\* program is skipped.
InputStart(c) ==
    LET script_ == c.utxos[c.i].script
        kind == ScriptPubKeyKind(script_)
        scriptsig == c.tx.inputs[c.i].scriptsig
        own == ScriptSigKind(scriptsig)
        v0 == [c EXCEPT !.version = "v0"]
    IN CASE kind = "unknown" -> Known("raised")
         [] kind \in Native ->
              IF "WITNESS" \notin c.flags \/ (kind = "P2TR" /\ "TAPROOT" \notin c.flags)
              THEN Known("accepted") ELSE WitnessProgram(v0, script_)
         [] OTHER ->
              IF own = "raises" THEN Known("raised")
              ELSE ScriptPair(IF own = "P2SH_P2WPKH" THEN v0 ELSE c, kind, scriptsig)

StartInput ==
    /\ stage = "input"
    /\ Start(InputStart(ctx))
    /\ UNCHANGED <<scen, connection, seen, redeem, forgiven>>

(*------------------------------- execution -------------------------------*)

Running == stage = "script" /\ frames # <<>>
Top == Last(frames)
Current == Instruction(Top.code, Top.at)
Moved == [frames EXCEPT ![Len(frames)].at = Current.next]

\* The machine that the instruction leaves.  A failure leaves every script at once;
\* on the way each is disassembled, which may raise.
Become(m, ahead) ==
    LET fails == m.ok = "fail"
        raises == m.ok = "raise" \/ (fails /\ \E k \in DOMAIN frames : ~Disassembles(frames[k].code))
    IN IF raises
       THEN mach' = Raise(m) /\ frames' = <<>> /\ Settle("raised")
       ELSE /\ mach' = m
            /\ frames' = IF fails THEN <<>> ELSE ahead
            /\ UNCHANGED <<stage, verdict>>

Step ==
    /\ Running /\ Top.at <= Len(Top.code)
    /\ IF Current.ok
       THEN Current.op \notin Conditional /\ Become(Execute(mach, ctx, Current), Moved)
       ELSE Become(Raise(mach), frames)
    /\ UNCHANGED <<scen, connection, todo, seen, coins, ctx, phase, redeem, began, forgiven>>

\* _select_conditional_branch: the condition is popped, the block is read to its
\* OP_ENDIF, and the branch runs as a script of its own.
Branch ==
    /\ Running /\ Top.at <= Len(Top.code)
    /\ Current.ok /\ Current.op \in Conditional
    /\ LET block == Block(Top.code, Current.next)
           met == IsTrue(mach.main[1]) = (Current.op = OP_IF)
           after == [frames EXCEPT ![Len(frames)].at = block.next]
       IN IF mach.main = <<>> THEN Become(Raise(mach), frames)
          ELSE IF ~IsNum(mach.main[1]) \/ block.depth # 0 THEN Become(Raise(mach), frames)
          ELSE Become(op_drop(mach),
                      Append(after, [code |-> IF met THEN block.met ELSE block.unmet, at |-> 1]))
    /\ UNCHANGED <<scen, connection, todo, seen, coins, ctx, phase, redeem, began, forgiven>>

EndOfScript ==
    /\ Running /\ Top.at > Len(Top.code)
    /\ frames' = Front(frames)
    /\ UNCHANGED <<scen, connection, stage, todo, seen, coins, ctx, mach, phase, redeem, began,
                   forgiven, verdict>>

(*------------------------------- after a script -------------------------------*)

Finished(name) == stage = "script" /\ frames = <<>> /\ phase = name

\* A script whose result counts: the final stack decides if it did not fail.
Decide(clean) ==
    /\ Conclude(IF mach.ok = "fail" THEN "refused" ELSE StackVerdict(mach, clean))
    /\ UNCHANGED <<scen, connection, seen, frames, phase, redeem, began, forgiven>>

EndCombined == Finished("combined") /\ Decide(TRUE)
EndBare == Finished("bare") /\ Decide(FALSE)
EndRedeem == Finished("redeem") /\ Decide(TRUE)
EndLeaf == Finished("leaf") /\ Decide(TRUE)

\* validate_segwit does not look at the result of a version 0 script, only at the
\* stack it leaves.
EndWitness ==
    /\ Finished("witness")
    /\ Conclude(StackVerdict(mach, TRUE))
    /\ forgiven' = (forgiven \/ (mach.ok = "fail" /\ StackVerdict(mach, TRUE) = "accepted"))
    /\ UNCHANGED <<scen, connection, seen, frames, phase, redeem, began>>

\* The top of the stack is the redeem script; the output's script is next.
EndScriptSig ==
    /\ Finished("scriptsig")
    /\ IF mach.ok = "fail" \/ mach.main = <<>>
       THEN Start(Known("refused")) /\ UNCHANGED redeem
       ELSE /\ redeem' = mach.main[1]
            /\ Start(Run(ctx, mach, ctx.utxos[ctx.i].script, "hash"))
    /\ UNCHANGED <<scen, connection, seen, forgiven>>

\* The hash matches: a nested witness program, alone in its scriptsig, or the
\* redeem script on the stack that is left.
EndHash ==
    /\ Finished("hash")
    /\ LET m == op_verify([mach EXCEPT !.ok = "go"])
           nested == IsP2WPKH(redeem) \/ IsP2WSH(redeem)
           alone == ctx.tx.inputs[ctx.i].scriptsig = EncodePush(redeem)
       IN Start(CASE m.ok = "raise" -> Known("raised")
                  [] m.ok = "fail" \/ (nested /\ ~alone) -> Known("refused")
                  [] m.ok = "go" /\ nested /\ alone ->
                       WitnessProgram([ctx EXCEPT !.version = "v0"], redeem)
                  [] OTHER -> Run([ctx EXCEPT !.code = redeem], m, redeem, "redeem"))
    /\ UNCHANGED <<scen, connection, seen, redeem, forgiven>>

Next ==
    \/ Send \/ Close \/ ReceiveHeader \/ ReceivePayload \/ ReceiveFails
    \/ CheckTx \/ StartInput
    \/ Step \/ Branch \/ EndOfScript
    \/ EndCombined \/ EndBare \/ EndScriptSig \/ EndHash \/ EndRedeem \/ EndWitness \/ EndLeaf

Spec == Init /\ [][Next]_vars
=============================================================================
