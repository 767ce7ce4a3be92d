------------------------------- MODULE Script -------------------------------
(* The script engine: script/script_engine.py with the opcode functions of      *)
(* script/opcodes.  A machine m is the engine's state: the stacks main and alt   *)
(* with their top first, the tapscript weight left, and ok, which is "go" while   *)
(* valid_script holds, "fail" once it does not, "raise" after an exception.  An  *)
(* exception ends the engine's use, so what it leaves on the stacks is not kept. *)
(* An opcode takes a machine to a machine.                                       *)
(*                                                                              *)
(* Scaled: MaxStack is SCRIPT.MAX_STACK, LocktimeThreshold is LOCKTIME_THRESHOLD. *)
EXTENDS Signatures

CONSTANTS MaxStack, LocktimeThreshold

(*------------------------------- the stacks -------------------------------*)

Engine == [main |-> <<>>, alt |-> <<>>, weight |-> 0, ok |-> "go"]
Fail(m) == [m EXCEPT !.ok = "fail"]
Raise(m) == [m EXCEPT !.ok = "raise"]
Verified(m, p) == IF p THEN m ELSE Fail(m)

\* pushlist: the first item ends on top.
PushList(m, items) ==
    IF Len(m.main) + Len(items) > MaxStack THEN Raise(m)
    ELSE [m EXCEPT !.main = items \o @]
Push(m, item) == PushList(m, <<item>>)
PushNum(m, n) == IF IsNum(NumBytes(n)) THEN Push(m, NumBytes(n)) ELSE Raise(m)

\* The n items on top, first the top, give way to the items F makes of them.
Replace(m, n, F(_)) ==
    IF Len(m.main) < n THEN Raise(m)
    ELSE PushList([m EXCEPT !.main = Drop(@, n)], F(Take(m.main, n)))

\* The n numbers on top give way to one item; a result too long to encode raises.
Numeric(m, n, F(_)) ==
    IF \E k \in 1..n : k > Len(m.main) \/ ~IsNum(m.main[k]) THEN Raise(m)
    ELSE LET item == F([k \in 1..n |-> BytesNum(m.main[k])])
         IN IF IsNum(item) THEN Replace(m, n, LAMBDA s : <<item>>) ELSE Raise(m)

(*----------------------------- stack opcodes -----------------------------*)

op_toaltstack(m) ==
    IF m.main = <<>> \/ Len(m.alt) = MaxStack THEN Raise(m)
    ELSE [m EXCEPT !.main = Tail(@), !.alt = <<m.main[1]>> \o @]
op_fromaltstack(m) ==
    IF m.alt = <<>> THEN Raise(m) ELSE Push([m EXCEPT !.alt = Tail(@)], m.alt[1])
op_2drop(m) == Replace(m, 2, LAMBDA s : <<>>)
op_2dup(m) == Replace(m, 2, LAMBDA s : s \o s)
op_3dup(m) == Replace(m, 3, LAMBDA s : s \o s)
op_2over(m) == Replace(m, 4, LAMBDA s : SubSeq(s, 3, 4) \o s)
op_2rot(m) == Replace(m, 6, LAMBDA s : SubSeq(s, 5, 6) \o Take(s, 4))
op_2swap(m) == Replace(m, 4, LAMBDA s : SubSeq(s, 3, 4) \o Take(s, 2))
\* On an empty stack top is None, which is not b'' and cannot be pushed.
op_ifdup(m) ==
    IF m.main = <<>> THEN Raise(m)
    ELSE IF m.main[1] = <<>> THEN m ELSE Push(m, m.main[1])
op_depth(m) == PushNum(m, Len(m.main))
op_drop(m) == Replace(m, 1, LAMBDA s : <<>>)
op_dup(m) == Replace(m, 1, LAMBDA s : s \o s)
op_nip(m) == Replace(m, 2, LAMBDA s : <<s[1]>>)
op_over(m) == Replace(m, 2, LAMBDA s : <<s[2], s[1], s[2]>>)
\* Fault: the three items turn the other way.
op_rotBack(m) == Replace(m, 3, LAMBDA s : <<s[2], s[3], s[1]>>)
op_rot(m) == Replace(m, 3, LAMBDA s : <<s[3], s[1], s[2]>>)
op_swap(m) == Replace(m, 2, Reverse)
op_tuck(m) == Replace(m, 2, LAMBDA s : <<s[1], s[2], s[1]>>)

\* The index that op_pick and op_roll pop is not checked for its sign: a negative
\* one picks from the bottom of the stack, and rolls nothing.
op_pick(m) ==
    IF m.main = <<>> THEN Raise(m)
    ELSE IF ~IsNum(m.main[1]) THEN Raise(m)
    ELSE LET n == BytesNum(m.main[1])
             s == Tail(m.main)
         IN IF Len(s) <= n \/ -n > Len(s) THEN Raise(m)
            ELSE Push([m EXCEPT !.main = s],
                      IF n >= 0 THEN s[n + 1] ELSE s[Len(s) + n + 1])
op_roll(m) ==
    IF m.main = <<>> THEN Raise(m)
    ELSE IF ~IsNum(m.main[1]) THEN Raise(m)
    ELSE LET n == BytesNum(m.main[1])
             rest == [m EXCEPT !.main = Tail(@)]
         IN IF n < 0 THEN rest
            ELSE Replace(rest, n + 1, LAMBDA s : <<Last(s)>> \o Front(s))

(*---------------------------- numeric opcodes ----------------------------*)

op_size(m) == IF m.main = <<>> THEN Raise(m) ELSE PushNum(m, Len(m.main[1]))
op_equal(m) == Replace(m, 2, LAMBDA s : <<Bool(s[1] = s[2])>>)
op_1negate(m) == PushNum(m, -1)
op_1add(m) == Numeric(m, 1, LAMBDA x : NumBytes(x[1] + 1))
op_1sub(m) == Numeric(m, 1, LAMBDA x : NumBytes(x[1] - 1))
op_negate(m) == Numeric(m, 1, LAMBDA x : NumBytes(-x[1]))
op_abs(m) == Numeric(m, 1, LAMBDA x : NumBytes(IF x[1] < 0 THEN -x[1] ELSE x[1]))
op_not(m) == Numeric(m, 1, LAMBDA x : Bool(x[1] = 0))
op_0notequal(m) == Numeric(m, 1, LAMBDA x : Bool(x[1] # 0))
op_add(m) == Numeric(m, 2, LAMBDA x : NumBytes(x[1] + x[2]))
op_sub(m) == Numeric(m, 2, LAMBDA x : NumBytes(x[2] - x[1]))
op_booland(m) == Numeric(m, 2, LAMBDA x : Bool(x[1] # 0 /\ x[2] # 0))
op_boolor(m) == Numeric(m, 2, LAMBDA x : Bool(x[1] # 0 \/ x[2] # 0))
op_numequal(m) == Numeric(m, 2, LAMBDA x : Bool(x[1] = x[2]))
op_numnotequal(m) == Numeric(m, 2, LAMBDA x : Bool(x[1] # x[2]))
op_lessthan(m) == Numeric(m, 2, LAMBDA x : Bool(x[1] > x[2]))
op_greaterthan(m) == Numeric(m, 2, LAMBDA x : Bool(x[1] < x[2]))
op_lessthanorequal(m) == Numeric(m, 2, LAMBDA x : Bool(x[1] >= x[2]))
op_greaterthanorequal(m) == Numeric(m, 2, LAMBDA x : Bool(x[1] <= x[2]))
op_min(m) == Numeric(m, 2, LAMBDA x : NumBytes(IF x[1] < x[2] THEN x[1] ELSE x[2]))
op_max(m) == Numeric(m, 2, LAMBDA x : NumBytes(IF x[1] > x[2] THEN x[1] ELSE x[2]))
op_within(m) == Numeric(m, 3, LAMBDA x : Bool(x[2] <= x[3] /\ x[3] < x[1]))

(*--------------------- hashing and verifying opcodes ---------------------*)

op_ripemd160(m) == Replace(m, 1, LAMBDA s : <<ripemd160(s[1])>>)
op_sha1(m) == Replace(m, 1, LAMBDA s : <<sha1(s[1])>>)
op_sha256(m) == Replace(m, 1, LAMBDA s : <<sha256(s[1])>>)
op_hash160(m) == Replace(m, 1, LAMBDA s : <<hash160(s[1])>>)
op_hash256(m) == Replace(m, 1, LAMBDA s : <<hash256(s[1])>>)

\* False are the empty item and the one zero byte, no other zero.
op_verify(m) ==
    IF m.main = <<>> THEN Raise(m)
    ELSE Verified(op_drop(m), m.main[1] \notin {<<>>, <<0>>})

\* An opcode, then OP_VERIFY on the machine it leaves.
ThenVerify(m) == IF m.ok = "go" THEN op_verify(m) ELSE m
op_equalverify(m) == ThenVerify(op_equal(m))
op_numequalverify(m) == ThenVerify(op_numequal(m))

(*--------------------------- signature opcodes ---------------------------*)

\* Fault: the signed script is always the output's.
ScriptCodeOfOutput(c) == c.utxos[c.i].script

ScriptCode(c) == IF c.code # <<>> THEN c.code ELSE c.utxos[c.i].script

PushVerdict(m, verdict) ==
    IF verdict = "raises" THEN Raise(m) ELSE Push(m, Bool(verdict = "valid"))

\* The signature of a tapscript without its type, None when its length is wrong.
TapscriptSig(sig) ==
    CASE Len(sig) = 64 -> [ok |-> TRUE, sig |-> sig, type |-> 0]
      [] Len(sig) = 65 /\ Last(sig) # 0 -> [ok |-> TRUE, sig |-> Front(sig), type |-> Last(sig)]
      [] OTHER -> None

\* _consume_tapscript_sigop: fifty units for every signature that is not empty.
Consume(m) ==
    LET left == m.weight - 50 IN
    IF left < 0 THEN Raise(m) ELSE [m EXCEPT !.weight = left]

op_checksig(m, c) ==
    IF Len(m.main) < 2 THEN Raise(m)
    ELSE LET pubkey == m.main[1]
             sig == m.main[2]
             rest == op_2drop(m)
             tap == TapscriptSig(sig)
             paid == Consume(rest)
         IN CASE c.version = "tapscript" /\ ~tap.ok -> Push(rest, <<>>)
              [] c.version = "tapscript" /\ tap.ok ->
                   IF paid.ok # "go" THEN paid
                   ELSE PushVerdict(paid, VerifySig(c, ScriptCode(c), pubkey, tap.sig, tap.type))
              [] c.version # "tapscript" /\ sig = <<>> -> Raise(m)
              [] OTHER ->
                   PushVerdict(rest, VerifySig(c, ScriptCode(c), pubkey, Front(sig), Last(sig)))

op_checksigadd(m, c) ==
    IF c.version # "tapscript" \/ Len(m.main) < 3 THEN Raise(m)
    ELSE IF ~IsNum(m.main[2]) THEN Raise(m)
    ELSE LET n == BytesNum(m.main[2])
             rest == [m EXCEPT !.main = Drop(@, 3)]
             tap == TapscriptSig(m.main[3])
             paid == Consume(rest)
             verdict == VerifySig(c, ScriptCode(c), m.main[1], tap.sig, tap.type)
         IN IF m.main[3] = <<>> THEN PushNum(rest, n)
            ELSE IF ~tap.ok THEN Raise(m)
            ELSE IF paid.ok # "go" THEN paid
            ELSE IF verdict = "raises" THEN Raise(m)
            ELSE PushNum(paid, n + IF verdict = "valid" THEN 1 ELSE 0)

\* Fault: the key that took a signature is tried for the next one again.
KeysAfterMatchKept(keys) == keys
KeysAfterMatch(keys) == Tail(keys)

\* The walk of OP_CHECKMULTISIG over signatures and keys, both from the top: a key
\* is tried once, a signature until a key takes it.  It is always ECDSA.
MatchNext(c, w) ==
    LET verdict == Checked(c, ScriptCode(c), Last(w.sigs[1]),
                           LAMBDA msg : VerifyEcdsa(c, w.keys[1], Front(w.sigs[1]), msg))
    IN IF w.sigs = <<>> \/ w.keys = <<>> \/ w.raised THEN w
       ELSE IF w.sigs[1] = <<>> THEN [w EXCEPT !.raised = TRUE]
       ELSE CASE verdict = "raises" -> [w EXCEPT !.raised = TRUE]
              [] verdict = "valid" -> [w EXCEPT !.sigs = Tail(@), !.keys = KeysAfterMatch(@)]
              [] OTHER -> [w EXCEPT !.keys = Tail(@)]
Matched(c, sigs, keys) ==
    Rounds(Len(sigs) + Len(keys), [sigs |-> sigs, keys |-> keys, raised |-> FALSE],
           LAMBDA w : MatchNext(c, w))

\* The items below a count on top of s; a negative count takes none.
Counted(s) ==
    IF s = <<>> THEN None
    ELSE IF ~IsNum(s[1]) THEN None
    ELSE LET n == IF BytesNum(s[1]) < 0 THEN 0 ELSE BytesNum(s[1])
         IN IF Len(s) <= n THEN None
            ELSE [ok |-> TRUE, items |-> SubSeq(s, 2, n + 1), rest |-> Drop(s, n + 1)]

\* Below the two counted lists is the dummy, which must be empty; all of them give
\* way to the outcome of the walk.
PushWalk(m, rest, walk) ==
    IF walk.raised THEN Raise(m) ELSE Push([m EXCEPT !.main = rest], Bool(walk.sigs = <<>>))
WithSigs(m, c, keys, sigs) ==
    IF ~sigs.ok THEN Raise(m)
    ELSE IF sigs.rest = <<>> THEN Raise(m)
    ELSE IF sigs.rest[1] # <<>> THEN Raise(m)
    ELSE PushWalk(m, Tail(sigs.rest), Matched(c, sigs.items, keys))
WithKeys(m, c, keys) ==
    IF keys.ok THEN WithSigs(m, c, keys.items, Counted(keys.rest)) ELSE Raise(m)
op_checkmultisig(m, c) == WithKeys(m, c, Counted(m.main))

\* _checklocktime: nothing is popped.
op_checklocktime(m, c) ==
    IF m.main = <<>> THEN Fail(m)
    ELSE IF ~IsNum(m.main[1]) THEN Raise(m)
    ELSE LET n == BytesNum(m.main[1])
             locktime == FromLe(c.tx.locktime)
         IN Verified(m, /\ n >= 0
                        /\ c.tx.inputs[c.i].sequence # <<255, 255, 255, 255>>
                        /\ (n >= LocktimeThreshold) = (locktime >= LocktimeThreshold)
                        /\ n <= locktime)

(*------------------------------ instructions ------------------------------*)

\* The bytes of the length that a pushing opcode is followed by, and its length.
LengthBytes(op) == CASE op = \h4c -> 1 [] op = \h4d -> 2 [] op = \h4e -> 4 [] OTHER -> 0

\* is_push: OP_PUSHBYTES and OP_PUSHDATA.
IsPush(op) == op \in 1..\h4e

\* _read_instructions: the opcode at position "at" with the data it pushes, and
\* the position after it.  Data cut short by the end of the script raises.
Instruction(code, at) ==
    LET op == code[at]
        w == LengthBytes(op)
        n == CASE op \in 1..\h4b -> op
               [] IsPush(op) /\ w > 0 -> FromLe(SubSeq(code, at + 1, at + w))
               [] OTHER -> 0
    IN IF at + w > Len(code) \/ at + w + n > Len(code) THEN None
       ELSE [ok |-> TRUE, op |-> op, next |-> at + w + n + 1,
             data |-> SubSeq(code, at + w + 1, at + w + n)]

OP_IF == \h63
OP_NOTIF == \h64
OP_ELSE == \h67
OP_ENDIF == \h68
Conditional == {OP_IF, OP_NOTIF}

\* Fault: the OP_ELSE of an inner conditional turns too.
TurnsAtAnyDepth(op, depth) == op = OP_ELSE
Turns(op, depth) == op = OP_ELSE /\ depth = 1

\* _parse_conditional_block: the two branches of the conditional whose body starts
\* at "at" and the position after its OP_ENDIF.  Only the OP_ELSE at depth 1 turns
\* to the other branch; a second one stays there.
BlockNext(code, s) ==
    LET ins == Instruction(code, s.next)
        raw == SubSeq(code, s.next, ins.next - 1)
        moved == [s EXCEPT !.next = ins.next]
        kept == IF s.other THEN [moved EXCEPT !.unmet = @ \o raw] ELSE [moved EXCEPT !.met = @ \o raw]
    IN IF s.depth = 0 \/ s.next > Len(code) THEN s
       ELSE IF ~ins.ok THEN s
       ELSE CASE ins.op \in Conditional -> [kept EXCEPT !.depth = @ + 1]
              [] Turns(ins.op, s.depth) -> [moved EXCEPT !.depth = 1, !.other = TRUE]
              [] ins.op = OP_ENDIF /\ s.depth = 1 -> [moved EXCEPT !.depth = 0]
              [] ins.op = OP_ENDIF /\ s.depth > 1 -> [kept EXCEPT !.depth = @ - 1]
              [] OTHER -> kept
BlockStart(at) == [next |-> at, depth |-> 1, other |-> FALSE, met |-> <<>>, unmet |-> <<>>]

\* Its depth is 0 when the OP_ENDIF was found.
Block(code, at) == Rounds(Len(code), BlockStart(at), LAMBDA s : BlockNext(code, s))

\* _stack_value_is_true: any zero is false, a negative one included.
IsTrue(item) == BytesNum(item) # 0

(*-------------------------------- dispatch --------------------------------*)

\* OPCODE_MAP, the entries that _execute_script reaches through it.  Any other
\* opcode is a KeyError.
Opcode(m, op) ==
    CASE op = \h4f -> op_1negate(m)
      [] op = \h69 -> op_verify(m)       [] op = \h6b -> op_toaltstack(m)
      [] op = \h6c -> op_fromaltstack(m) [] op = \h6d -> op_2drop(m)
      [] op = \h6e -> op_2dup(m)         [] op = \h6f -> op_3dup(m)
      [] op = \h70 -> op_2over(m)        [] op = \h71 -> op_2rot(m)
      [] op = \h72 -> op_2swap(m)        [] op = \h73 -> op_ifdup(m)
      [] op = \h74 -> op_depth(m)        [] op = \h75 -> op_drop(m)
      [] op = \h76 -> op_dup(m)          [] op = \h77 -> op_nip(m)
      [] op = \h78 -> op_over(m)         [] op = \h79 -> op_pick(m)
      [] op = \h7a -> op_roll(m)         [] op = \h7b -> op_rot(m)
      [] op = \h7c -> op_swap(m)         [] op = \h7d -> op_tuck(m)
      [] op = \h82 -> op_size(m)         [] op = \h87 -> op_equal(m)
      [] op = \h88 -> op_equalverify(m)  [] op = \h8b -> op_1add(m)
      [] op = \h8c -> op_1sub(m)         [] op = \h8f -> op_negate(m)
      [] op = \h90 -> op_abs(m)          [] op = \h91 -> op_not(m)
      [] op = \h92 -> op_0notequal(m)    [] op = \h93 -> op_add(m)
      [] op = \h94 -> op_sub(m)          [] op = \h9a -> op_booland(m)
      [] op = \h9b -> op_boolor(m)       [] op = \h9c -> op_numequal(m)
      [] op = \h9d -> op_numequalverify(m) [] op = \h9e -> op_numnotequal(m)
      [] op = \h9f -> op_lessthan(m)     [] op = \ha0 -> op_greaterthan(m)
      [] op = \ha1 -> op_lessthanorequal(m) [] op = \ha2 -> op_greaterthanorequal(m)
      [] op = \ha3 -> op_min(m)          [] op = \ha4 -> op_max(m)
      [] op = \ha5 -> op_within(m)       [] op = \ha6 -> op_ripemd160(m)
      [] op = \ha7 -> op_sha1(m)         [] op = \ha8 -> op_sha256(m)
      [] op = \ha9 -> op_hash160(m)      [] op = \haa -> op_hash256(m)
      [] OTHER -> Raise(m)

\* One instruction of _execute_script other than OP_IF and OP_NOTIF.
Execute(m, c, ins) ==
    CASE IsPush(ins.op) -> Push(m, ins.data)
      [] ins.op = 0 -> Push(m, <<>>)
      [] ins.op \in \h51..\h60 -> PushNum(m, ins.op - \h50)
      [] ins.op = \h61 -> m
      [] ins.op = \h6a -> Fail(m)
      [] ins.op = \hac -> op_checksig(m, c)
      [] ins.op = \had -> ThenVerify(op_checksig(m, c))
      [] ins.op = \hae -> op_checkmultisig(m, c)
      [] ins.op = \haf -> ThenVerify(op_checkmultisig(m, c))
      [] ins.op = \hba -> op_checksigadd(m, c)
      [] ins.op = \hb1 -> IF "CHECKLOCKTIMEVERIFY" \in c.flags THEN op_checklocktime(m, c) ELSE m
      [] OTHER -> Opcode(m, ins.op)

\* What an instruction does, without where it ends.
Content(ins) == [op |-> ins.op, data |-> ins.data]

\* The instructions of a script from a position on, each with what it does; not ok
\* when the last is cut short.
ReadOn(code, s) ==
    LET ins == Instruction(code, s.at)
    IN IF ~s.ok \/ s.at > Len(code) THEN s
       ELSE IF ins.ok THEN [s EXCEPT !.at = ins.next, !.list = Append(@, Content(ins))]
       ELSE [s EXCEPT !.ok = FALSE]
Instructions(code, at) ==
    Rounds(Len(code), [ok |-> TRUE, list |-> <<>>, at |-> at], LAMBDA s : ReadOn(code, s))

\* to_asm, which every script of a failing execution is passed to on the way out:
\* a script cut short or with an opcode that has no name turns the failure into an
\* exception.
Disassembles(code) ==
    LET all == Instructions(code, 1)
    IN all.ok /\ \A k \in DOMAIN all.list : all.list[k].op \notin \hbb..\hfe

\* validate_stack: the machine ends with one true item, or any height with a true
\* top when the stack need not be clean.  An item that is no number raises.
StackVerdict(m, clean) ==
    IF m.main = <<>> \/ (clean /\ Len(m.main) # 1) THEN "refused"
    ELSE IF ~IsNum(m.main[1]) THEN "raised"
    ELSE IF IsTrue(m.main[1]) THEN "accepted" ELSE "refused"
=============================================================================
