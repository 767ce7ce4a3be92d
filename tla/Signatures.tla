----------------------------- MODULE Signatures -----------------------------
(* script/sig_ops.py: what a signature of an input commits to, how its bytes are *)
(* read, and when it verifies.                                                   *)
(*                                                                              *)
(* A message is the record of everything the code hashes into it; the hash is    *)
(* taken to be injective.  The curve is replaced by the list c.signed of the     *)
(* signatures that exist: entry r was made with the key of public key "pub" over *)
(* message "msg".  An ECDSA signature is the DER pair (r, 1), a Schnorr signature *)
(* 64 bytes that start with r.                                                   *)
(*                                                                              *)
(* A context c is ScriptExecutionContext: the transaction tx, the index i of the *)
(* input, the outputs spent, the flags, the signature version, script_code and   *)
(* the leaf hash.                                                                *)
EXTENDS Bytes

(*-------------------------------- messages --------------------------------*)

SIGHASH_ALL == 1
SIGHASH_SINGLE == 3
ANYONECANPAY == {\h81, \h82, \h83}
SigHash == {0, 1, 2, 3} \union ANYONECANPAY

Outpoints(tx) == [j \in DOMAIN tx.inputs |-> tx.inputs[j].outpoint]
Sequences(tx) == [j \in DOMAIN tx.inputs |-> tx.inputs[j].sequence]

\* Legacy: every script of the inputs emptied but the signed one.  The type byte
\* is part of the message and selects nothing.
LegacyMessage(c, code, type) ==
    [kind |-> "legacy", version |-> c.tx.version, outpoints |-> Outpoints(c.tx),
     sequences |-> Sequences(c.tx), index |-> c.i, code |-> code,
     outputs |-> c.tx.outputs, locktime |-> c.tx.locktime, type |-> type]

SegwitMessage(c, code, type) ==
    [kind |-> "segwit", version |-> c.tx.version, outpoints |-> Outpoints(c.tx),
     sequences |-> Sequences(c.tx), outpoint |-> c.tx.inputs[c.i].outpoint,
     code |-> code, amount |-> c.utxos[c.i].amount,
     sequence |-> c.tx.inputs[c.i].sequence, outputs |-> c.tx.outputs,
     locktime |-> c.tx.locktime, type |-> type]

\* Taproot: the leaf only in a script path, the amounts and scripts of every
\* input only there, the outputs only for ALL.
TaprootMessage(c, leaf, type) ==
    LET script == leaf # <<>>
        spent == IF script THEN c.utxos ELSE <<c.utxos[1]>>
        own == c.tx.inputs[c.i]
    IN [kind |-> "taproot", type |-> type, version |-> c.tx.version,
        locktime |-> c.tx.locktime, leaf |-> leaf] @@
       IF type \in ANYONECANPAY
       THEN [outpoint |-> own.outpoint, amount |-> c.utxos[c.i].amount,
             script |-> c.utxos[c.i].script, sequence |-> own.sequence]
       ELSE [outpoints |-> Outpoints(c.tx), sequences |-> Sequences(c.tx),
             amounts |-> [j \in DOMAIN spent |-> spent[j].amount],
             scripts |-> [j \in DOMAIN spent |-> spent[j].script],
             outputs |-> IF type = SIGHASH_ALL THEN c.tx.outputs ELSE <<>>,
             index |-> c.i,
             single |-> IF type = SIGHASH_SINGLE THEN <<c.tx.outputs[c.i]>> ELSE <<>>]

\* The message can be formed: the type is known and, for taproot, the input has
\* an output at its own index, which the code hashes whatever the type.
HasMessage(c, taproot, type) ==
    type \in SigHash /\ (taproot => c.i \in DOMAIN c.tx.outputs)

\* ScriptEngine._compute_sighash.
Message(c, code, type) ==
    CASE c.version = "tapscript" -> TaprootMessage(c, c.leaf, type)
      [] c.version = "v0" -> SegwitMessage(c, code, type)
      [] OTHER -> LegacyMessage(c, code, type)

(*-------------------------- DER and its lax form --------------------------*)

None == [ok |-> FALSE]
Pair(r, s) == [ok |-> TRUE, r |-> r, s |-> s]

\* A big-endian value of the model's small signatures.
FromBe(b) == FromLe(Reverse(b))

\* One strict INTEGER at the head of b: minimal and not negative.
StrictInteger(b) ==
    LET n == b[2]
    IN IF Len(b) < 3 \/ b[1] # 2 \/ n = 0 \/ n >= 128 \/ Len(b) < n + 2 THEN None
       ELSE IF b[3] >= 128 \/ (b[3] = 0 /\ n > 1 /\ b[4] < 128) THEN None
       ELSE [ok |-> TRUE, val |-> FromBe(SubSeq(b, 3, n + 2)), rest |-> Drop(b, n + 2)]

\* Two integers and nothing behind them.
PairOf(r, s) == IF s.ok /\ s.rest = <<>> THEN Pair(r.val, s.val) ELSE None
StrictRest(r) == IF r.ok THEN PairOf(r, StrictInteger(r.rest)) ELSE None
StrictDer(b) ==
    IF Len(b) < 2 \/ b[1] # \h30 \/ b[2] # Len(b) - 2 THEN None
    ELSE StrictRest(StrictInteger(Drop(b, 2)))

\* Up to n zeros at the head of b are skipped.
StripZeros(b, n) ==
    LET zeros == Max({k \in 0..n : k <= Len(b) /\ \A j \in 1..k : b[j] = 0})
    IN [rest |-> Drop(b, zeros), left |-> n - zeros]

\* A length of the lax reader: one byte, or the number of big-endian bytes that
\* hold it, leading zeros skipped.
LaxLength(b) ==
    IF b = <<>> THEN None
    ELSE IF b[1] < 128 THEN [ok |-> TRUE, val |-> b[1], rest |-> Tail(b)]
    ELSE IF b[1] - 128 > Len(b) - 1 THEN None
    ELSE LET z == StripZeros(Tail(b), b[1] - 128)
         IN IF z.left >= 4 THEN None
            ELSE [ok |-> TRUE, val |-> FromBe(Take(z.rest, z.left)),
                  rest |-> Drop(z.rest, z.left)]

\* An integer of n.val bytes at the head of n.rest.
LaxValue(n) ==
    IF ~n.ok THEN None
    ELSE IF n.val > Len(n.rest) THEN None
    ELSE LET raw == StripZeros(Take(n.rest, n.val), n.val).rest
         IN [ok |-> TRUE, long |-> Len(raw) > 32, val |-> FromBe(raw),
             rest |-> Drop(n.rest, n.val)]
LaxInteger(b) ==
    IF b = <<>> \/ b[1] # 2 THEN None ELSE LaxValue(LaxLength(Tail(b)))

\* _decode_lax_der_signature: the length of the sequence is ignored, what follows
\* the pair too, a value of more than 32 bytes makes the pair (0, 0).
LaxPair(r, s) ==
    IF ~s.ok THEN None ELSE IF s.long THEN Pair(0, 0) ELSE Pair(r.val, s.val)
LaxRest(r) ==
    IF ~r.ok THEN None ELSE IF r.long THEN Pair(0, 0) ELSE LaxPair(r, LaxInteger(r.rest))
LaxDer(b) ==
    LET skip == IF b[2] >= 128 THEN b[2] - 128 ELSE 0
    IN IF Len(b) < 2 \/ b[1] # \h30 \/ skip > Len(b) - 2 THEN None
       ELSE LaxRest(LaxInteger(Drop(b, 2 + skip)))

(*------------------------------ verification ------------------------------*)

\* The stand-in for the curve: an x coordinate whose last byte is 0 and whose
\* first is not.  Every digest that is used as a coordinate has that form.
OnCurve(x) == Len(x) = 32 /\ x[1] # 0 /\ x[32] = 0

\* PubKey.from_bytes: the compressed form of the point, <<>> when it is refused.
CompressedKey(b) ==
    CASE Len(b) = 33 /\ b[1] \in {2, 3} /\ OnCurve(Tail(b)) -> b
      [] Len(b) = 32 /\ OnCurve(b) -> <<2>> \o b
      [] Len(b) = 65 /\ b[1] = 4 /\ OnCurve(SubSeq(b, 2, 33))
           /\ SubSeq(b, 34, 65) = Reverse(SubSeq(b, 2, 33)) -> <<2>> \o SubSeq(b, 2, 33)
      [] OTHER -> <<>>

Verdict(p) == IF p THEN "valid" ELSE "invalid"

SignedBy(c, r, pub, msg) ==
    /\ r \in DOMAIN c.signed
    /\ c.signed[r].pub = pub
    /\ c.signed[r].msg = msg

\* verify_ecdsa_sig: bytes that do not decode are an invalid signature; a public
\* key that does not decode, or r or s out of range, is an exception it lets out.
EcdsaVerdict(c, d, pub, msg) ==
    IF ~d.ok THEN "invalid"
    ELSE IF pub = <<>> \/ d.r = 0 \/ d.s = 0 THEN "raises"
    ELSE Verdict(d.s = 1 /\ SignedBy(c, d.r, pub, msg))
VerifyEcdsa(c, pubkey, sig, msg) ==
    EcdsaVerdict(c, IF "DERSIG" \in c.flags THEN StrictDer(sig) ELSE LaxDer(sig),
                 CompressedKey(pubkey), msg)

\* schnorr_verify: a signature of another length, coordinates out of range (first
\* byte 255) and a key off the curve are exceptions.
VerifySchnorr(c, xonly, sig, msg) ==
    IF Len(sig) # 64 \/ ~OnCurve(xonly) THEN "raises"
    ELSE IF sig[1] = 255 THEN "raises"
    ELSE Verdict(Drop(sig, 1) = Zeros(63) /\ SignedBy(c, sig[1], xonly, msg))

\* A signature without its type byte, over the message of the context, checked by
\* one of the two verifiers above.
Checked(c, code, type, Verifies(_)) ==
    IF HasMessage(c, c.version = "tapscript", type) THEN Verifies(Message(c, code, type))
    ELSE "raises"

\* ScriptEngine._verify_sig: Schnorr in a tapscript, ECDSA anywhere else.
VerifySig(c, code, pubkey, sig, type) ==
    Checked(c, code, type,
            LAMBDA msg : IF c.version = "tapscript" THEN VerifySchnorr(c, pubkey, sig, msg)
                         ELSE VerifyEcdsa(c, pubkey, sig, msg))
=============================================================================
