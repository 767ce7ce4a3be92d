------------------------------- MODULE Spend -------------------------------
(* The kinds of output and input scripts, the taproot commitment, and the checks *)
(* of tx/validation.py that come before any script runs.                         *)
EXTENDS Script

CONSTANTS MaxMoney, MaxWeight

(*---------------------------- standard scripts ----------------------------*)

EncodePush(data) ==
    (CASE Len(data) \in 1..\h4b -> <<Len(data)>>
       [] Len(data) = 0 \/ Len(data) \in \h4c..\hff -> <<\h4c, Len(data)>>
       [] OTHER -> <<\h4d>> \o ToLe(Len(data), 2)) \o data

Serialized(data) == CompactSize(Len(data)) \o data

P2PKH(hash) == <<\h76, \ha9, 20>> \o hash \o <<\h88, \hac>>

Ends(b, n, first, last) ==
    Len(b) = n /\ Take(b, Len(first)) = first /\ Drop(b, n - Len(last)) = last

IsP2PKH(b) == Ends(b, 25, <<\h76, \ha9, 20>>, <<\h88, \hac>>)
IsP2SH(b) == Ends(b, 23, <<\ha9, 20>>, <<\h87>>)
IsP2WPKH(b) == Ends(b, 22, <<0, 20>>, <<>>)
IsP2WSH(b) == Ends(b, 34, <<0, 32>>, <<>>)
IsP2TR(b) == Ends(b, 34, <<\h51, 32>>, <<>>)
IsP2PK(b) == \E n \in {35, 67} : Ends(b, n, <<n - 2>>, <<\hac>>)
IsP2MS(b) ==
    Len(b) >= 3 /\ b[1] \in \h51..\h60 /\ b[Len(b) - 1] \in \h51..\h60 /\ Last(b) = \hae

\* The keys that P2MS_Key.from_bytes reads between the two counts.
ReadsKeys(b, n) ==
    Rounds(n, [ok |-> TRUE, rest |-> b],
           LAMBDA s :
             IF ~s.ok \/ s.rest = <<>> THEN [s EXCEPT !.ok = FALSE]
             ELSE [ok |-> s.rest[1] \in {33, 65} /\ Len(s.rest) > s.rest[1],
                   rest |-> Drop(s.rest, s.rest[1] + 1)]).ok

\* classify_scriptpubkey: the first kind that matches, "unknown" when none does or
\* when its from_bytes refuses the script.
ScriptPubKeyKind(b) ==
    CASE IsP2PKH(b) -> "P2PKH"
      [] IsP2SH(b) -> "P2SH"
      [] IsP2WPKH(b) -> "P2WPKH"
      [] IsP2WSH(b) -> "P2WSH"
      [] IsP2TR(b) -> IF OnCurve(Drop(b, 2)) THEN "P2TR" ELSE "unknown"
      [] IsP2PK(b) -> "P2PK"
      [] IsP2MS(b) ->
           IF ReadsKeys(SubSeq(b, 2, Len(b) - 2), b[Len(b) - 1] - \h50) THEN "P2MS" ELSE "unknown"
      [] OTHER -> "unknown"

\* P2MS_Sig.matches after its zero byte: pushes that each start like DER, to the
\* end; "raises" when the walk meets the end where it wants a push.
SignaturePushes(b) ==
    LET push(s) ==
          IF s.said # "" THEN s
          ELSE IF s.rest = <<>> THEN [s EXCEPT !.said = "raises"]
          ELSE IF s.rest[1] \notin 1..\h4b \/ Len(s.rest) < 2 THEN [s EXCEPT !.said = "no"]
          ELSE IF s.rest[2] # \h30 THEN [s EXCEPT !.said = "no"]
          ELSE IF Len(s.rest) <= s.rest[1] + 1 THEN [s EXCEPT !.said = "yes"]
          ELSE [s EXCEPT !.rest = Drop(@, @[1] + 1)]
    IN Rounds(Len(b) + 1, [rest |-> b, said |-> ""], push).said

\* P2SH_Sig.matches: some byte is the length of all that follows it.
EndsInPush(b) == \E k \in DOMAIN b : b[k] \in 1..\h4b /\ b[k] = Len(b) - k

IsSigAndKey(b) ==
    /\ Len(b) > b[1] + 1
    /\ b[1] \in 1..\h4b
    /\ b[b[1] + 2] \in {33, 65}
    /\ Len(b) = b[1] + 2 + b[b[1] + 2]

\* classify_scriptsig: the kind by its bytes alone, in the order of the classifiers.
ScriptSigKind(b) ==
    IF b = <<>> THEN "raises"
    ELSE LET multisig == IF b[1] = 0 THEN SignaturePushes(Tail(b)) ELSE "no"
         IN CASE b[1] = 22 -> "P2SH_P2WPKH"
              [] b[1] # 22 /\ multisig = "raises" -> "raises"
              [] b[1] # 22 /\ multisig = "yes" -> "P2MS"
              [] multisig = "no" /\ b[1] # 22 /\ EndsInPush(b) -> "P2SH"
              [] b[1] # 22 /\ ~EndsInPush(b) /\ IsSigAndKey(b) -> "P2PKH"
              [] b[1] # 22 /\ ~EndsInPush(b) /\ b[1] = Len(b) - 1 -> "P2PK"
              [] OTHER -> "raises"

\* BIP16's push-only test on the instructions of a script.
PushOnly(b) ==
    LET all == Instructions(b, 1)
    IN all.list # <<>> /\ \A k \in DOMAIN all.list :
                            IsPush(all.list[k].op) \/ all.list[k].op <= \h60

(*-------------------------------- taproot --------------------------------*)

TapLeaf(version, script) == Digest(4, <<version>> \o Serialized(script), 32)

Lesser(a, b) ==
    a = b \/ \E k \in DOMAIN a : a[k] < b[k] /\ \A j \in 1..k - 1 : a[j] = b[j]
TapBranch(a, b) == Digest(5, IF Lesser(a, b) THEN a \o b ELSE b \o a, 32)

\* compute_merkle_root: the leaf's hash combined with each step of the path.
TapRoot(hash, path) ==
    LET f[k \in 0..Len(path) \div 32] ==
          IF k = 0 THEN hash ELSE TapBranch(f[k - 1], SubSeq(path, 32 * k - 31, 32 * k))
    IN f[Len(path) \div 32]

\* TweakPubkey: the stand-in for the tweaked point and the parity of its y.
Tweaked(internal, root) == Digest(6, internal \o root, 32)
Parity(x) == x[4] % 2

\* validate_control_block; "raises" on a length that is no control block or an
\* internal key off the curve.
ControlBlock(control, leaf, output) ==
    IF Len(control) < 33 \/ (Len(control) - 33) % 32 # 0 THEN "raises"
    ELSE LET internal == SubSeq(control, 2, 33)
             version == control[1] - (control[1] % 2)
             key == Tweaked(internal, TapRoot(TapLeaf(version, leaf), Drop(control, 33)))
         IN IF ~OnCurve(internal) THEN "raises"
            ELSE Verdict(control[1] % 2 = Parity(key) /\ key = output)

(*--------------------- transactions before their scripts ---------------------*)

InputBytes(in) == in.outpoint \o Serialized(in.scriptsig) \o in.sequence
OutputBytes(out) == out.amount \o Serialized(out.script)
WitnessBytes(w) ==
    CompactSize(Len(w)) \o Concat([k \in DOMAIN w |-> Serialized(w[k])])
Listed(s, Bytes(_)) == CompactSize(Len(s)) \o Concat([k \in DOMAIN s |-> Bytes(s[k])])

IsSegwit(tx) == tx.witness # <<>>
TxBytes(tx) ==
    tx.version \o (IF IsSegwit(tx) THEN <<0, 1>> ELSE <<>>)
    \o Listed(tx.inputs, InputBytes) \o Listed(tx.outputs, OutputBytes)
    \o Concat([k \in DOMAIN tx.witness |-> WitnessBytes(tx.witness[k])]) \o tx.locktime
Stripped(tx) == TxBytes([tx EXCEPT !.witness = <<>>])
Txid(tx) == hash256(Stripped(tx))

\* Tx.wu.
Weight(tx) == 3 * Len(Stripped(tx)) + Len(TxBytes(tx))

IsCoinbase(tx) ==
    Len(tx.inputs) = 1 /\ tx.inputs[1].outpoint = Zeros(32) \o <<255, 255, 255, 255>>

Total(amounts) ==
    LET f[k \in 0..Len(amounts)] == IF k = 0 THEN 0 ELSE f[k - 1] + amounts[k]
    IN f[Len(amounts)]
OutputAmounts(tx) == [k \in DOMAIN tx.outputs |-> FromLe(tx.outputs[k].amount)]
SpentAmounts(utxos) == [k \in DOMAIN utxos |-> utxos[k].amount]

ValidStructure(tx, utxos) ==
    /\ tx.inputs # <<>> /\ tx.outputs # <<>>
    /\ \A k \in DOMAIN tx.outputs : OutputAmounts(tx)[k] <= MaxMoney
    /\ Total(OutputAmounts(tx)) <= MaxMoney
    /\ \A k \in DOMAIN utxos : utxos[k].amount <= MaxMoney
    /\ IsSegwit(tx) => Len(tx.witness) = Len(tx.inputs)
    /\ Weight(tx) <= MaxWeight

\* _validate_absolute_locktime at a TxValidationContext v.
AbsoluteLocktime(tx, v) ==
    LET locktime == FromLe(tx.locktime) IN
    \/ locktime = 0
    \/ \A k \in DOMAIN tx.inputs : tx.inputs[k].sequence = <<255, 255, 255, 255>>
    \/ locktime < LocktimeThreshold /\ locktime < v.next_height
    \/ locktime >= LocktimeThreshold /\ locktime <= v.current_time

\* _validate_relative_locktime: whatever the version of the transaction.
RelativeLocktime(sequence, utxo, v) ==
    LET bit(byte, n) == (byte \div n) % 2 = 1
        wait == FromLe(Take(sequence, 2))
    IN \/ bit(sequence[4], 128)
       \/ /\ bit(sequence[3], 64)
          /\ utxo.height \in DOMAIN v.times =>
               v.block_timestamp - v.times[utxo.height] >= wait * 512
       \/ /\ ~bit(sequence[3], 64)
          /\ v.next_height - utxo.height >= wait

\* Fault: the outpoints that earlier transactions of the block spend are forgotten.
UnspentByOwn(tx, v) ==
    \A j, k \in DOMAIN tx.inputs : j < k => tx.inputs[j].outpoint # tx.inputs[k].outpoint

\* No input spends what another input of the transaction, or an earlier transaction
\* of the block, spends.
Unspent(tx, v) ==
    /\ \A j, k \in DOMAIN tx.inputs : j < k => tx.inputs[j].outpoint # tx.inputs[k].outpoint
    /\ \A k \in DOMAIN tx.inputs : tx.inputs[k].outpoint \notin v.seen

\* The checks of validate_loaded_tx up to the scripts.
Spendable(tx, utxos, v) ==
    /\ ValidStructure(tx, utxos)
    /\ ~IsCoinbase(tx)
    /\ Total(SpentAmounts(utxos)) >= Total(OutputAmounts(tx))
    /\ AbsoluteLocktime(tx, v)
    /\ Unspent(tx, v)
    /\ \A k \in DOMAIN tx.inputs :
         /\ utxos[k].coinbase => v.next_height - utxos[k].height >= v.maturity
         /\ RelativeLocktime(tx.inputs[k].sequence, utxos[k], v)
=============================================================================
