------------------------------ MODULE MCIntake ------------------------------
(* Scenarios for Intake: every message of the codec, every kind of output with     *)
(* right and wrong signatures, and scripts for the engine.                         *)
EXTENDS IntakeProps

MCNow == <<9, 9, 9, 9>>
MCMagic == <<1, 2, 3, 4>>
MCAllowedMagic == {MCMagic, <<5, 6, 7, 8>>}

(*---------------------------------- data ----------------------------------*)

Word(k, n) == <<k>> \o Zeros(n - 1)
KeyX(k) == Word(k, 32)
Key(k) == <<2>> \o KeyX(k)
Point(k) == Word(k, 32) \o Zeros(4)

Amount(n) == ToLe(n, 8)
Final == <<255, 255, 255, 255>>
Output(n, script_) == [amount |-> Amount(n), script |-> script_]
Input(point, sig, sequence) == [outpoint |-> point, scriptsig |-> sig, sequence |-> sequence]
Tx(ins, outs, wits, lock) ==
    [version |-> <<2, 0, 0, 0>>, inputs |-> ins, outputs |-> outs, witness |-> wits,
     locktime |-> ToLe(lock, 4)]
Coin(n, script_) == [amount |-> n, script |-> script_, height |-> 1, coinbase |-> FALSE]

View == [next_height |-> 10, current_time |-> 700, block_timestamp |-> 690,
         times |-> [h \in 0..9 |-> 60 * h], maturity |-> 5]
AllFlags == {"P2SH", "DERSIG", "CHECKLOCKTIMEVERIFY", "WITNESS", "TAPROOT"}

(*--------------------------------- messages ---------------------------------*)

PlainTx == Tx(<<Input(Point(1), <<1, 2>>, Final)>>, <<Output(5, <<\h51>>)>>, <<>>, 0)
WitnessTx == Tx(<<Input(Point(1), <<>>, Final), Input(Point(2), <<3>>, Zeros(4))>>,
                <<Output(5, <<\h51>>), Output(6, <<>>)>>, << << <<1>>, <<>> >>, <<>> >>, 7)
Header == [version |-> Word(1, 4), prev_block |-> Word(7, 32), merkle_root |-> Word(8, 32),
           timestamp |-> Word(9, 4), bits |-> <<29, 0, 255, 255>>, nonce |-> Word(3, 4)]
Address(ip) == [timestamp |-> Word(1, 4), services |-> Word(9, 8), ip_addr |-> ip, port |-> 8333]
VersionAddress(ip) == [services |-> Word(1, 8), ip_addr |-> ip, port |-> 18444]
IPv4 == <<10, 0, 0, 1>>
IPv6 == Word(32, 16)
Locator == [version |-> Word(4, 4), locator_hashes |-> <<Word(1, 32), Word(2, 32)>>,
            hash_stop |-> Zeros(32)]
Item(type) == [type |-> type, hash |-> Word(5, 32)]
Range_ == [filter_type |-> <<0>>, start_height |-> Word(6, 4), stop_hash |-> Word(2, 32)]
Said(type, extra) ==
    [message_type |-> type, code |-> <<\h10>>, reason |-> <<98, 97, 100>>, extra_data |-> extra]

Messages == <<
    <<"version", [protocol_version |-> Word(8, 4), services |-> Word(9, 8), timestamp |-> Word(4, 8),
                  remote |-> VersionAddress(IPv4), local |-> VersionAddress(IPv6),
                  nonce |-> Word(77, 8), user_agent |-> <<47, 66, 47>>, last_block |-> Word(5, 4)]>>,
    <<"verack", <<>> >>, <<"wtxidrelay", <<>> >>, <<"sendaddrv2", <<>> >>, <<"sendheaders", <<>> >>,
    <<"getaddr", <<>> >>, <<"mempool", <<>> >>, <<"filterclear", <<>> >>,
    <<"ping", Word(1, 8)>>, <<"pong", Word(2, 8)>>, <<"feefilter", Word(3, 8)>>,
    <<"addr", <<Address(IPv4), Address(IPv6)>> >>,
    <<"inv", <<Item(Word(1, 4)), Item(<<2, 0, 0, 64>>)>> >>,
    <<"getdata", <<Item(<<1, 0, 0, 64>>)>> >>, <<"notfound", <<Item(Zeros(4))>> >>,
    <<"getblocks", Locator>>, <<"getheaders", [Locator EXCEPT !.locator_hashes = <<>>]>>,
    <<"headers", <<Header, [Header EXCEPT !.nonce = Zeros(4)]>> >>,
    <<"tx", PlainTx>>, <<"tx", WitnessTx>>,
    <<"block", [header |-> [Header EXCEPT !.merkle_root = <<>>],
                txs |-> <<PlainTx, WitnessTx, PlainTx>>]>>,
    <<"blocktxn", [block_hash |-> Word(7, 32), txs |-> <<WitnessTx>>]>>,
    <<"getblocktxn", [block_hash |-> Word(7, 32), indices |-> <<0, 1, 300>>]>>,
    <<"cmpctblock", [header |-> Word(6, 80), nonce |-> Word(1, 8), short_ids |-> <<Word(4, 6)>>,
                     prefilled |-> <<[index |-> 0, tx |-> PlainTx], [index |-> 2, tx |-> WitnessTx]>>]>>,
    <<"merkleblock", [header |-> Header, tx_num |-> Word(3, 4), hashes |-> <<Word(1, 32)>>,
                      flags |-> <<5>>]>>,
    <<"sendcmpct", [announce |-> TRUE, version |-> Word(1, 8)]>>,
    <<"filteradd", <<1, 2, 3>> >>,
    <<"filterload", [bitfilter |-> <<1, 2>>, hash_num |-> Word(11, 4), tweak |-> Word(5, 4),
                     flags |-> <<1>>]>>,
    <<"reject", Said(CommandBytes("tx"), Word(6, 32))>>, <<"reject", Said(CommandBytes("ping"), <<>>)>>,
    <<"getcfilters", Range_>>, <<"getcfheaders", Range_>>,
    <<"getcfcheckpt", [filter_type |-> <<0>>, stop_hash |-> Word(2, 32)]>>,
    <<"cfilter", [filter_type |-> <<0>>, block_hash |-> Word(2, 32), filter_data |-> <<1, 2, 3>>]>>,
    <<"cfheaders", [filter_type |-> <<0>>, stop_hash |-> Word(2, 32),
                    previous_filter_header |-> Word(3, 32), filter_hashes |-> <<Word(4, 32)>>]>>,
    <<"cfcheckpt", [filter_type |-> <<0>>, stop_hash |-> Word(2, 32),
                    filter_headers |-> <<Word(4, 32), Word(5, 32)>>]>>,
    <<"future", <<1>> >> >>

Bare(frames_) ==
    [frames |-> frames_, faulty |-> FALSE, validated |-> TRUE, coins |-> <<>>, flags |-> AllFlags,
     view |-> View, signed |-> <<>>, carried |-> {}, owners |-> {}, needed |-> 0, honest |-> FALSE]

\* Each message, and the next one of the list behind it.
Sent(k) == [command |-> Messages[k][1], value |-> Messages[k][2]]
MessageScenario(k) ==
    [Bare(<<Sent(k), Sent(1 + (k % Len(Messages)))>>) EXCEPT !.faulty = TRUE, !.validated = FALSE]

(*---------------------------------- scripts ----------------------------------*)

RECURSIVE Pushes(_)
Pushes(items) ==
    IF items = <<>> THEN <<>>
    ELSE (IF items[1] = <<>> THEN <<0>> ELSE EncodePush(items[1])) \o Pushes(Tail(items))

P2SH(code) == <<\ha9, 20>> \o hash160(code) \o <<\h87>>
P2WSH(code) == <<0, 32>> \o sha256(code)
P2WPKH(k) == <<0, 20>> \o hash160(Key(k))
OneTx(ins, outs, wits, lock) == <<[command |-> "tx", value |-> Tx(ins, outs, wits, lock)]>>
Change == <<Output(5, <<\h51>>)>>

\* A script run as the redeem script of a P2SH output on a stack of items.
AsRedeem(code, items) ==
    [Bare(OneTx(<<Input(Point(1), Pushes(items) \o EncodePush(code), Final)>>, Change, <<>>, 0))
        EXCEPT !.coins = (Point(1) :> Coin(9, P2SH(code)))]

\* Well-formed scripts of at most n instructions: nested conditionals around 1ADD.
Bodies[n \in 0..7] ==
    IF n = 0 THEN {<<>>}
    ELSE LET less == Bodies[n - 1]
             sized(k) == {w \in less : Len(w) <= k}
         IN less
            \union {<<\h8b>> \o w : w \in less}
            \union {<<op>> \o a \o <<OP_ENDIF>> \o b :
                      op \in Conditional, a \in IF n < 2 THEN {} ELSE sized(n - 2), b \in {<<>>}}
            \union {<<OP_IF>> \o a \o <<OP_ELSE>> \o b \o <<OP_ENDIF>> :
                      a \in IF n < 3 THEN {} ELSE sized(n - 3), b \in sized(n - 3)}
Nested == {w \in Bodies[7] : Len(w) <= 7 /\ \E k \in DOMAIN w : w[k] \in Conditional}
Conditions == {<<<<7>>, a, b>> : a, b \in {<<>>, <<1>>}}

\* Every opcode on a deep stack, then in the middle of a shallow one, and scripts
\* that fail, raise or are cut short.
StackOps == (\h6b..\h7d) \union (\h8b..\ha5) \union {\h4f, \h61, \h69, \h82, \h87, \h88} \union (\ha6..\haa)
Deep == << <<6>>, <<5>>, <<4>>, <<>>, <<2>>, <<1>> >>
Odd == {<<\h6a>>, <<\h6a, \hbb>>, <<\h50>>, <<\h63>>, <<\h68>>, <<2, 1>>, <<\h63, \h51>>,
        <<\h76, \h76, \h76, \h76, \h76, \h76, \h76, \h76, \h76>>, <<\h74, \h87>>, <<\h6b, \h6c>>,
        <<\h61>>, <<\h63, \h6a, \h68>>, <<\h63, \h51, \h67, \h52, \h67, \h53, \h68>>}

(*--------------------------------- signatures ---------------------------------*)

\* Who signed what: the three owners this transaction, the first one another
\* transaction too, and a stranger this one.
Signed(msg, pub(_)) ==
    <<[pub |-> pub(1), msg |-> msg], [pub |-> pub(2), msg |-> msg], [pub |-> pub(3), msg |-> msg],
      [pub |-> pub(1), msg |-> [msg EXCEPT !.outputs = <<>>]], [pub |-> pub(4), msg |-> msg]>>
Ecdsa(r) == IF r = 0 THEN <<>> ELSE <<48, 6, 2, 1, r, 2, 1, 1, SIGHASH_ALL>>
Schnorr(r) == IF r = 0 THEN <<>> ELSE <<r>> \o Zeros(63) \o <<SIGHASH_ALL>>
Slots == 0..5

Skeleton == Tx(<<Input(Point(1), <<>>, Final)>>, Change, <<>>, 0)
Context(script_) ==
    [tx |-> Skeleton, i |-> 1, utxos |-> <<Coin(9, script_)>>, leaf |-> <<>>]
Legacy(script_, code) == LegacyMessage(Context(script_), code, SIGHASH_ALL)
Segwit(script_, code) == SegwitMessage(Context(script_), Serialized(code), SIGHASH_ALL)
Tap(script_, leaf) == TaprootMessage(Context(script_), leaf, SIGHASH_ALL)

\* The spend of one output by a scriptsig and a witness that carry the signatures.
Spending(script_, scriptsig, wits, signed, carried, owners, needed, honest) ==
    [Bare(OneTx(<<Input(Point(1), scriptsig, Final)>>, Change, wits, 0)) EXCEPT
        !.coins = (Point(1) :> Coin(9, script_)), !.signed = signed, !.carried = carried,
        !.owners = owners, !.needed = needed, !.honest = honest]

\* One key: a public key hash, a witness program, a nested one.
PayToHash == P2PKH(hash160(Key(1)))
KeySpend(kind, r) ==
    LET by(script_, scriptsig, wits, msg) ==
          Spending(script_, scriptsig, wits, Signed(msg, Key), {r} \ {0}, {Key(1)}, 1, r = 1)
        items == <<Ecdsa(r), Key(1)>>
        nested == P2SH(P2WPKH(1))
    IN CASE kind = "P2PKH" -> by(PayToHash, Pushes(items), <<>>, Legacy(PayToHash, PayToHash))
         [] kind = "P2WPKH" -> by(P2WPKH(1), <<>>, <<items>>, Segwit(P2WPKH(1), PayToHash))
         [] kind = "nested" ->
              by(nested, Pushes(<<P2WPKH(1)>>), <<items>>, Segwit(nested, PayToHash))

\* Two of three in an output script and in a witness script, two of two in a
\* redeem script: a pair of signatures in every order.
TwoOfThree == <<\h52>> \o Pushes(<<Key(1), Key(2), Key(3)>>) \o <<\h53, \hae>>
TwoOfTwo == <<\h52>> \o Pushes(<<Key(1), Key(2)>>) \o <<\h52, \hae>>
MultisigSpend(kind, a, b) ==
    LET by(script_, scriptsig, wits, msg, n) ==
          Spending(script_, scriptsig, wits, Signed(msg, Key), {a, b}, {Key(k) : k \in 1..n}, 2,
                   a < b /\ b <= n)
        sigs == <<<<>>, Ecdsa(a), Ecdsa(b)>>
    IN CASE kind = "bare" -> by(TwoOfThree, Pushes(sigs), <<>>, Legacy(TwoOfThree, TwoOfThree), 3)
         [] kind = "P2WSH" ->
              by(P2WSH(TwoOfThree), <<>>, <<Append(sigs, TwoOfThree)>>,
                 Segwit(P2WSH(TwoOfThree), TwoOfThree), 3)
         [] kind = "P2SH" ->
              by(P2SH(TwoOfTwo), Pushes(Append(sigs, TwoOfTwo)), <<>>,
                 Legacy(P2SH(TwoOfTwo), TwoOfTwo), 2)

\* Taproot: the key path, and a leaf that wants two of its two keys.
Leaf == <<32>> \o KeyX(1) \o <<\hac, 32>> \o KeyX(2) \o <<\hba, \h52, \h9c>>
LeafHash == TapLeaf(\hc0, Leaf)
Sibling == Word(90, 32)
Internal == KeyX(50)
Tree == Tweaked(Internal, TapRoot(LeafHash, Sibling))
P2TR(x) == <<\h51, 32>> \o x
Control == <<\hc0 + Parity(Tree)>> \o Internal \o Sibling
TapKeySpend(r) ==
    Spending(P2TR(KeyX(1)), <<>>, << <<Schnorr(r)>> >>, Signed(Tap(P2TR(KeyX(1)), <<>>), KeyX),
             {r} \ {0}, {KeyX(1)}, 1, r = 1)
TapLeafSpend(a, b, control) ==
    Spending(P2TR(Tree), <<>>, << <<Schnorr(a), Schnorr(b), Leaf, control>> >>,
             Signed(Tap(P2TR(Tree), LeafHash), KeyX), {a, b} \ {0}, {KeyX(1), KeyX(2)}, 2,
             a = 1 /\ b = 2 /\ control = Control)

\* A signature of another form for the public key hash.
FormSpend(scriptsig) ==
    Spending(PayToHash, scriptsig, <<>>, Signed(Legacy(PayToHash, PayToHash), Key), {1}, {Key(1)}, 1,
             FALSE)
Forms == {Pushes(<<Ecdsa(1) \o <<0>>, Key(1)>>), Pushes(<<Ecdsa(1), Key(4)>>),
          Pushes(<<Ecdsa(1), <<4>> \o Zeros(64)>>),
          Pushes(<<<<48, 7, 2, 2, 0, 1, 2, 1, 1, SIGHASH_ALL>>, Key(1)>>),
          Pushes(<<<<48, 6, 2, 1, 1, 2, 1, 1, 4>>, Key(1)>>)}

(*------------------------------- whole messages -------------------------------*)

\* A block whose transactions spend anyone's outputs, in turn or twice.
Free == P2SH(<<\h51>>)
FreeInput(k) == Input(Point(k), <<1, \h51>>, Final)
Spender(point, outs) == Tx(<<Input(point, <<1, \h51>>, Final)>>, outs, <<>>, 0)
BlockOf(txs) ==
    [Bare(<<[command |-> "block", value |-> [header |-> [Header EXCEPT !.merkle_root = <<>>],
                                              txs |-> <<PlainTx>> \o txs]]>>)
       EXCEPT !.coins = [p \in {Point(k) : k \in 1..3} |-> Coin(9, Free)]]
FreeBlock(points) ==
    BlockOf([j \in DOMAIN points |->
               Tx([k \in DOMAIN points[j] |-> FreeInput(points[j][k])], Change, <<>>, 0)])

\* A transaction with two outputs and others of the same block that spend these.
FirstTx == Spender(Point(1), <<Output(3, Free), Output(2, Free)>>)
Output_(k) == Txid(FirstTx) \o ToLe(k, 4)
Chained == {<<0>>, <<1>>, <<2>>, <<0, 1>>, <<0, 0>>}
ChainedBlock(outs) ==
    BlockOf(<<FirstTx>> \o [j \in DOMAIN outs |-> Spender(Output_(outs[j]), <<Output(1, Free)>>)])
Blocks == {<<<<1>>, <<2>>>>, <<<<1>>, <<1>>>>, <<<<1, 1>>>>, <<<<1, 2>>, <<3>>>>, <<<<1, 2>>, <<2>>>>}

\* A transaction whose only input spends this coin.
Alone(coin, sig, sequence, outs, wits, lock, flags) ==
    [Bare(OneTx(<<Input(Point(1), sig, sequence)>>, outs, wits, lock)) EXCEPT
        !.coins = (Point(1) :> coin), !.flags = flags]
CheckLock == <<1, 5, \hb1, \h75, \h51>>
Sequences_ == {Final, Zeros(4), <<9, 0, 0, 0>>, <<10, 0, 0, 0>>, <<1, 0, \h40, 0>>, <<2, 0, \h40, 0>>}
Coins == {Coin(9, Free), [Coin(9, Free) EXCEPT !.coinbase = TRUE],
          [Coin(9, Free) EXCEPT !.coinbase = TRUE, !.height = 8], Coin(2000, Free), Coin(9, <<\h51>>)}
Programs == {P2WPKH(1), P2WSH(<<\h51>>), P2WSH(<<\h6a>>), P2TR(KeyX(1)), P2TR(Zeros(32)),
             P2SH(P2WSH(<<\h51>>))}
NestedPush == Pushes(<<P2WSH(<<\h51>>)>>)
Witnesses == {<<>>, <<<<>>>>, << <<<<\h51>>>> >>, << << <<1>>, <<\h6a>> >> >>,
              << <<Zeros(64), <<\h51>>, Zeros(33)>> >>}

Cases ==
    {<<"message", k>> : k \in DOMAIN Messages}
    \union {<<"redeem", code, items>> : code \in Nested, items \in Conditions}
    \union {<<"redeem", <<op, \h51>>, Deep>> : op \in StackOps}
    \union {<<"redeem", <<\h51, op, \h61>>, << <<3>>, <<129>> >> >> : op \in StackOps}
    \union {<<"redeem", code, << <<1>> >> >> : code \in Odd}
    \union {<<"key", kind, r>> : kind \in {"P2PKH", "P2WPKH", "nested"}, r \in Slots}
    \union {<<"multisig", kind, a, b>> : kind \in {"bare", "P2WSH", "P2SH"}, a, b \in Slots \ {0}}
    \union {<<"tapkey", r>> : r \in Slots}
    \union {<<"tapleaf", a, b, Control>> : a, b \in Slots}
    \union {<<"tapleaf", 1, 2, c>> : c \in {[Control EXCEPT ![40] = 1], [Control EXCEPT ![1] = \hc2],
                                            Front(Control), [Control EXCEPT ![2] = 0]}}
    \union {<<"form", sig>> : sig \in Forms}
    \union {<<"block", points>> : points \in Blocks}
    \union {<<"chained", outs>> : outs \in Chained}
    \union {<<"time", s, lock>> : s \in Sequences_, lock \in {0, 9, 10, 600, 701}}
    \union {<<"coin", coin, outs>> :
              coin \in Coins, outs \in {Change, <<Output(10, <<>>)>>, <<>>, <<Output(9, Zeros(250))>>}}
    \union {<<"locked", s, lock, flags>> :
              s \in {Zeros(4), Final}, lock \in {0, 4, 5}, flags \in {AllFlags, {"P2SH"}, {}}}
    \union {<<"program", program, sig, wits, flags>> :
              program \in Programs, wits \in Witnesses,
              sig \in {<<>>, NestedPush, <<\h61>> \o NestedPush, <<1, 9>> \o NestedPush},
              flags \in {AllFlags, AllFlags \ {"WITNESS"}, AllFlags \ {"TAPROOT"}}}

MCScenarios ==
    [k \in Cases |->
       CASE k[1] = "message" -> MessageScenario(k[2])
         [] k[1] = "redeem" -> AsRedeem(k[2], k[3])
         [] k[1] = "key" -> KeySpend(k[2], k[3])
         [] k[1] = "multisig" -> MultisigSpend(k[2], k[3], k[4])
         [] k[1] = "tapkey" -> TapKeySpend(k[2])
         [] k[1] = "tapleaf" -> TapLeafSpend(k[2], k[3], k[4])
         [] k[1] = "form" -> FormSpend(k[2])
         [] k[1] = "block" -> FreeBlock(k[2])
         [] k[1] = "chained" -> ChainedBlock(k[2])
         [] k[1] = "time" -> Alone(Coin(9, Free), <<1, \h51>>, k[2], Change, <<>>, k[3], AllFlags)
         [] k[1] = "coin" -> Alone(k[2], <<1, \h51>>, Final, k[3], <<>>, 0, AllFlags)
         [] k[1] = "locked" ->
              Alone(Coin(9, P2SH(CheckLock)), EncodePush(CheckLock), k[2], Change, <<>>, k[3], k[4])
         [] k[1] = "program" -> Alone(Coin(9, k[2]), k[3], Final, Change, k[4], 0, k[5])]
=============================================================================
