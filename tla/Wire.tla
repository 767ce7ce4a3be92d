-------------------------------- MODULE Wire --------------------------------
(* The P2P messages on the wire: network/messages and network/datatypes.         *)
(*                                                                              *)
(* A reader is a layout, a record that Read interprets the way from_payload walks *)
(* its stream; a writer is an operator on the value of the message, translated    *)
(* from to_payload.  Nothing is read with a check of what follows it: bytes after  *)
(* the payload of a message are ignored, as in the code.                          *)
(*                                                                              *)
(* Scaled: MaxHeaders, MaxInventory, MaxAddr and MaxPayload are the limits of      *)
(* NETWORK of the same names.  Now is the clock that a zero timestamp is replaced  *)
(* with, Magic the network of this node, AllowedMagic those a header may name.     *)
(* The name of a command is two letters instead of up to twelve.                   *)
EXTENDS Spend

CONSTANTS MaxHeaders, MaxInventory, MaxAddr, MaxPayload, Now, Magic, AllowedMagic

(*---------------------------------- layouts ----------------------------------*)

\* What is read, and what becomes of it: how names a case of Convert.
Layout(kind) == [kind |-> kind, how |-> ""]
As(layout, how) == [layout EXCEPT !.how = how]
Raw(n) == [kind |-> "raw", how |-> "", n |-> n]
Counted8 == Layout("data")
Count == Layout("count")
Many(of, max) == [kind |-> "many", how |-> "", of |-> of, max |-> max]
Times(of, n) == [kind |-> "times", how |-> "", of |-> of, n |-> n]
Fields(list) == [kind |-> "fields", how |-> "", list |-> list]
Unbounded == 2^24
Hash == Raw(32)
Hashes == Many(Hash, Unbounded)

Got(val, rest) == [ok |-> TRUE, val |-> val, rest |-> rest]
Exactly(n, s) == IF Len(s) < n THEN None ELSE Got(Take(s, n), Drop(s, n))

(*------------------------------- conversions -------------------------------*)

V4_PREFIX == Zeros(10) \o <<255, 255>>

\* ip_from_netaddr and netaddr_bytes: a mapped address is its four bytes.
ReadIp(b) == IF Take(b, 12) = V4_PREFIX THEN Drop(b, 12) ELSE b
WriteIp(ip) == IF Len(ip) = 4 THEN V4_PREFIX \o ip ELSE ip

InvType == {<<k, 0, 0, hi>> : k \in 1..3, hi \in {0, \h40}} \union {Zeros(4), <<4, 0, 0, 0>>}

IsAscii(b) == \A k \in DOMAIN b : b[k] < 128

\* Fault: a gap is added to the last index without the one in between.
ReadGapsPlain(gaps) ==
    LET f[k \in 0..Len(gaps)] == IF k = 0 THEN 0 ELSE f[k - 1] + gaps[k]
    IN [k \in DOMAIN gaps |-> f[k]]

\* decode_differential and encode_differential.
ReadGaps(gaps) ==
    LET f[k \in 0..Len(gaps)] == IF k = 0 THEN -1 ELSE f[k - 1] + gaps[k] + 1
    IN [k \in DOMAIN gaps |-> f[k]]
Gaps(indices) ==
    [k \in DOMAIN indices |-> indices[k] - (IF k = 1 THEN -1 ELSE indices[k - 1]) - 1]

Prefilled(v) ==
    LET at == ReadGaps([k \in DOMAIN v |-> v[k].gap])
    IN [k \in DOMAIN v |-> [index |-> at[k], tx |-> v[k].tx]]

\* BlockHeader.__init__: a version of 0 is replaced by BIP65_VERSION, a timestamp
\* of 0 by the time of the reading.
Default(b, value) == IF b = Zeros(Len(b)) THEN value ELSE b
HeaderDefaults(h) ==
    [h EXCEPT !.version = Default(@, <<4, 0, 0, 0>>), !.timestamp = Default(@, Now),
              !.bits = Reverse(@)]

\* MerkleTree: pairs are hashed level by level, an odd last one with itself.
MerkleLevel(ids) ==
    IF Len(ids) = 1 THEN ids
    ELSE [k \in 1..(Len(ids) + 1) \div 2 |->
            hash256(ids[2 * k - 1] \o ids[IF 2 * k > Len(ids) THEN 2 * k - 1 ELSE 2 * k])]
MerkleRoot(ids) == Rounds(Len(ids), ids, MerkleLevel)[1]

\* Two letters for each command, in the order of the list.
Commands == <<"addr", "feefilter", "filteradd", "filterclear", "filterload", "getaddr", "ping",
              "pong", "reject", "sendaddrv2", "sendheaders", "verack", "version", "wtxidrelay",
              "block", "blocktxn", "cmpctblock", "getblocktxn", "getblocks", "getdata",
              "getheaders", "headers", "inv", "mempool", "merkleblock", "notfound",
              "sendcmpct", "tx", "cfilter", "cfheaders", "cfcheckpt", "getcfilters",
              "getcfheaders", "getcfcheckpt">>
Letters(k) == <<97 + (k \div 26), 97 + (k % 26)>>
\* A command that is not registered has letters of its own.
CommandBytes(name) ==
    LET at == {k \in DOMAIN Commands : Commands[k] = name}
    IN Letters(IF at = {} THEN 100 ELSE CHOOSE k \in at : TRUE)

\* What a value read becomes, None when its constructor refuses it.
Convert(how, v) ==
    CASE how = "" -> [ok |-> TRUE, val |-> v]
      [] how = "port" -> [ok |-> TRUE, val |-> FromBe(v)]
      [] how = "ip" -> [ok |-> TRUE, val |-> ReadIp(v)]
      [] how = "bool" -> [ok |-> TRUE, val |-> v # <<0>>]
      [] how = "gaps" -> [ok |-> TRUE, val |-> ReadGaps(v)]
      [] how = "ascii" -> [ok |-> IsAscii(v), val |-> v]
      [] how = "agent" -> [ok |-> IsAscii(StripEnd(v, 0)), val |-> StripEnd(v, 0)]
      [] how = "inv" -> [ok |-> v \in InvType, val |-> v]
      [] how = "empty" -> [ok |-> v = <<0>>, val |-> v]
      [] how = "segwit" -> [ok |-> v = <<0, 1>>, val |-> v]
      [] how = "header" -> [ok |-> TRUE, val |-> HeaderDefaults(v)]
      [] how = "entries" -> [ok |-> TRUE, val |-> [k \in DOMAIN v |-> v[k].header]]
      [] how = "prefilled" -> [ok |-> TRUE, val |-> Prefilled(v)]
      [] how = "tx" ->
           [ok |-> TRUE,
            val |-> [version |-> v.version, inputs |-> v.inputs, outputs |-> v.outputs,
                     witness |-> IF "witness" \in DOMAIN v THEN v.witness ELSE <<>>,
                     locktime |-> v.locktime]]
      [] how = "block" ->
           [ok |-> v.txs # <<>>, val |-> [v EXCEPT !.header.merkle_root = <<>>]]

(*---------------------------------- reading ----------------------------------*)

TxInLayout == Fields(<< <<"outpoint", Raw(36)>>, <<"scriptsig", Counted8>>, <<"sequence", Raw(4)>> >>)
TxOutLayout == Fields(<< <<"amount", Raw(8)>>, <<"script", Counted8>> >>)
WitnessLayout == Many(Counted8, Unbounded)
HeaderLayout ==
    As(Fields(<< <<"version", Raw(4)>>, <<"prev_block", Hash>>, <<"merkle_root", Hash>>,
                 <<"timestamp", Raw(4)>>, <<"bits", Raw(4)>>, <<"nonce", Raw(4)>> >>), "header")

\* Tx.from_bytes: a zero where the inputs are counted is the segwit marker, and
\* then there is one witness per input.
TxLayout == Layout("tx")
WitnessesLayout == Layout("witnesses")
TxFields(segwit) ==
    LET version == <<"version", Raw(4)>>
        marked == <<"segwit", As(Raw(2), "segwit")>>
        inputs == <<"inputs", Many(TxInLayout, Unbounded)>>
        outputs == <<"outputs", Many(TxOutLayout, Unbounded)>>
        witness == <<"witness", WitnessesLayout>>
        locktime == <<"locktime", Raw(4)>>
    IN IF segwit THEN <<version, marked, inputs, outputs, witness, locktime>>
       ELSE <<version, inputs, outputs, locktime>>

\* Reject.from_payload: the hash is there only for a block or a transaction.
RejectedHashLayout == Layout("rejected")
RejectLayout ==
    Fields(<< <<"message_type", As(Counted8, "ascii")>>, <<"code", Raw(1)>>,
              <<"reason", As(Counted8, "ascii")>>, <<"extra_data", RejectedHashLayout>> >>)

\* The layout of a field that depends on the fields before it.
Resolved(d, before) ==
    CASE d.kind = "witnesses" -> Times(WitnessLayout, Len(before.inputs))
      [] d.kind = "rejected" ->
           Raw(IF before.message_type \in {CommandBytes("block"), CommandBytes("tx")} THEN 32 ELSE 0)
      [] OTHER -> d

Made(item, how) ==
    LET made == Convert(how, item.val)
    IN IF ~item.ok THEN None ELSE IF made.ok THEN Got(made.val, item.rest) ELSE None

\* n items one after the other.
Appended(g, item) ==
    IF ~g.ok THEN None ELSE IF item.ok THEN Got(Append(g.val, item.val), item.rest) ELSE None
ReadItems(Inner(_, _), d, n, s) ==
    Rounds(n, Got(<<>>, s), LAMBDA g : Appended(g, Inner(d, g.rest)))

\* The fields of a record in the order of the list.
Named(g, name, item) ==
    IF ~g.ok THEN None
    ELSE IF item.ok THEN Got(Over([x \in {name} |-> item.val], g.val), item.rest) ELSE None
ReadFields(Inner(_, _), list, s) ==
    LET field(g, e) == Named(g, e[1], Inner(Resolved(e[2], g.val), g.rest))
        f[k \in 0..Len(list)] == IF k = 0 THEN Got(<<>>, s) ELSE field(f[k - 1], list[k])
    IN f[Len(list)]

\* A layout, with a reader for the layouts inside it.
ReadWith(Inner(_, _), d, s) ==
    LET counted(n) ==
          IF ~n.ok THEN None ELSE IF n.val > d.max THEN None ELSE ReadItems(Inner, d.of, n.val, n.rest)
    IN CASE d.kind = "many" -> Made(counted(ReadCompact(s)), d.how)
         [] d.kind = "times" -> Made(ReadItems(Inner, d.of, d.n, s), d.how)
         [] d.kind = "fields" -> Made(ReadFields(Inner, d.list, s), d.how)
         [] OTHER -> Inner(d, s)

\* A string of bytes, with its length known or before it, or a count.
ReadAtom(d, s) ==
    LET data(n) == IF n.ok THEN Exactly(n.val, n.rest) ELSE None
    IN Made(CASE d.kind = "raw" -> Exactly(d.n, s)
              [] d.kind = "count" -> ReadCompact(s)
              [] d.kind = "data" -> data(ReadCompact(s)), d.how)

\* A transaction has lists of records of atoms inside it, a message has no more
\* than three layouts around a transaction or an atom.
ReadPart(d, s) == ReadWith(ReadAtom, d, s)
ReadList(d, s) == ReadWith(ReadPart, d, s)
ReadTx(s) == Made(ReadFields(ReadList, TxFields(Len(s) > 4 /\ s[5] = 0), s), "tx")
ReadLeaf(d, s) == IF d.kind = "tx" THEN ReadTx(s) ELSE ReadAtom(d, s)
ReadGroup(d, s) == ReadWith(ReadLeaf, d, s)
ReadBody(d, s) == ReadWith(ReadGroup, d, s)
Read(d, s) == ReadWith(ReadBody, d, s)

(*---------------------------- one layout a message ----------------------------*)

AddressFields == << <<"services", Raw(8)>>, <<"ip_addr", As(Raw(16), "ip")>>,
                    <<"port", As(Raw(2), "port")>> >>
NetAddrLayout == Fields(<< <<"timestamp", Raw(4)>> >> \o AddressFields)

Empty == Fields(<<>>)
AddrLayout == Many(NetAddrLayout, MaxAddr)
FeeFilterLayout == Raw(8)
FilterAddLayout == Counted8
FilterLoadLayout ==
    Fields(<< <<"bitfilter", Counted8>>, <<"hash_num", Raw(4)>>, <<"tweak", Raw(4)>>,
              <<"flags", Raw(1)>> >>)
PingPongLayout == Raw(8)
VersionLayout ==
    Fields(<< <<"protocol_version", Raw(4)>>, <<"services", Raw(8)>>, <<"timestamp", Raw(8)>>,
              <<"remote", Fields(AddressFields)>>, <<"local", Fields(AddressFields)>>,
              <<"nonce", Raw(8)>>, <<"user_agent", As(Counted8, "agent")>>,
              <<"last_block", Raw(4)>> >>)

GetBlocksLayout ==
    Fields(<< <<"version", Raw(4)>>, <<"locator_hashes", Hashes>>, <<"hash_stop", Hash>> >>)
InvLayout ==
    Many(Fields(<< <<"type", As(Raw(4), "inv")>>, <<"hash", Hash>> >>), MaxInventory)
BlockLayout ==
    As(Fields(<< <<"header", HeaderLayout>>, <<"txs", Many(TxLayout, Unbounded)>> >>), "block")
BlockTxnsLayout ==
    Fields(<< <<"block_hash", Hash>>, <<"txs", Many(TxLayout, Unbounded)>> >>)
BlockTxnsRequestLayout ==
    Fields(<< <<"block_hash", Hash>>, <<"indices", As(Many(Count, Unbounded), "gaps")>> >>)
CmpctBlockLayout ==
    Fields(<< <<"header", Raw(80)>>, <<"nonce", Raw(8)>>, <<"short_ids", Many(Raw(6), Unbounded)>>,
              <<"prefilled", As(Many(Fields(<< <<"gap", Count>>, <<"tx", TxLayout>> >>), Unbounded),
                                "prefilled")>> >>)
HeadersLayout ==
    As(Many(Fields(<< <<"header", HeaderLayout>>, <<"tx_count", As(Raw(1), "empty")>> >>),
            MaxHeaders), "entries")
MerkleBlockLayout ==
    Fields(<< <<"header", HeaderLayout>>, <<"tx_num", Raw(4)>>, <<"hashes", Hashes>>,
              <<"flags", Counted8>> >>)
SendCmpctLayout ==
    Fields(<< <<"announce", As(Raw(1), "bool")>>, <<"version", Raw(8)>> >>)

GetCFRangeLayout ==
    Fields(<< <<"filter_type", Raw(1)>>, <<"start_height", Raw(4)>>, <<"stop_hash", Hash>> >>)
CFilterLayout ==
    Fields(<< <<"filter_type", Raw(1)>>, <<"block_hash", Hash>>, <<"filter_data", Counted8>> >>)
CFHeadersLayout ==
    Fields(<< <<"filter_type", Raw(1)>>, <<"stop_hash", Hash>>,
              <<"previous_filter_header", Hash>>, <<"filter_hashes", Hashes>> >>)
GetCFCheckptLayout == Fields(<< <<"filter_type", Raw(1)>>, <<"stop_hash", Hash>> >>)
CFCheckptLayout ==
    Fields(<< <<"filter_type", Raw(1)>>, <<"stop_hash", Hash>>, <<"filter_headers", Hashes>> >>)

\* Message._registry.
Registered ==
    [addr |-> AddrLayout, feefilter |-> FeeFilterLayout, filteradd |-> FilterAddLayout,
     filterclear |-> Empty, filterload |-> FilterLoadLayout, getaddr |-> Empty,
     ping |-> PingPongLayout, pong |-> PingPongLayout, reject |-> RejectLayout,
     sendaddrv2 |-> Empty, sendheaders |-> Empty, verack |-> Empty, version |-> VersionLayout,
     wtxidrelay |-> Empty, block |-> BlockLayout, blocktxn |-> BlockTxnsLayout,
     cmpctblock |-> CmpctBlockLayout, getblocktxn |-> BlockTxnsRequestLayout,
     getblocks |-> GetBlocksLayout, getdata |-> InvLayout, getheaders |-> GetBlocksLayout,
     headers |-> HeadersLayout, inv |-> InvLayout, mempool |-> Empty,
     merkleblock |-> MerkleBlockLayout, notfound |-> InvLayout, sendcmpct |-> SendCmpctLayout,
     tx |-> TxLayout, cfilter |-> CFilterLayout, cfheaders |-> CFHeadersLayout,
     cfcheckpt |-> CFCheckptLayout, getcfilters |-> GetCFRangeLayout,
     getcfheaders |-> GetCFRangeLayout, getcfcheckpt |-> GetCFCheckptLayout]

(*---------------------------------- writing ----------------------------------*)

Flat(hashes) == CompactSize(Len(hashes)) \o Concat(hashes)

WriteVersionAddr(a) == a.services \o WriteIp(a.ip_addr) \o Reverse(ToLe(a.port, 2))
WriteNetAddr(a) == a.timestamp \o WriteVersionAddr(a)
WriteInv(item) == item.type \o item.hash
WriteHeader(h) ==
    h.version \o h.prev_block \o h.merkle_root \o h.timestamp \o Reverse(h.bits) \o h.nonce
WriteListedHeader(h) == WriteHeader(h) \o <<0>>
WriteBlock(b) ==
    WriteHeader([b.header EXCEPT !.merkle_root = MerkleRoot([k \in DOMAIN b.txs |-> Txid(b.txs[k])])])
    \o Listed(b.txs, TxBytes)
WriteVersion(v) ==
    v.protocol_version \o v.services \o v.timestamp \o WriteVersionAddr(v.remote)
    \o WriteVersionAddr(v.local) \o v.nonce \o Serialized(v.user_agent) \o v.last_block
WriteFilterLoad(v) == Serialized(v.bitfilter) \o v.hash_num \o v.tweak \o v.flags
WriteReject(v) ==
    Serialized(v.message_type) \o v.code \o Serialized(v.reason) \o v.extra_data
WriteGetBlocks(v) == v.version \o Flat(v.locator_hashes) \o v.hash_stop
WriteBlockTxns(v) == v.block_hash \o Listed(v.txs, TxBytes)
WriteBlockTxnsRequest(v) == v.block_hash \o Listed(Gaps(v.indices), CompactSize)
WriteCmpctBlock(v) ==
    LET gaps == Gaps([k \in DOMAIN v.prefilled |-> v.prefilled[k].index])
    IN v.header \o v.nonce \o Flat(v.short_ids)
       \o Flat([k \in DOMAIN gaps |-> CompactSize(gaps[k]) \o TxBytes(v.prefilled[k].tx)])
WriteMerkleBlock(v) ==
    WriteHeader(v.header) \o v.tx_num \o Flat(v.hashes) \o Serialized(v.flags)
WriteSendCmpct(v) == <<IF v.announce THEN 1 ELSE 0>> \o v.version
WriteGetCFRange(v) == v.filter_type \o v.start_height \o v.stop_hash
WriteCFilter(v) == v.filter_type \o v.block_hash \o Serialized(v.filter_data)
WriteCFHeaders(v) ==
    v.filter_type \o v.stop_hash \o v.previous_filter_header \o Flat(v.filter_hashes)
WriteGetCFCheckpt(v) == v.filter_type \o v.stop_hash
WriteCFCheckpt(v) == v.filter_type \o v.stop_hash \o Flat(v.filter_headers)

\* to_payload of the message with this name and value.
Payload(name, v) ==
    CASE name = "addr" -> Listed(v, WriteNetAddr)
      [] name = "filteradd" -> Serialized(v)
      [] name = "filterload" -> WriteFilterLoad(v)
      [] name = "reject" -> WriteReject(v)
      [] name = "version" -> WriteVersion(v)
      [] name = "block" -> WriteBlock(v)
      [] name = "blocktxn" -> WriteBlockTxns(v)
      [] name = "cmpctblock" -> WriteCmpctBlock(v)
      [] name = "getblocktxn" -> WriteBlockTxnsRequest(v)
      [] name \in {"getblocks", "getheaders"} -> WriteGetBlocks(v)
      [] name \in {"inv", "getdata", "notfound"} -> Listed(v, WriteInv)
      [] name = "headers" -> Listed(v, WriteListedHeader)
      [] name = "merkleblock" -> WriteMerkleBlock(v)
      [] name = "sendcmpct" -> WriteSendCmpct(v)
      [] name = "tx" -> TxBytes(v)
      [] name \in {"getcfilters", "getcfheaders"} -> WriteGetCFRange(v)
      [] name = "cfilter" -> WriteCFilter(v)
      [] name = "cfheaders" -> WriteCFHeaders(v)
      [] name = "getcfcheckpt" -> WriteGetCFCheckpt(v)
      [] name = "cfcheckpt" -> WriteCFCheckpt(v)
      [] OTHER -> v

(*--------------------------------- envelopes ---------------------------------*)

HeaderLength == 24
Checksum(payload) == Take(hash256(payload), 4)
Envelope(magic, command, payload) ==
    magic \o command \o Zeros(12 - Len(command)) \o ToLe(Len(payload), 4)
    \o Checksum(payload) \o payload

\* Header._decode_command and _validate_command: the zeros at the end are padding,
\* a zero before them or a byte that does not print is refused, upper case folded.
DecodeCommand(field) ==
    LET name == StripEnd(field, 0)
    IN IF name = <<>> \/ \E k \in DOMAIN name : name[k] \notin \h20..\h7e THEN None
       ELSE [ok |-> TRUE,
             name |-> [k \in DOMAIN name |-> name[k] + IF name[k] \in 65..90 THEN 32 ELSE 0]]

\* Header.from_bytes.
ReadHeader(b) ==
    LET command == DecodeCommand(SubSeq(b, 5, 16))
        size == FromLe(SubSeq(b, 17, 20))
    IN IF ~command.ok \/ Take(b, 4) \notin AllowedMagic \/ size > MaxPayload THEN None
       ELSE [ok |-> TRUE, magic |-> Take(b, 4), command |-> command.name, size |-> size,
             checksum |-> SubSeq(b, 21, 24)]

\* validate_package, then the reader registered for the command: a message nobody
\* registered is kept as its bytes.
FromEnvelope(h, payload) ==
    LET known == {k \in DOMAIN Commands : Letters(k) = h.command}
        message(item) ==
          IF item.ok THEN [ok |-> TRUE, command |-> h.command, value |-> item.val] ELSE None
    IN IF Checksum(payload) # h.checksum \/ Len(payload) # h.size THEN None
       ELSE message(IF known = {} THEN [ok |-> TRUE, val |-> payload]
                    ELSE Read(Registered[Commands[CHOOSE k \in known : TRUE]], payload))
=============================================================================
