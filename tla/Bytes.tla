------------------------------- MODULE Bytes -------------------------------
(* Byte strings as sequences of 0..255, the first byte first: fixed-width       *)
(* integers, CompactSize counts, the digests and the numbers of the script      *)
(* stack.  An integer of fixed width stays its bytes wherever only equality      *)
(* matters and becomes a number where the code computes with it.                 *)
(*                                                                              *)
(* Scaled: MaxNum is SCRIPT.MAX_BITNUM (4 in the code).  A little-endian         *)
(* integer of more than three significant bytes reads as 2^24: every threshold   *)
(* of the model lies below.                                                      *)
EXTENDS Integers, SequencesExt

CONSTANT MaxNum

Byte == 0..255
Zeros(n) == [k \in 1..n |-> 0]
Drop(b, n) == SubSeq(b, n + 1, Len(b))
Take(b, n) == SubSeq(b, 1, n)

\* f, and g where f says nothing.
Over(f, g) == [x \in DOMAIN f \union DOMAIN g |-> IF x \in DOMAIN f THEN f[x] ELSE g[x]]

\* What n rounds of a loop make of its first state.
Rounds(n, first, Next(_)) ==
    LET f[k \in 0..n] == IF k = 0 THEN first ELSE LET s == f[k - 1] IN Next(s)
    IN f[n]

\* b without the bytes c at its end.
StripEnd(b, c) ==
    Take(b, Min({k \in 0..Len(b) : \A j \in k + 1..Len(b) : b[j] = c}))

Concat(bs) == FlattenSeq(bs)

\* int.from_bytes(b, "little").
FromLe(b) ==
    LET at(k) == IF k > Len(b) THEN 0 ELSE b[k]
    IN IF \E k \in DOMAIN b : k > 3 /\ b[k] # 0 THEN 2^24
       ELSE at(1) + 256 * at(2) + 65536 * at(3)

\* n.to_bytes(w, "little"), for the n < 2^24 of the model.
ToLe(n, w) ==
    [k \in 1..w |-> CASE k = 1 -> n % 256 [] k = 2 -> (n \div 256) % 256
                      [] k = 3 -> (n \div 65536) % 256 [] OTHER -> 0]

(*------------------------------ CompactSize ------------------------------*)

CompactSize(n) ==
    CASE n <= \hfc -> <<n>>
      [] n > \hfc /\ n <= \hffff -> <<\hfd>> \o ToLe(n, 2)
      [] OTHER -> <<\hfe>> \o ToLe(n, 4)

Width(lead) == CASE lead = \hfd -> 2 [] lead = \hfe -> 4 [] lead = \hff -> 8
                 [] OTHER -> 0

\* The count at the head of b and what follows it: the prefix byte is the count
\* itself or tells how many bytes hold it, a longer form than needed included.
ReadCompact(b) ==
    IF b = <<>> THEN [ok |-> FALSE]
    ELSE LET w == Width(b[1])
             n == IF w = 0 THEN b[1] ELSE FromLe(SubSeq(b, 2, w + 1))
         IN IF Len(b) < w + 1 THEN [ok |-> FALSE]
            ELSE [ok |-> TRUE, val |-> n, rest |-> Drop(b, w + 1)]

(*-------------------------------- digests --------------------------------*)

\* A digest of n bytes: the tag of the algorithm, the length and two sums of
\* squares over the data and its positions.  It stands for a hash function without
\* collisions.
Sum(b, weight) ==
    LET square(k) == LET x == (b[k] + 1 + k * weight) % 32749 IN (x * x) % 65521
        add(s) == [at |-> s.at + 1,
                   sum |-> IF s.at > Len(b) THEN s.sum ELSE (s.sum + square(s.at)) % 65521]
        row(s) == IF s.at > Len(b) THEN s ELSE Rounds(32, s, add)
    IN Rounds(Len(b) \div 32 + 1, [at |-> 1, sum |-> 0], row).sum
Digest(alg, b, n) ==
    <<alg, Len(b) % 251>> \o ToLe(Sum(b, 259), 2) \o ToLe(Sum(b, 7919), 2) \o Zeros(n - 6)

sha256(b) == Digest(1, b, 32)
ripemd160(b) == Digest(2, b, 20)
sha1(b) == Digest(3, b, 20)
hash160(b) == ripemd160(sha256(b))
hash256(b) == sha256(sha256(b))

(*--------------------------------- BitNum ---------------------------------*)

\* The bytes of a magnitude, as few as hold it.
Magnitude(n) == StripEnd(ToLe(n, 4), 0)

\* BitNum.to_bytes: magnitude bytes with the sign in the highest bit of the last,
\* a byte of its own when that bit is taken.
NumBytes(n) ==
    LET mag == Magnitude(IF n < 0 THEN -n ELSE n)
        sign == IF n < 0 THEN 128 ELSE 0
    IN IF mag = <<>> THEN <<>>
       ELSE IF Last(mag) >= 128 THEN Append(mag, sign)
       ELSE [mag EXCEPT ![Len(mag)] = @ + sign]

\* BitNum.from_bytes of an item of at most MaxNum bytes: no minimality asked.
IsNum(b) == Len(b) <= MaxNum
BytesNum(b) ==
    IF b = <<>> THEN 0
    ELSE IF Last(b) >= 128 THEN -FromLe([b EXCEPT ![Len(b)] = @ - 128])
    ELSE FromLe(b)

Bool(p) == IF p THEN <<1>> ELSE <<>>
=============================================================================
