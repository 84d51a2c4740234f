-------------------------------- MODULE Codec --------------------------------
(***************************************************************************)
(* The posting-list codec of index/postings: Frame-of-Reference packing of *)
(* the gaps of a full block, group-varint for the gaps of the last block,  *)
(* PForDelta for the frequencies, and the table of blocks beside the data. *)
(*                                                                         *)
(* Data are sequences of bytes.  Shifting, masking and or-ing numbers      *)
(* together is taking and giving their digits: bits, the seven bits of a   *)
(* varint byte, the length fields of a control byte, bytes.  Bit n of a    *)
(* packed stream is bit n % width of value n \div width, and byte k holds  *)
(* the bits from 8k on.                                                    *)
(***************************************************************************)
EXTENDS Iteration, Integers, Sequences, FiniteSets, FiniteSetsExt, SequencesExt

CONSTANTS
    BlockSize,  \* documents in a full block (128)
    MaxWidth,   \* the bits of a document id or a frequency (32)
    Samples     \* the posting lists that are encoded

VARIABLE sample \* the postings given to the codec

(* 1 << n. *)
Bit == [n \in 0 .. MaxWidth |-> Iterate([x \in Nat |-> 2 * x], 1, n)]

(* What Encode takes: postings by ascending document, of a fixed width. *)
Encodable(ps) ==
    /\ ps \in Seq(Nat \X Nat)
    /\ \A i, j \in DOMAIN ps : i < j => ps[i][1] < ps[j][1]
    /\ \A i \in DOMAIN ps : ps[i][1] < Bit[MaxWidth] /\ ps[i][2] < Bit[MaxWidth]

(* The positions in a block and the number of its exceptions are bytes. *)
ASSUME CodecAssumption ==
    /\ BlockSize \in 2 .. 255 /\ MaxWidth \in 28 .. 32
    /\ \A ps \in Samples : Encodable(ps)

maxOf(vs) == Max(ToSet(vs) \cup {0})

(* Digit i of v, counted from 0, and the number of the digits ds; a digit  *)
(* has so many bits.                                                       *)
digit(v, bits, i) == (v \div Bit[bits * i]) % Bit[bits]

numberOf(ds, bits) == SumFunction([i \in DOMAIN ds |-> ds[i] * Bit[bits * (i - 1)]])

(* The numbers of a set in ascending order. *)
ascending(S) ==
    [j \in 1 .. Cardinality(S) |-> CHOOSE i \in S : Cardinality({r \in S : r < i}) = j - 1]

-----------------------------------------------------------------------------
(* bitpack.go                                                              *)

minWidth(v) == Min({w \in 1 .. MaxWidth : v < Bit[w]})

maxWidth(vs) == minWidth(maxOf(vs))

packedLen(count, width) == (count * width + 7) \div 8

packBits(vs, width) ==
    LET bit(n) == IF n < Len(vs) * width THEN digit(vs[n \div width + 1], 1, n % width) ELSE 0
    IN  [k \in 1 .. packedLen(Len(vs), width) |-> numberOf([j \in 1 .. 8 |-> bit(8 * (k - 1) + j - 1)], 1)]

(* The values, read from the bytes that begin after position pos. *)
unpackBits(src, pos, count, width) ==
    LET bit(n) == digit(src[pos + n \div 8 + 1], 1, n % 8)
    IN  [i \in 1 .. count |-> numberOf([j \in 1 .. width |-> bit((i - 1) * width + j - 1)], 1)]

(* The first number of shifts by 7 that leaves less than a continued byte; *)
(* what is written has 32 bits.                                            *)
uvarintLen(x) == Min({n \in 1 .. 5 : x \div Bit[7 * (n - 1)] < 128})

appendUvarint(x) ==
    [i \in 1 .. uvarintLen(x) |-> digit(x, 7, i - 1) + IF i < uvarintLen(x) THEN 128 ELSE 0]

(* The value and how many bytes it took. *)
readUvarint(src, pos) ==
    LET n == Min({i \in 1 .. Len(src) - pos : src[pos + i] < 128})
    IN  <<numberOf([i \in 1 .. n |-> src[pos + i] % 128], 7), n>>

-----------------------------------------------------------------------------
(* pfordelta.go                                                            *)

exceptions(vs, w) == {i \in DOMAIN vs : vs[i] >= Bit[w]}

(* The first of the widths that minimise the encoded size.  The code tries *)
(* all of 1 to 32; past the width of the largest value none is smaller.    *)
chooseWidth(vs) ==
    LET cost == [w \in 1 .. maxWidth(vs) |->
                    packedLen(Len(vs), w)
                    + SumFunction([i \in exceptions(vs, w) |-> 1 + uvarintLen(vs[i])])]
        cheapest(c) == Min({w \in DOMAIN c : \A v \in DOMAIN c : c[w] <= c[v]})
    IN  cheapest(cost)

(* A slip: an exception is patched at its value's rank, not its position. *)
PatchNoPosition(vs, exc, w) ==
    <<w, Len(exc)>>
    \o FlattenSeq([i \in DOMAIN exc |-> <<i - 1>> \o appendUvarint(vs[exc[i]])])
    \o packBits([i \in DOMAIN vs |-> vs[i] % Bit[w]], w)

(* The header, a patch for each of the positions exc and the low bits. *)
patchAndPack(vs, exc, w) ==
    <<w, Len(exc)>>
    \o FlattenSeq([i \in DOMAIN exc |-> <<exc[i] - 1>> \o appendUvarint(vs[exc[i]])])
    \o packBits([i \in DOMAIN vs |-> vs[i] % Bit[w]], w)

appendPForDelta(vs) ==
    LET atWidth(w) == patchAndPack(vs, ascending(exceptions(vs, w)), w)
    IN  atWidth(chooseWidth(vs))

(* Patch i lies between after(i - 1) and after(i). *)
readPForDelta(src, pos, count) ==
    LET w == src[pos + 1]
        excCount == src[pos + 2]
        skip == [p \in Nat |-> p + 1 + readUvarint(src, p + 1)[2]]
        after(i) == Iterate(skip, pos + 2, i)
        low == unpackBits(src, after(excCount), count, w)
        on(i) == {j \in 1 .. excCount : src[after(j - 1) + 1] = i - 1}
    IN  [i \in 1 .. count |->
            IF on(i) = {} THEN low[i] ELSE readUvarint(src, after(Max(on(i)) - 1) + 1)[1]]

-----------------------------------------------------------------------------
(* groupvarint.go                                                          *)

byteLen(v) == IF v < 256 THEN 1 ELSE IF v < 256 * 256 THEN 2 ELSE IF v < 256 * 256 * 256 THEN 3 ELSE 4

(* Every fourth value comes behind the control byte of its group. *)
appendGroupVarint(vs) ==
    LET sizes(i) == [j \in 1 .. Min({4, Len(vs) - i + 1}) |-> byteLen(vs[i + j - 1]) - 1]
        ctrl(i) == IF i % 4 = 1 THEN <<numberOf(sizes(i), 2)>> ELSE <<>>
        bytes(v) == [b \in 1 .. byteLen(v) |-> digit(v, 8, b - 1)]
    IN  FlattenSeq([i \in DOMAIN vs |-> ctrl(i) \o bytes(vs[i])])

(* The values, and the position after the last. *)
readGroupVarint(src, pos, count) ==
    LET turn == [s \in [out : Seq(Nat), pos : Nat, ctrl : Nat] |->
            LET i == Len(s.out)
                from == IF i % 4 = 0 THEN s.pos + 1 ELSE s.pos
                ctrl == IF i % 4 = 0 THEN src[from] ELSE s.ctrl
                l == digit(ctrl, 2, i % 4) + 1
            IN  [out |-> Append(s.out, numberOf([b \in 1 .. l |-> src[from + b]], 8)),
                 pos |-> from + l, ctrl |-> ctrl]]
        end == Iterate(turn, [out |-> <<>>, pos |-> pos, ctrl |-> 0], count)
    IN  <<end.out, end.pos>>

-----------------------------------------------------------------------------
(* postings.go: a posting is <<doc, freq>>.                                *)

encodeBlock(ps) ==
    LET gaps == [i \in 1 .. Len(ps) - 1 |-> ps[i + 1][1] - ps[i][1]]
        freqs == [i \in DOMAIN ps |-> ps[i][2]]
        packed(w) == <<w>> \o packBits(gaps, w)
    IN  [firstDoc |-> ps[1][1], lastDoc |-> ps[Len(ps)][1], maxFreq |-> maxOf(freqs),
         count |-> Len(ps),
         data |-> (IF Len(ps) = BlockSize THEN packed(maxWidth(gaps))
                   ELSE appendGroupVarint(gaps))
                  \o appendPForDelta(freqs)]

NotAscending == <<[firstDoc |-> -1]>>

(* The postings of block b: the last block may be short. *)
blockOf(ps, b) == SubSeq(ps, (b - 1) * BlockSize + 1, Min({b * BlockSize, Len(ps)}))

(* Encode: the blocks with their payloads, or an error for input that is   *)
(* not strictly ascending.                                                 *)
Encode(ps) ==
    IF \E i \in 1 .. Len(ps) - 1 : ps[i + 1][1] <= ps[i][1] THEN NotAscending
    ELSE [b \in 1 .. (Len(ps) + BlockSize - 1) \div BlockSize |-> encodeBlock(blockOf(ps, b))]

decodeBlock(b) ==
    LET src == b.data
        read == IF b.count = BlockSize
                THEN <<unpackBits(src, 1, b.count - 1, src[1]), 1 + packedLen(b.count - 1, src[1])>>
                ELSE readGroupVarint(src, 0, b.count - 1)
        postings(gaps, freqs) ==
            [i \in 1 .. b.count |->
                <<b.firstDoc + SumFunction([j \in 1 .. i - 1 |-> gaps[j]]), freqs[i]>>]
        afterGaps(r) == postings(r[1], readPForDelta(src, r[2], b.count))
    IN  afterGaps(read)

decodeAll(list) == FlattenSeq([i \in DOMAIN list |-> decodeBlock(list[i])])

-----------------------------------------------------------------------------
(* The streams of a list without its cuts into blocks: gaps of any number  *)
(* of groups, frequencies of any number of exceptions.                     *)
StreamsRoundTrip(ps) ==
    LET gaps == [i \in 1 .. Len(ps) - 1 |-> ps[i + 1][1] - ps[i][1]]
        freqs == [i \in DOMAIN ps |-> ps[i][2]]
        bytes == appendGroupVarint(gaps)
    IN  ps # <<>> => /\ readGroupVarint(bytes, 0, Len(gaps)) = <<gaps, Len(bytes)>>
                     /\ readPForDelta(appendPForDelta(freqs), 0, Len(freqs)) = freqs

(* Decoding the blocks of an encoded list gives its postings back, each    *)
(* from its own block, and the table tells no lie about a block: its       *)
(* bounds and its largest frequency are those of its postings.  Data are   *)
(* bytes: nothing was cut off where one was written.                       *)
BlocksRoundTrip(ps) ==
    LET list == Encode(ps)
    IN  /\ decodeAll(list) = ps
        /\ \A b \in DOMAIN list : decodeBlock(list[b]) = blockOf(ps, b)
        /\ \A b \in ToSet(list) : \A p \in ToSet(decodeBlock(b)) :
             p[1] \in b.firstDoc .. b.lastDoc /\ p[2] <= b.maxFreq
        /\ \A b \in ToSet(list) : ToSet(b.data) \subseteq 0 .. 255

(* The codec keeps no state: a behaviour is one list. *)
CodecSpec == sample \in Samples /\ [][UNCHANGED sample]_sample

(* ListsRoundTrip: whatever the documents and frequencies, a list decodes  *)
(* to what was encoded: gaps, groups, exceptions and the table of blocks   *)
(* (postings.go:48 and 204).                                               *)
ListsRoundTrip == StreamsRoundTrip(sample) /\ BlocksRoundTrip(sample)
=============================================================================
