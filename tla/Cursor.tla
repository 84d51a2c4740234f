-------------------------------- MODULE Cursor --------------------------------
(***************************************************************************)
(* The cursor of index/postings over an encoded list.  blockIdx counts     *)
(* from 1 here: 0 is before the first document, Len(list) + 1 past the     *)
(* last.  docs is the block decoded last, as <<doc, freq>> pairs;          *)
(* shallowIdx is the pointer that only AdvanceShallow moves.               *)
(***************************************************************************)
EXTENDS Codec

NewCursor == [blockIdx |-> 0, inBlock |-> 1, docs |-> <<>>, decoded |-> FALSE, shallowIdx |-> 1]

PastEnd(list, c) == c.blockIdx > Len(list)

Doc(c) == c.docs[c.inBlock][1]

Freq(c) == c.docs[c.inBlock][2]

enterBlock(list, c, b) ==
    [c EXCEPT !.blockIdx = b, !.inBlock = 1, !.decoded = b <= Len(list),
              !.docs = IF b <= Len(list) THEN decodeBlock(list[b]) ELSE c.docs]

(* Next: the caller stops at the first cursor that is past the end. *)
NextDoc(list, c) ==
    IF c.blockIdx > 0 /\ c.inBlock < list[c.blockIdx].count
    THEN [c EXCEPT !.inBlock = @ + 1]
    ELSE enterBlock(list, c, c.blockIdx + 1)

(* What a cursor meets, from its first Next to its last. *)
walk(list) ==
    LET n == SumFunction([b \in DOMAIN list |-> list[b].count])
        c[i \in 0 .. n] == IF i = 0 THEN NewCursor ELSE NextDoc(list, c[i - 1])
    IN  {<<Doc(at), Freq(at)>> : at \in {c[i] : i \in 1 .. n}}

(* Blocks that end below the target are passed undecoded; a block that is  *)
(* already decoded is searched from where the cursor stands, so the cursor *)
(* never goes back.                                                        *)
NextGEQ(list, c, target) ==
    LET from == Max({c.blockIdx, 1})
        reach == {b \in from .. Len(list) : list[b].lastDoc >= target}
        seek(at) == [at EXCEPT !.inBlock =
                       Min({i \in @ .. list[at.blockIdx].count : at.docs[i][1] >= target})]
        in(b) == IF c.decoded /\ b = c.blockIdx THEN c ELSE enterBlock(list, c, b)
    IN  IF reach = {} THEN [c EXCEPT !.blockIdx = Len(list) + 1, !.decoded = FALSE]
        ELSE seek(in(Min(reach)))

AdvanceShallow(list, c, target) ==
    [c EXCEPT !.shallowIdx =
        Min({b \in @ .. Len(list) : list[b].lastDoc >= target} \cup {Len(list)})]

BlockMaxFreq(list, c) == list[c.shallowIdx].maxFreq

BlockLastDoc(list, c) == list[c.shallowIdx].lastDoc

MaxFreq(list) == maxOf([b \in DOMAIN list |-> list[b].maxFreq])
=============================================================================
