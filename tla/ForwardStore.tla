----------------------------- MODULE ForwardStore -----------------------------
(***************************************************************************)
(* The forward store of index/forward: documents written in id order into  *)
(* chunks, an index entry per chunk, and a read that decodes one chunk.    *)
(* Strings are sequences of bytes.  Documents are                          *)
(* [url, title, body, norms].  The codec is the identity the repository    *)
(* ships.                                                                  *)
(***************************************************************************)
EXTENDS Codec

CONSTANTS
    ChunkDocs,  \* documents in a chunk (16)
    NumFields   \* norms of a document (4)

NoDocument == [url |-> <<>>, title |-> <<>>, body |-> <<>>, norms |-> <<>>]

appendStr(s) == appendUvarint(Len(s)) \o s

appendDoc(d) ==
    appendStr(d.url) \o appendStr(d.title) \o appendStr(d.body)
    \o FlattenSeq([f \in 1 .. NumFields |-> appendUvarint(d.norms[f])])

(* The string or the norm after position pos, and the position after it. *)
readStr(src, pos) ==
    LET take(from, n) == <<SubSeq(src, from + 1, from + n), from + n>>
        sized(v) == take(pos + v[2], v[1])
    IN  sized(readUvarint(src, pos))

readNorm(src, pos) == LET v == readUvarint(src, pos) IN <<v[1], pos + v[2]>>

(* A document is three strings and its norms, each behind the other. *)
readDoc(src, pos) ==
    LET field[i \in 0 .. 3 + NumFields] ==
            IF i = 0 THEN <<0, pos>>
            ELSE LET from == field[i - 1][2]
                 IN  IF i <= 3 THEN readStr(src, from) ELSE readNorm(src, from)
        document(f) ==
            <<[url |-> f[1][1], title |-> f[2][1], body |-> f[3][1],
               norms |-> [n \in 1 .. NumFields |-> f[3 + n][1]]],
              f[3 + NumFields][2]>>
    IN  document(field)

(* Document n, counted from 0; none when the chunk ends before it. *)
decodeNthDoc(buf, n) ==
    LET after[i \in 0 .. n + 1] == \* <<document i, the position after it>>
            IF i = 0 THEN <<NoDocument, 0>>
            ELSE LET next(pos) == IF pos >= Len(buf) THEN <<NoDocument, pos>> ELSE readDoc(buf, pos)
                 IN  next(after[i - 1][2])
    IN  after[n + 1][1]

-----------------------------------------------------------------------------
NewWriter == [data |-> <<>>, chunks |-> <<>>, buf |-> <<>>, bufFirst |-> 0, bufCount |-> 0,
              nextDoc |-> 0, started |-> FALSE]

flush(w) ==
    IF w.bufCount = 0 THEN w
    ELSE [w EXCEPT !.chunks = Append(@, [firstDoc |-> w.bufFirst, offset |-> Len(w.data),
                                         count |-> w.bufCount]),
                   !.data = @ \o w.buf, !.buf = <<>>, !.bufCount = 0]

(* Add refuses an id that does not follow the one before it, and leaves the *)
(* writer as it was.                                                        *)
Add(w, id, doc) ==
    LET v == [w EXCEPT !.started = TRUE, !.nextDoc = id + 1, !.buf = @ \o appendDoc(doc),
                       !.bufFirst = IF w.bufCount = 0 THEN id ELSE @, !.bufCount = @ + 1]
        full(u) == IF u.bufCount >= ChunkDocs THEN flush(u) ELSE u
    IN  IF w.started /\ id # w.nextDoc THEN w ELSE full(v)

Seal(w) == LET f == flush(w) IN [data |-> f.data, chunks |-> f.chunks]

(* The store of a segment: its documents under the ids 0, 1, ... *)
storeOf(docs) ==
    LET w[n \in 0 .. Len(docs)] == IF n = 0 THEN NewWriter ELSE Add(w[n - 1], n - 1, docs[n])
    IN  Seal(w[Len(docs)])

Get(store, id) ==
    LET i == Max({j \in DOMAIN store.chunks : store.chunks[j].firstDoc <= id} \cup {0})
        ref == store.chunks[i]
        end == IF i < Len(store.chunks) THEN store.chunks[i + 1].offset ELSE Len(store.data)
    IN  IF i = 0 THEN NoDocument
        ELSE IF id >= ref.firstDoc + ref.count THEN NoDocument
        ELSE decodeNthDoc(SubSeq(store.data, ref.offset + 1, end), id - ref.firstDoc)
=============================================================================
