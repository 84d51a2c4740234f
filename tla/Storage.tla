------------------------------- MODULE Storage -------------------------------
(***************************************************************************)
(* The storage package: the ordered in-memory engine, and over it, sharing *)
(* its keys, the web table and the link graph.                             *)
(*                                                                         *)
(* Keys are the byte sequences the code builds, compared byte by byte; a   *)
(* timestamp takes one byte instead of eight.  An operation of the engine  *)
(* holds its lock and is one step.  GCVersions is two: its scan is a copy, *)
(* and what it decided to delete is applied later.                         *)
(***************************************************************************)
EXTENDS Integers, Sequences, FiniteSets, FiniteSetsExt, SequencesExt, Iteration

CONSTANTS
    Rows, Quals, \* row keys and qualifiers, as byte sequences
    Families,    \* column families, as bytes
    Times,       \* the timestamps, of the width of a byte
    Values,      \* cell values and anchors
    Nodes,       \* the nodes of the link graph, as byte sequences
    KeepN,       \* how many versions retention keeps
    Collectors,  \* the goroutines that run GCVersions
    MaxWrites    \* bound: Put and AddLink calls

Byte == 0 .. 255
TagF == 70
TagB == 66

(* Row keys come from RowKey, which lowers the host: none begins with the  *)
(* tag of an edge.                                                         *)
ASSUME StorageAssumption ==
    /\ \A b \in Rows \cup Quals \cup Nodes : b \in Seq(Byte)
    /\ \A r \in Rows : r # <<>> /\ r[1] \notin {TagF, TagB}
    /\ Families \subseteq Byte /\ Times \subseteq 0 .. 127
    /\ KeepN \in Nat /\ MaxWrites \in Nat

VARIABLES
    entries, \* MemEngine.entries: a partial function from keys to values
    snap,    \* the copy a Snapshot holds, or NoSnap
    doomed,  \* what each collector's batch holds between scan and Apply
    writes   \* history: the writes so far

storageVars == <<entries, snap, doomed, writes>>

-----------------------------------------------------------------------------
(* Keys.                                                                   *)

Less(a, b) ==
    \/ IsStrictPrefix(a, b)
    \/ \E i \in DOMAIN a \cap DOMAIN b :
         a[i] < b[i] /\ \A j \in 1 .. i - 1 : a[j] = b[j]

(* A slip: no escape for a zero byte. *)
AppendUnescaped(dst, seg) == dst \o seg \o <<0, 0>>

escaped(c) == IF c = 0 THEN <<0, 255>> ELSE <<c>>

(* The loop of appendOrdered: one byte of seg is written in a round. *)
Writing == [dst : Seq(Byte), i : Nat]
writeByte(seg) == [w \in Writing |-> [dst |-> w.dst \o escaped(seg[w.i + 1]), i |-> w.i + 1]]

appendOrdered(dst, seg) ==
    Iterate(writeByte(seg), [dst |-> dst, i |-> 0], Len(seg)).dst \o <<0, 0>>

(* The loop of decodeOrdered: a zero that 255 follows is a zero, any other *)
(* zero ends the segment.                                                  *)
Reading == [out : Seq(Byte), i : Nat, over : BOOLEAN]
readByte(b) ==
    [r \in Reading |->
        IF r.over \/ r.i >= Len(b) THEN r
        ELSE IF b[r.i + 1] # 0
        THEN [out |-> Append(r.out, b[r.i + 1]), i |-> r.i + 1, over |-> FALSE]
        ELSE IF r.i + 1 < Len(b) /\ b[r.i + 2] = 255
        THEN [out |-> Append(r.out, 0), i |-> r.i + 2, over |-> FALSE]
        ELSE [r EXCEPT !.over = TRUE]]

decodeOrdered(b) == Iterate(readByte(b), [out |-> <<>>, i |-> 0, over |-> FALSE], Len(b)).out

(* PrefixEnd: the last byte that is not 255 goes up by one and the rest    *)
(* falls away; <<>> stands for nil, no upper end.                          *)
PrefixEnd(prefix) ==
    LET i == Max({j \in DOMAIN prefix : prefix[j] # 255} \cup {0})
    IN  IF i = 0 THEN <<>> ELSE Append(SubSeq(prefix, 1, i - 1), prefix[i] + 1)

rowFamilyPrefix(row, fam) == Append(appendOrdered(<<>>, row), fam)

cellKeyQualPrefix(row, fam, qual) == appendOrdered(rowFamilyPrefix(row, fam), qual)

(* The timestamp is inverted bit by bit. *)
cellKey(row, fam, qual, ts) == Append(cellKeyQualPrefix(row, fam, qual), 255 - ts)

decodeTS(key) == 255 - key[Len(key)]

decodeQualifier(key, row) ==
    decodeOrdered(SubSeq(key, Len(appendOrdered(<<>>, row)) + 2, Len(key)))

forwardKey(src, dst) == appendOrdered(appendOrdered(<<TagF>>, src), dst)

backKey(dst, src) == appendOrdered(appendOrdered(<<TagB>>, dst), src)

-----------------------------------------------------------------------------
(* The engine.  A batch is a sequence of writes [key, value, del].         *)

set(e, key, value) == [k \in DOMAIN e \cup {key} |-> IF k = key THEN value ELSE e[k]]

del(e, key) == [k \in DOMAIN e \ {key} |-> e[k]]

OpSet(key, value) == [key |-> key, value |-> value, del |-> FALSE]

OpDelete(key) == [key |-> key, value |-> "none", del |-> TRUE]

(* A slip: Apply stops after the first write of the batch. *)
ApplyFirst(e, ops) ==
    IF ops = <<>> THEN e
    ELSE IF ops[1].del THEN del(e, ops[1].key) ELSE set(e, ops[1].key, ops[1].value)

Apply(e, ops) ==
    LET after[i \in 0 .. Len(ops)] ==
            IF i = 0 THEN e
            ELSE IF ops[i].del THEN del(after[i - 1], ops[i].key)
            ELSE set(after[i - 1], ops[i].key, ops[i].value)
    IN  after[Len(ops)]

(* The keys of a set in order: each is at the place its rank gives it. *)
inOrder(keys) ==
    [i \in 1 .. Cardinality(keys) |->
        CHOOSE k \in keys : Cardinality({j \in keys : Less(j, k)}) = i - 1]

(* Scan: the keys of [start, end) in order, copied. *)
Scan(e, start, end) ==
    inOrder({k \in DOMAIN e : ~Less(k, start) /\ (end = <<>> \/ Less(k, end))})

ScanPrefix(e, prefix) == Scan(e, prefix, PrefixEnd(prefix))

-----------------------------------------------------------------------------
(* The readers of the web table and of the link graph, over the entries of *)
(* the engine or of a snapshot.                                            *)

NoCell == [qual |-> <<>>, ts |-> -1, value |-> "none"]

Latest(e, row, fam, qual) ==
    LET keys == ScanPrefix(e, cellKeyQualPrefix(row, fam, qual))
    IN  IF keys = <<>> THEN NoCell
        ELSE [qual |-> qual, ts |-> decodeTS(keys[1]), value |-> e[keys[1]]]

(* The elements of s at the places of I, in order. *)
picked(s, I) ==
    [n \in 1 .. Cardinality(I) |->
        s[CHOOSE i \in I : Cardinality({j \in I : j < i}) = n - 1]]

(* The keys of a family in order, with the count the loops of ScanFamily   *)
(* and GCVersions have at each: how long the qualifier has been the same.  *)
ranked(e, row, fam) ==
    LET keys == ScanPrefix(e, rowFamilyPrefix(row, fam))
        qual(i) == decodeQualifier(keys[i], row)
        seen(i) == Cardinality({j \in 1 .. i : \A m \in j .. i : qual(m) = qual(i)})
    IN  [i \in DOMAIN keys |-> [key |-> keys[i], qual |-> qual(i), seen |-> seen(i)]]

ScanFamily(e, row, fam) ==
    LET all == ranked(e, row, fam)
        newest == picked(all, {i \in DOMAIN all : all[i].seen = 1})
    IN  [i \in DOMAIN newest |->
            [qual |-> newest[i].qual, ts |-> decodeTS(newest[i].key), value |-> e[newest[i].key]]]

scanEdges(e, prefix) ==
    LET keys == ScanPrefix(e, prefix)
    IN  [i \in DOMAIN keys |->
            [node |-> decodeOrdered(SubSeq(keys[i], Len(prefix) + 1, Len(keys[i]))),
             anchor |-> e[keys[i]]]]

OutLinks(e, src) == scanEdges(e, appendOrdered(<<TagF>>, src))

InLinks(e, dst) == scanEdges(e, appendOrdered(<<TagB>>, dst))

OutDegree(e, src) == Len(ScanPrefix(e, appendOrdered(<<TagF>>, src)))

-----------------------------------------------------------------------------
(* The writers.                                                            *)

NoSnap == "none"
Idle == <<>>

StorageInit ==
    /\ entries = <<>>
    /\ snap = NoSnap
    /\ doomed = [g \in Collectors |-> Idle]
    /\ writes = 0

Put(row, fam, qual, ts, value) ==
    /\ writes < MaxWrites
    /\ entries' = set(entries, cellKey(row, fam, qual, ts), value)
    /\ writes' = writes + 1
    /\ UNCHANGED <<snap, doomed>>

AddLink(src, dst, anchor) ==
    /\ writes < MaxWrites
    /\ entries' = Apply(entries, <<OpSet(forwardKey(src, dst), anchor),
                                   OpSet(backKey(dst, src), anchor)>>)
    /\ writes' = writes + 1
    /\ UNCHANGED <<snap, doomed>>

(* A slip: the newest version counts as none. *)
StaleFromZero(row, fam) ==
    LET all == ranked(entries, row, fam)
    IN  picked(all, {i \in DOMAIN all : all[i].seen >= KeepN})

(* GCVersions, the loop: the first version of a qualifier always stays. *)
stale(row, fam) ==
    LET all == ranked(entries, row, fam)
    IN  picked(all, {i \in DOMAIN all : all[i].seen > 1 /\ all[i].seen > KeepN})

(* GCVersions, up to the end of the loop; an empty batch ends it. *)
GCScan(g, row, fam) ==
    LET old == stale(row, fam)
    IN  /\ doomed[g] = Idle
        /\ old # <<>>
        /\ doomed' = [doomed EXCEPT ![g] = [i \in DOMAIN old |-> OpDelete(old[i].key)]]
        /\ UNCHANGED <<entries, snap, writes>>

GCApply(g) ==
    /\ doomed[g] # Idle
    /\ entries' = Apply(entries, doomed[g])
    /\ doomed' = [doomed EXCEPT ![g] = Idle]
    /\ UNCHANGED <<snap, writes>>

Snapshot ==
    /\ snap = NoSnap
    /\ entries # <<>>
    /\ snap' = <<entries>>
    /\ UNCHANGED <<entries, doomed, writes>>

CloseSnapshot ==
    /\ snap # NoSnap
    /\ snap' = NoSnap
    /\ UNCHANGED <<entries, doomed, writes>>

StorageNext ==
    \/ \E row \in Rows, fam \in Families :
         \/ \E qual \in Quals, ts \in Times, v \in Values : Put(row, fam, qual, ts, v)
         \/ \E g \in Collectors : GCScan(g, row, fam)
    \/ \E src \in Nodes, dst \in Nodes, v \in Values : AddLink(src, dst, v)
    \/ \E g \in Collectors : GCApply(g)
    \/ Snapshot
    \/ CloseSnapshot

StorageSpec == StorageInit /\ [][StorageNext]_storageVars

-----------------------------------------------------------------------------
Cells == Rows \X Families \X Quals

(* Where the versions of every cell, and the edges, are found. *)
keyOfVersion == [c \in Cells |-> [t \in Times |-> cellKey(c[1], c[2], c[3], t)]]
keyOfEdge == [p \in Nodes \X Nodes |-> forwardKey(p[1], p[2])]

versionsIn(e, c) ==
    [t \in {u \in Times : keyOfVersion[c][u] \in DOMAIN e} |-> e[keyOfVersion[c][t]]]

linksIn(e) == [p \in {q \in Nodes \X Nodes : keyOfEdge[q] \in DOMAIN e} |-> e[keyOfEdge[p]]]

T == INSTANCE VersionedTable WITH
        versions <- [c \in Cells |-> versionsIn(entries, c)], links <- linksIn(entries)

(* KeepsPromise: read back by its keys, the engine behaves as the table    *)
(* promises: a Put touches one version of one cell although all share one  *)
(* key space, and however many writers and collectors run between the scan *)
(* of a GCVersions and its batch, a version that goes leaves KeepN newer   *)
(* ones, and the newest never goes (webtable.go:115 and 163).              *)
KeepsPromise == T!TSpec

(* ReadsAreNewest: what Latest and ScanFamily find by prefix scans is, for *)
(* every cell, its newest version: keys of other rows, qualifiers and      *)
(* edges never fall into the range, and the newest sorts first             *)
(* (webtable.go:129 and 143, PrefixEnd).                                   *)
ReadsAreNewest ==
    \A row \in Rows, fam \in Families :
        LET cell(q) == LET v == versionsIn(entries, <<row, fam, q>>)
                       IN  IF v = <<>> THEN NoCell
                           ELSE [qual |-> q, ts |-> Max(DOMAIN v), value |-> v[Max(DOMAIN v)]]
            current == {cell(q) : q \in Quals} \ {NoCell}
        IN  /\ \A q \in Quals : Latest(entries, row, fam, q) = cell(q)
            /\ ToSet(ScanFamily(entries, row, fam)) = current
            /\ Len(ScanFamily(entries, row, fam)) = Cardinality(current)

(* LinksSymmetric: live and in every snapshot, dst is an out-link of src   *)
(* exactly when src is an in-link of dst, under the same anchor, and the   *)
(* degree counts them: no reader sees half a link (linkgraph.go:51).       *)
LinksSymmetric ==
    \A e \in {entries} \cup (IF snap = NoSnap THEN {} ELSE {snap[1]}) :
        /\ \A a \in Nodes, b \in Nodes, v \in Values :
             [node |-> b, anchor |-> v] \in ToSet(OutLinks(e, a))
               <=> [node |-> a, anchor |-> v] \in ToSet(InLinks(e, b))
        /\ \A a \in Nodes :
             OutDegree(e, a) = Cardinality({b \in Nodes : <<a, b>> \in DOMAIN linksIn(e)})
=============================================================================
