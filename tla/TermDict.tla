------------------------------- MODULE TermDict -------------------------------
(***************************************************************************)
(* The term dictionary of index/terms: entries in ascending term order.    *)
(* Terms are sequences of letters.  An entry is                            *)
(* [docFreq, singleton, doc, freq, offset]: a term of one document keeps   *)
(* it inline, any other points into the segment's lists.                   *)
(***************************************************************************)
EXTENDS Integers, Sequences, FiniteSets, FiniteSetsExt, SequencesExt

(* Go's order of strings. *)
TermLess(s, t) ==
    \/ IsStrictPrefix(s, t)
    \/ \E i \in 1 .. Min({Len(s), Len(t)}) :
         SubSeq(s, 1, i - 1) = SubSeq(t, 1, i - 1) /\ s[i] < t[i]

(* The dictionary of a function from terms to entries: NewSortedDict meets *)
(* every term once, since a builder keeps its terms in a map.              *)
NewSortedDict(entries) ==
    [i \in 1 .. Cardinality(DOMAIN entries) |->
        LET t == CHOOSE t \in DOMAIN entries :
                    Cardinality({u \in DOMAIN entries : TermLess(u, t)}) = i - 1
        IN  [term |-> t, entry |-> entries[t]]]

(* The index of the term, or where it would be. *)
search(dict, term) ==
    Min({i \in DOMAIN dict : ~TermLess(dict[i].term, term)} \cup {Len(dict) + 1})

Known(dict, term) ==
    LET i == search(dict, term) IN i <= Len(dict) /\ dict[i].term = term

Lookup(dict, term) == dict[search(dict, term)].entry

(* The run of terms from the insertion point on that carry the prefix. *)
PrefixScan(dict, prefix) ==
    LET from == search(dict, prefix)
        stop == Min({i \in from .. Len(dict) : ~IsPrefix(prefix, dict[i].term)}
                    \cup {Len(dict) + 1})
    IN  SubSeq(dict, from, stop - 1)
=============================================================================
