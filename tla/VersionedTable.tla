--------------------------- MODULE VersionedTable ---------------------------
(***************************************************************************)
(* What the web table and the link graph promise, with no keys, bytes or   *)
(* scans: a cell holds versions by timestamp, a version is written at once *)
(* and only ever leaves when enough newer ones stay, and links only grow.  *)
(***************************************************************************)
EXTENDS Integers, FiniteSets

CONSTANTS Cells, Times, Values, Nodes, KeepN

VARIABLES
    versions, \* versions[c]: a partial function from Times to Values
    links     \* a partial function from pairs of Nodes to Values, the anchors

(* One version of one cell is written, or overwritten. *)
Write(c, t, v) ==
    LET before == versions[c]
        after == versions'[c]
    IN  /\ t \in DOMAIN after /\ after[t] = v
        /\ DOMAIN after = DOMAIN before \cup {t}
        /\ \A u \in DOMAIN before \ {t} : after[u] = before[u]
        /\ \A d \in Cells \ {c} : versions'[d] = versions[d]
        /\ UNCHANGED links

(* Old versions go, of any cells; each leaves at least KeepN newer ones,   *)
(* and one when KeepN is zero.                                             *)
Collect ==
    /\ UNCHANGED links
    /\ \A c \in Cells :
         LET before == versions[c]
             after == versions'[c]
         IN  /\ DOMAIN after \subseteq DOMAIN before
             /\ \A t \in DOMAIN after : after[t] = before[t]
             /\ \A t \in DOMAIN before \ DOMAIN after :
                  Cardinality({u \in DOMAIN after : u > t}) >= (IF KeepN = 0 THEN 1 ELSE KeepN)

Link(a, b, v) ==
    /\ links' = [p \in DOMAIN links \cup {<<a, b>>} |-> IF p = <<a, b>> THEN v ELSE links[p]]
    /\ UNCHANGED versions

TInit == versions = [c \in Cells |-> <<>>] /\ links = <<>>

TNext ==
    \/ Collect
    \/ \E c \in Cells, t \in Times, v \in Values : Write(c, t, v)
    \/ \E a \in Nodes, b \in Nodes, v \in Values : Link(a, b, v)

TSpec == TInit /\ [][TNext]_<<versions, links>>
=============================================================================
