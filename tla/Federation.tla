------------------------------ MODULE Federation ------------------------------
(***************************************************************************)
(* A federated query (open/federation): the gate over the key registry and *)
(* the operators' reputation, one goroutine per trusted partition, and the *)
(* collecting loop with its timer.  A partition is named by its operator.  *)
(* Registry keys and reputation change between queries: neither map is     *)
(* locked.  A leaf that ignores its context may answer at any time.        *)
(***************************************************************************)
EXTENDS Integers, FiniteSets, FiniteSetsExt

CONSTANTS
    Operators,
    Heedful,        \* operators whose leaf stops when its context ends
    Hits,           \* [Operators -> the hits of its leaf]: records [op, doc, score]
    MinReputation,
    Reputations,    \* reputation scores
    FedK            \* K

(* A hit carries, besides what the code has, the operator it came from.    *)
ASSUME FederationAssumption ==
    /\ IsFiniteSet(Operators) /\ FedK \in Int
    /\ \A o \in Operators :
         IsFiniteSet(Hits[o]) /\ \A h \in Hits[o] : h.op = o /\ h.score \in Int

VARIABLES
    registry,   \* operators with a key
    reputation, \* [Operators -> score], 0 until set
    query,      \* "idle", "collecting" or "returned"
    trusted,    \* the partitions of the query
    leaf,       \* [Operators -> "idle", "searching", "sent" or "done"]
    channel,    \* the buffered partials: <<operator, results>>, {} on error
    collected,  \* partials received
    merged,     \* their hits
    subDeadline, timer, ctxDone, \* the sub-deadlines, the timer, the caller's context
    page        \* what Search returned

fedVars == <<registry, reputation, query, trusted, leaf, channel, collected, merged,
             subDeadline, timer, ctxDone, page>>
fanVars == <<trusted, leaf, channel, collected, merged, subDeadline, timer, ctxDone, page>>

FederationInit ==
    /\ registry = {} /\ reputation = [o \in Operators |-> 0]
    /\ query = "idle" /\ trusted = {} /\ leaf = [o \in Operators |-> "idle"]
    /\ channel = {} /\ collected = 0 /\ merged = {}
    /\ subDeadline = FALSE /\ timer = FALSE /\ ctxDone = FALSE /\ page = {}

RegistryAdd(o) ==
    /\ query = "idle" /\ o \notin registry
    /\ registry' = registry \cup {o}
    /\ UNCHANGED <<reputation, query, fanVars>>

SetReputation(o, score) ==
    /\ query = "idle" /\ reputation[o] # score
    /\ reputation' = [reputation EXCEPT ![o] = score]
    /\ UNCHANGED <<registry, query, fanVars>>

(* A slip: an operator without a key passes on its reputation. *)
TrustedByReputation(o) == reputation[o] >= MinReputation

Trusted(o) == o \in registry /\ reputation[o] >= MinReputation

(* The hits ranked among the first k; hits of one score come in any order. *)
topKs(S, k) ==
    LET ahead(h, g) == h.score > g.score
    IN  {T \in SUBSET S :
            /\ Cardinality(T) = IF k > 0 THEN Min({k, Cardinality(S)}) ELSE Cardinality(S)
            /\ \A h \in S \ T, g \in T : ~ahead(h, g)}

Search ==
    /\ query = "idle"
    /\ trusted' = {o \in Operators : Trusted(o)}
    /\ query' = IF trusted' = {} THEN "returned" ELSE "collecting"
    /\ leaf' = [o \in Operators |-> IF o \in trusted' THEN "searching" ELSE "idle"]
    /\ UNCHANGED <<registry, reputation, channel, collected, merged, subDeadline, timer, ctxDone,
                   page>>

(* The goroutine of a partition sends what its leaf returned, whoever is   *)
(* still listening; the channel has room for all.                          *)
LeafAnswers(o) ==
    /\ leaf[o] = "searching"
    /\ o \in Heedful => ~subDeadline /\ ~ctxDone
    /\ leaf' = [leaf EXCEPT ![o] = "sent"]
    /\ channel' = channel \cup {<<o, Hits[o]>>}
    /\ UNCHANGED <<registry, reputation, query, trusted, collected, merged, subDeadline, timer,
                   ctxDone, page>>

LeafFails(o) ==
    /\ leaf[o] = "searching"
    /\ leaf' = [leaf EXCEPT ![o] = "sent"]
    /\ channel' = channel \cup {<<o, {}>>}
    /\ UNCHANGED <<registry, reputation, query, trusted, collected, merged, subDeadline, timer,
                   ctxDone, page>>

SubDeadlineEnds ==
    /\ query = "collecting" /\ ~subDeadline
    /\ subDeadline' = TRUE
    /\ UNCHANGED <<registry, reputation, query, trusted, leaf, channel, collected, merged, timer,
                   ctxDone, page>>

(* The timer is set 50 ms past the sub-deadlines. *)
TimerFires ==
    /\ query = "collecting" /\ subDeadline /\ ~timer
    /\ timer' = TRUE
    /\ UNCHANGED <<registry, reputation, query, trusted, leaf, channel, collected, merged,
                   subDeadline, ctxDone, page>>

CallerCancels ==
    /\ query = "collecting" /\ ~ctxDone
    /\ ctxDone' = TRUE
    /\ UNCHANGED <<registry, reputation, query, trusted, leaf, channel, collected, merged,
                   subDeadline, timer, page>>

(* The select takes any case that is ready. *)
Receive(p) ==
    /\ query = "collecting"
    /\ p \in channel
    /\ channel' = channel \ {p}
    /\ leaf' = [leaf EXCEPT ![p[1]] = "done"]
    /\ merged' = merged \cup p[2]
    /\ collected' = collected + 1
    /\ IF collected' = Cardinality(trusted)
       THEN query' = "returned" /\ page' \in topKs(merged', FedK)
       ELSE UNCHANGED <<query, page>>
    /\ UNCHANGED <<registry, reputation, trusted, subDeadline, timer, ctxDone>>

GiveUp ==
    /\ query = "collecting" /\ (timer \/ ctxDone)
    /\ query' = "returned"
    /\ page' \in topKs(merged, FedK)
    /\ UNCHANGED <<registry, reputation, trusted, leaf, channel, collected, merged, subDeadline,
                   timer, ctxDone>>

FederationNext ==
    \/ \E o \in Operators : RegistryAdd(o) \/ LeafAnswers(o) \/ LeafFails(o)
    \/ \E o \in Operators, s \in Reputations : SetReputation(o, s)
    \/ \E p \in channel : Receive(p)
    \/ Search \/ SubDeadlineEnds \/ TimerFires \/ CallerCancels \/ GiveUp

FederationSpec == FederationInit /\ [][FederationNext]_fedVars

(* FederatedPage: a returned page is the best of exactly the trusted       *)
(* operators' answers that were collected: nothing of an operator that has *)
(* no key or lost its reputation, nothing that arrived after the return,   *)
(* and no answer left out unless the timer or the caller cut the wait      *)
(* short (federation.go:114-155).                                          *)
FederatedPage ==
    query = "returned" =>
        /\ \A h \in page : h.op \in registry /\ reputation[h.op] >= MinReputation
                           /\ leaf[h.op] = "done"
        /\ \A o \in Operators : leaf[o] = "done" =>
             \A h \in Hits[o] \ page :
                 h \in merged => Cardinality({g \in page : g.score >= h.score}) >= FedK
        /\ timer \/ ctxDone \/ \A o \in Operators : leaf[o] \in {"idle", "done"}
=============================================================================
