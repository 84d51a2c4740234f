------------------------------- MODULE Loader -------------------------------
(***************************************************************************)
(* Loader.Get of serve/cache.go: a cache in front of a backend call, with  *)
(* single-flight protection.  A caller looks into the cache, then joins or *)
(* starts the flight of its key, then waits for the flight's result or for *)
(* the end of its own context, whichever its select picks.                 *)
(*                                                                         *)
(* The flight (golang.org/x/sync/singleflight, external) runs in its own   *)
(* goroutine: it calls load with the context of the caller that started    *)
(* it, stores the page, and then, in one locked section, leaves the group  *)
(* and hands its result to everyone who joined.  The page of a key is a    *)
(* constant: entries have no age, so nothing tells two loads apart.        *)
(***************************************************************************)
EXTENDS LRUCache

CONSTANTS Callers, PageOf, NoFlight

ASSUME LoaderAssumption ==
  /\ PageOf \in [CacheKeys -> Pages]
  /\ \A j, k \in CacheKeys : PageOf[j] = PageOf[k] => j = k
  /\ {"failed", "cancelled", "ctx"} \cap Pages = {}
  /\ Nothing \notin {"failed", "cancelled", "ctx"}
  /\ NoFlight \notin Callers

Failures == {"failed", "cancelled"}

VARIABLES
  pc,      \* caller -> "idle", "missed", "waiting" or "returned"
  key,     \* caller -> the key it asks for
  inbox,   \* caller -> the result sent to its channel, or Nothing
  answer,  \* caller -> what its last Get returned, or Nothing
  ended,   \* the callers whose context has ended
  owner,   \* key -> the caller that started the flight in the group, or NoFlight
  result,  \* key -> what that flight's load returned, or Nothing
  stored,  \* key -> that flight has run its function to the end
  joined   \* key -> the callers that get its result

flightVars == <<owner, result, stored, joined>>
vars == <<cacheVars, pc, key, inbox, answer, ended, flightVars>>

Init ==
  /\ NewLRUCache
  /\ pc = [c \in Callers |-> "idle"]
  /\ key \in [Callers -> CacheKeys]
  /\ inbox = [c \in Callers |-> Nothing]
  /\ answer = [c \in Callers |-> Nothing]
  /\ ended = {}
  /\ owner = [k \in CacheKeys |-> NoFlight]
  /\ result = [k \in CacheKeys |-> Nothing]
  /\ stored = [k \in CacheKeys |-> FALSE]
  /\ joined = [k \in CacheKeys |-> {}]

Return(c, what) ==
  /\ pc' = [pc EXCEPT ![c] = "returned"]
  /\ answer' = [answer EXCEPT ![c] = what]

\* The lookup that opens Get.
Lookup(c) ==
  /\ pc[c] = "idle"
  /\ \/ Hit(key[c]) /\ Return(c, items[key[c]])
     \/ Miss(key[c]) /\ pc' = [pc EXCEPT ![c] = "missed"] /\ UNCHANGED answer
  /\ UNCHANGED <<key, inbox, ended, flightVars>>

\* A slip: every key shares one flight.
DoChanAnyKey(c) ==
  /\ pc[c] = "missed"
  /\ pc' = [pc EXCEPT ![c] = "waiting"]
  /\ LET k == IF \E j \in CacheKeys : owner[j] # NoFlight
              THEN CHOOSE j \in CacheKeys : owner[j] # NoFlight ELSE key[c]
     IN /\ joined' = [joined EXCEPT ![k] = @ \cup {c}]
        /\ owner' = [owner EXCEPT ![k] = IF @ = NoFlight THEN c ELSE @]
  /\ UNCHANGED <<cacheVars, key, inbox, answer, ended, result, stored>>

\* DoChan: join the key's flight, or start one with this caller's context.
DoChan(c) ==
  /\ pc[c] = "missed"
  /\ pc' = [pc EXCEPT ![c] = "waiting"]
  /\ joined' = [joined EXCEPT ![key[c]] = @ \cup {c}]
  /\ owner' = [owner EXCEPT ![key[c]] = IF @ = NoFlight THEN c ELSE @]
  /\ UNCHANGED <<cacheVars, key, inbox, answer, ended, result, stored>>

\* load returns: a page, an error of the backend's own, or the cancellation of
\* the context it was given.
LoadReturns(k) ==
  /\ owner[k] # NoFlight /\ result[k] = Nothing
  /\ \E r \in {PageOf[k]} \cup Failures :
       /\ r = "cancelled" => owner[k] \in ended
       /\ result' = [result EXCEPT ![k] = r]
  /\ UNCHANGED <<cacheVars, pc, key, inbox, answer, ended, owner, stored, joined>>

\* The rest of the flight's function: a page goes into the cache, an error not.
Store(k) ==
  /\ result[k] # Nothing /\ ~stored[k]
  /\ IF result[k] \in Failures THEN UNCHANGED cacheVars ELSE Set(k, result[k])
  /\ stored' = [stored EXCEPT ![k] = TRUE]
  /\ UNCHANGED <<pc, key, inbox, answer, ended, owner, result, joined>>

\* A slip: only the caller that started the flight is told.
DeliverToOwner(k) ==
  /\ stored[k]
  /\ inbox' = [inbox EXCEPT ![owner[k]] = result[k]]
  /\ owner' = [owner EXCEPT ![k] = NoFlight]
  /\ result' = [result EXCEPT ![k] = Nothing]
  /\ stored' = [stored EXCEPT ![k] = FALSE]
  /\ joined' = [joined EXCEPT ![k] = {}]
  /\ UNCHANGED <<cacheVars, pc, key, answer, ended>>

\* The flight leaves the group; each channel has room for its one result.
Deliver(k) ==
  /\ stored[k]
  /\ inbox' = [c \in Callers |-> IF c \in joined[k] THEN result[k] ELSE inbox[c]]
  /\ owner' = [owner EXCEPT ![k] = NoFlight]
  /\ result' = [result EXCEPT ![k] = Nothing]
  /\ stored' = [stored EXCEPT ![k] = FALSE]
  /\ joined' = [joined EXCEPT ![k] = {}]
  /\ UNCHANGED <<cacheVars, pc, key, answer, ended>>

\* A slip: the caller waits for the result alone.
NoGiveUp(c) == FALSE

\* The select picks the ended context.
GiveUp(c) ==
  /\ pc[c] = "waiting" /\ c \in ended
  /\ Return(c, "ctx")
  /\ UNCHANGED <<cacheVars, key, inbox, ended, flightVars>>

\* The select picks the result.
Receive(c) ==
  /\ pc[c] = "waiting" /\ inbox[c] # Nothing
  /\ Return(c, inbox[c])
  /\ UNCHANGED <<cacheVars, key, inbox, ended, flightVars>>

EndContext(c) ==
  /\ pc[c] \in {"missed", "waiting"} /\ c \notin ended
  /\ ended' = ended \cup {c}
  /\ UNCHANGED <<cacheVars, pc, key, inbox, answer, flightVars>>

\* The caller comes back with another query and a new context.  One whose
\* flight still runs, or still has a result to send to it, does not: its name
\* stands for the context and the channel of the Get before.
Again(c) ==
  /\ pc[c] = "returned"
  /\ \A k \in CacheKeys : owner[k] # c /\ c \notin joined[k]
  /\ pc' = [pc EXCEPT ![c] = "idle"]
  /\ \E k \in CacheKeys : key' = [key EXCEPT ![c] = k]
  /\ inbox' = [inbox EXCEPT ![c] = Nothing]
  /\ answer' = [answer EXCEPT ![c] = Nothing]
  /\ ended' = ended \ {c}
  /\ UNCHANGED <<cacheVars, flightVars>>

Get(c) == Lookup(c) \/ DoChan(c) \/ GiveUp(c) \/ Receive(c)

Next ==
  \/ \E c \in Callers : Get(c) \/ EndContext(c) \/ Again(c)
  \/ \E k \in CacheKeys : LoadReturns(k) \/ Store(k) \/ Deliver(k)

\* The goroutines of the callers and of the flights run on.  Whether load ever
\* returns is up to the backend: nothing is assumed of LoadReturns.
Spec ==
  /\ Init /\ [][Next]_vars
  /\ \A c \in Callers : WF_vars(Get(c))
  /\ \A k \in CacheKeys : WF_vars(Store(k) \/ Deliver(k))

-----------------------------------------------------------------------------
LoaderTypeOK ==
  /\ ll \in Seq(CacheKeys)
  /\ items \in [CacheKeys -> Pages \cup {Nothing}]
  /\ pc \in [Callers -> {"idle", "missed", "waiting", "returned"}]
  /\ key \in [Callers -> CacheKeys]
  /\ inbox \in [Callers -> Pages \cup Failures \cup {Nothing}]
  /\ answer \in [Callers -> Pages \cup Failures \cup {"ctx", Nothing}]
  /\ ended \in SUBSET Callers
  /\ owner \in [CacheKeys -> Callers \cup {NoFlight}]
  /\ result \in [CacheKeys -> Pages \cup Failures \cup {Nothing}]
  /\ stored \in [CacheKeys -> BOOLEAN]
  /\ joined \in [CacheKeys -> SUBSET Callers]

\* A Get that returns a page returns the page of its own key, from whichever
\* cache entry or shared flight it came (cache.go, Loader.Get).
RightPage == \A c \in Callers : answer[c] \in Pages => answer[c] = PageOf[key[c]]

\* A caller that waits is in the flight of its key or has been sent a result:
\* nobody is left behind when a flight leaves the group (cache.go, the DoChan
\* of a late caller against the end of the flight).
NobodyForgotten ==
  \A c \in Callers : pc[c] = "waiting" /\ inbox[c] = Nothing =>
    c \in joined[key[c]] /\ owner[key[c]] # NoFlight

\* A caller whose context ends gets out, even if load never returns (cache.go:
\* "even while the shared load is still running for the others").
EndedContextReturns ==
  \A c \in Callers : pc[c] = "waiting" /\ c \in ended ~> pc[c] = "returned"

\* A caller whose own context lives is not cancelled.
OnlyOwnCancellation ==
  \A c \in Callers : answer[c] = "cancelled" => c \in ended
=============================================================================
