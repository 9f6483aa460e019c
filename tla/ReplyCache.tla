------------------------------ MODULE ReplyCache ------------------------------
(***************************************************************************)
(* The replies a session keeps, so that a command repeated with its        *)
(* message id is answered without running again: server/internal/api/ws.go *)
(* (replyCache).                                                           *)
(*                                                                         *)
(* The time a reply was given is its age, which is counted up to           *)
(* ReplyCacheTTL: from then on it counts as expired.                       *)
(***************************************************************************)
EXTENDS Integers, Sequences

CONSTANTS
    Ids,             \* message ids
    ReplyCacheSize,
    ReplyCacheTTL

ASSUME ReplyCacheAssumption == {ReplyCacheSize, ReplyCacheTTL} \subseteq Nat \ {0}

NotCached == -1
Ages == 0 .. ReplyCacheTTL

\* byID is the map, order the queue of what was put into it, oldest first.
NoReplies == [byID |-> [id \in Ids |-> NotCached], order |-> <<>>]

Get(cache, id) == cache.byID[id] \in 0 .. ReplyCacheTTL - 1

\* prune's loop goes on while too many replies are kept or the oldest has expired ...
Excess(order, dropped) ==
    /\ dropped < Len(order)
    /\ Len(order) - dropped > ReplyCacheSize \/ order[dropped + 1].age >= ReplyCacheTTL

\* ... so it drops this many.
Dropped(order) ==
    CHOOSE n \in 0 .. Len(order) : ~Excess(order, n) /\ \A k \in 0 .. n - 1 : Excess(order, k)

Rest(order) == SubSeq(order, Dropped(order) + 1, Len(order))

BugPruneById(cache) ==
    [byID |-> [id \in Ids |->
        IF \E k \in 1 .. Dropped(cache.order) : cache.order[k].id = id THEN NotCached ELSE cache.byID[id]],
     order |-> Rest(cache.order)]

\* A reply that a later use of the id has overwritten stays.
Prune(cache) ==
    [byID |-> [id \in Ids |->
        IF \E k \in 1 .. Dropped(cache.order) :
              cache.order[k].id = id /\ cache.order[k].age = cache.byID[id]
        THEN NotCached ELSE cache.byID[id]],
     order |-> Rest(cache.order)]

Put(cache, id) ==
    Prune([byID |-> [cache.byID EXCEPT ![id] = 0], order |-> Append(cache.order, [id |-> id, age |-> 0])])

Older(age) == IF age \in 0 .. ReplyCacheTTL - 1 THEN age + 1 ELSE age

Aged(cache) ==
    [byID |-> [id \in Ids |-> Older(cache.byID[id])],
     order |-> [k \in DOMAIN cache.order |-> [cache.order[k] EXCEPT !.age = Older(@)]]]
=============================================================================
