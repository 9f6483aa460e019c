------------------------------- MODULE Upkeep -------------------------------
(***************************************************************************)
(* What the server keeps for a session beside the match it plays, and      *)
(* forgets again: the replies to its commands and the rate at which it may *)
(* send them (ws.go, limits.go), what its player bought or was rewarded    *)
(* with (monetization.go), the session itself and the private room it sits *)
(* in (reaper.go), all under server/internal/api.                          *)
(*                                                                         *)
(* One device, whose session is gone when it was reaped; it then gets a    *)
(* new one.  What commands do to rooms and matches is left to Connections, *)
(* Room and Game.  Clock times are ages, which stop counting where the     *)
(* code's comparisons do.                                                  *)
(***************************************************************************)
EXTENDS ReplyCache, RateLimit, Entitlements

CONSTANTS
    SessionTTL,
    UnusedSessionTTL,
    EmptyRoomTTL,
    RewardedCooldown,
    Requests,         \* bound: entitlement syncs a device has under way at once
    Habits            \* bound: what sessions do, each one thing, of {"commands", "room", "purchases", "rewards"}

ASSUME TTLAssumption ==
    /\ {SessionTTL, UnusedSessionTTL, EmptyRoomTTL, RewardedCooldown} \subseteq Nat \ {0}
    /\ UnusedSessionTTL <= SessionTTL

VARIABLES
    habit,    \* what the device does
    session,  \* the session: the clock and flags the reaper reads
    commands, \* the replies kept, the bucket, and, as history, what ran and the bucket had it never been swept
    room,     \* the private room the player may sit in
    store,    \* what the store says the device holds, and the products settled since the last sync
    syncs,    \* of each entitlement sync under way: the proofs to check, what they granted, what changed meanwhile
    buyer     \* what the session holds, its reward, its search, and, as history, the rewards not yet played on

vars == <<habit, session, commands, room, store, syncs, buyer>>

Capped(age, limit) == IF age < limit THEN age + 1 ELSE age

Idle(replies) == [replies |-> replies, bucket |-> NoBucket, unswept |-> NoBucket,
                  ran |-> [id \in Ids |-> [age |-> ReplyCacheTTL, after |-> 0]]]
NoSync == [open |-> FALSE, mine |-> FALSE, proofs |-> {}, granted |-> Nothing, changed |-> {}]
NewBuyer == [held |-> Nothing, reward |-> None, cooldown |-> 0, stage |-> "home", search |-> {},
             onReward |-> FALSE, credit |-> 0]
NoSession == [alive |-> FALSE, conn |-> FALSE, connected |-> FALSE, seen |-> 0]
NoRoom == [open |-> FALSE, member |-> FALSE, others |-> FALSE, emptySince |-> NotCached]

Init ==
    /\ habit \in Habits
    /\ session = NoSession /\ commands = Idle(NoReplies) /\ room = NoRoom
    /\ store = [holds |-> Nothing, settled |-> {}] /\ syncs = [r \in Requests |-> NoSync] /\ buyer = NewBuyer

-----------------------------------------------------------------------------
(* Sessions and their connection *)

\* POST /v1/sessions; what the last session left behind belongs to nobody.
Create ==
    /\ ~session.alive
    /\ session' = [NoSession EXCEPT !.alive = TRUE]
    /\ commands' = Idle(NoReplies)
    /\ buyer' = NewBuyer
    /\ store' = [store EXCEPT !.settled = {}]
    /\ UNCHANGED <<habit, room, syncs>>

Seen == session' = [session EXCEPT !.seen = 0]

Attach ==
    /\ session.alive
    /\ session' = [session EXCEPT !.conn = TRUE, !.connected = TRUE, !.seen = 0]
    /\ UNCHANGED <<habit, commands, room, store, syncs, buyer>>

\* The end of a connection is no activity: lastSeen stays.
Detach ==
    /\ session.conn
    /\ session' = [session EXCEPT !.conn = FALSE]
    /\ UNCHANGED <<habit, commands, room, store, syncs, buyer>>

-----------------------------------------------------------------------------
(* Commands *)

Ran(ran, id) ==
    [i \in Ids |-> IF i = id THEN [age |-> 0, after |-> 0]
                   ELSE [ran[i] EXCEPT !.after = Capped(@, ReplyCacheSize)]]

Charge(c) == [c EXCEPT !.bucket = Charged(@), !.unswept = Charged(@)]

BugAnswerRefused(c, id) ==
    IF Get(c.replies, id) THEN c
    ELSE IF ~Allows(c.bucket) THEN [Charge(c) EXCEPT !.replies = Put(@, id)]
    ELSE [Charge(c) EXCEPT !.replies = Put(@, id), !.ran = Ran(@, id)]

\* A command repeated is answered as before; one refused may run later under the same id.
Answer(c, id) ==
    IF Get(c.replies, id) THEN c
    ELSE IF ~Allows(c.bucket) THEN Charge(c)
    ELSE [Charge(c) EXCEPT !.replies = Put(@, id), !.ran = Ran(@, id)]

HandleFrame(id) ==
    /\ habit = "commands" /\ session.conn
    /\ Seen
    /\ commands' = Answer(commands, id)
    /\ UNCHANGED <<habit, room, store, syncs, buyer>>

-----------------------------------------------------------------------------
(* The private room *)

Empty(r) == ~r.member /\ ~r.others

\* A new room, or by its code the one that is still open.
EnterRoom ==
    /\ habit = "room" /\ session.alive /\ ~room.member
    /\ Seen
    /\ room' = IF room.open THEN [room EXCEPT !.member = TRUE]
               ELSE [NoRoom EXCEPT !.open = TRUE, !.member = TRUE]
    /\ UNCHANGED <<habit, commands, store, syncs, buyer>>

LeaveRoom ==
    /\ habit = "room" /\ session.alive /\ room.member
    /\ Seen
    /\ room' = [room EXCEPT !.member = FALSE]
    /\ UNCHANGED <<habit, commands, store, syncs, buyer>>

\* Friends come, by the room's code, and go.
OthersMove ==
    /\ habit = "room" /\ room.open
    /\ room' = [room EXCEPT !.others = ~@]
    /\ UNCHANGED <<habit, session, commands, store, syncs, buyer>>

-----------------------------------------------------------------------------
(* The store and the syncs with it *)

\* A purchase, a renewal, a refund.
StoreChanges(product) ==
    /\ habit \in {"purchases", "rewards"}
    /\ \E left \in {0, Term(product)} \ {store.holds[product]} :
           store' = [holds |-> [store.holds EXCEPT ![product] = left], settled |-> store.settled \ {product}]
    /\ syncs' = [r \in Requests |-> [syncs[r] EXCEPT !.changed = IF syncs[r].open THEN @ \cup {product} ELSE {}]]
    /\ UNCHANGED <<habit, session, commands, room, buyer>>

\* The app sends proofs of all it holds, and of what the store has taken back since.
SyncStarts(r) ==
    /\ habit \in {"purchases", "rewards"} /\ session.alive /\ ~syncs[r].open
    /\ habit = "rewards" => r = CHOOSE q \in Requests : TRUE \* bound: one at a time then
    /\ Seen
    /\ \E more \in SUBSET Sold :
           syncs' = [syncs EXCEPT ![r] =
               [NoSync EXCEPT !.open = TRUE, !.mine = TRUE,
                              !.proofs = more \cup {p \in Sold : store.holds[p] > 0}]]
    /\ UNCHANGED <<habit, commands, room, store, buyer>>

Verified(sync, product, answer) ==
    [sync EXCEPT !.proofs = @ \ {product}, !.granted = Grant(@, product, answer)]

BugVerifyOutage(r, product, answer) == [syncs EXCEPT ![r] = Verified(@, product, answer)]

\* One call to the store; what it says is true of now.  An outage ends the sync.
Verify(r, product, answer) ==
    [syncs EXCEPT ![r] = IF answer = 0 /\ store.holds[product] > 0 THEN NoSync ELSE Verified(@, product, answer)]

SyncVerifies(r) ==
    /\ \E product \in syncs[r].proofs : \E answer \in {0, store.holds[product]} :
           syncs' = Verify(r, product, answer)
    /\ UNCHANGED <<habit, session, commands, room, store, buyer>>

BugSyncedAdds(held, granted) ==
    [product \in Sold |-> IF granted[product] > 0 THEN granted[product] ELSE held[product]]

\* The proofs replace what the session had.
Synced(held, granted) == granted

SyncEnds(r) ==
    /\ syncs[r].open /\ syncs[r].proofs = {}
    /\ syncs' = [syncs EXCEPT ![r] = NoSync]
    /\ IF syncs[r].mine
       THEN /\ buyer' = [buyer EXCEPT !.held = Synced(@, syncs[r].granted)]
            /\ store' = [store EXCEPT !.settled = Sold \ syncs[r].changed]
       ELSE UNCHANGED <<buyer, store>>
    /\ UNCHANGED <<habit, session, commands, room>>

-----------------------------------------------------------------------------
(* Rewards and the matches they open *)

\* The app saw an ad to its end.  To ask again for what one has is no second unlock.
RewardedUnlock(c) ==
    /\ habit = "rewards" /\ session.alive
    /\ Seen
    /\ buyer' = IF buyer.reward # c /\ buyer.cooldown = 0
                THEN [buyer EXCEPT !.reward = c, !.cooldown = RewardedCooldown, !.credit = 1]
                ELSE buyer
    /\ UNCHANGED <<habit, commands, room, store, syncs>>

May(categories) == categories # {} /\ CategoriesAllowed(buyer.held, buyer.reward, categories)

Chosen(stage, categories) ==
    [buyer EXCEPT !.stage = stage, !.search = categories, !.onReward = ~Allowed(buyer.held, categories)]

\* matchmaking.join, or game.playAgain with the categories of the last search.
Search(categories) ==
    /\ habit = "rewards" /\ session.conn
    /\ buyer.stage = "home" \/ (buyer.stage = "over" /\ categories = buyer.search)
    /\ May(categories)
    /\ Seen
    /\ buyer' = Chosen("searching", categories)
    /\ UNCHANGED <<habit, commands, room, store, syncs>>

Dealt(b) == [UseReward(b) EXCEPT !.stage = "playing", !.credit = IF b.onReward THEN @ - 1 ELSE @, !.onReward = FALSE]

\* The search finds a match.
Deal ==
    /\ buyer.stage = "searching"
    /\ buyer' = Dealt(buyer)
    /\ UNCHANGED <<habit, session, commands, room, store, syncs>>

\* The player starts a match with friends, in a room whose categories they chose; no search is left.
StartRoom(categories) ==
    /\ habit = "rewards" /\ session.conn /\ buyer.stage = "home"
    /\ May(categories)
    /\ Seen
    /\ buyer' = [Dealt(Chosen("home", categories)) EXCEPT !.search = {}]
    /\ UNCHANGED <<habit, commands, room, store, syncs>>

\* The match ends, or the player goes home.
Moves ==
    /\ session.alive
    /\ buyer' = CASE buyer.stage = "playing" -> [buyer EXCEPT !.stage = "over"]
                  [] OTHER -> [buyer EXCEPT !.stage = "home", !.search = {}, !.onReward = FALSE]
    /\ UNCHANGED <<habit, session, commands, room, store, syncs>>

-----------------------------------------------------------------------------
(* Time and the reaper *)

Elapse ==
    /\ session' = [session EXCEPT !.seen = IF session.alive THEN Capped(@, SessionTTL) ELSE 0]
    /\ commands' = [replies |-> Aged(commands.replies), bucket |-> Rested(commands.bucket),
                    unswept |-> Rested(commands.unswept),
                    ran |-> [id \in Ids |-> [commands.ran[id] EXCEPT !.age = Capped(@, ReplyCacheTTL)]]]
    /\ room' = [room EXCEPT !.emptySince = IF @ = NotCached THEN @ ELSE Capped(@, EmptyRoomTTL)]
    /\ store' = [store EXCEPT !.holds = Lapsed(@)]
    /\ syncs' = [r \in Requests |-> [syncs[r] EXCEPT !.granted = Lapsed(@)]]
    /\ buyer' = [buyer EXCEPT !.held = Lapsed(@), !.cooldown = IF @ > 0 THEN @ - 1 ELSE 0]
    /\ UNCHANGED habit

\* emptySince is the first pass that saw the room empty.
ReapRoom(r) ==
    CASE ~r.open -> r
      [] r.open /\ ~Empty(r) -> [r EXCEPT !.emptySince = NotCached]
      [] r.open /\ Empty(r) /\ r.emptySince = NotCached -> [r EXCEPT !.emptySince = 0]
      [] r.open /\ Empty(r) /\ r.emptySince = EmptyRoomTTL -> NoRoom
      [] OTHER -> r

BugExpiredUnlessSeated(s, r) ==
    ~r.member /\ s.alive /\ ~s.conn /\ s.seen >= (IF s.connected THEN SessionTTL ELSE UnusedSessionTTL)

\* Only a connection keeps a session, not a place in a room.
Expired(s, r) == s.alive /\ ~s.conn /\ s.seen >= (IF s.connected THEN SessionTTL ELSE UnusedSessionTTL)

Reap ==
    LET expired == Expired(session, room)
        r == ReapRoom(room)
    IN  /\ room' = IF expired THEN [r EXCEPT !.member = FALSE] ELSE r
        /\ session' = IF expired THEN NoSession ELSE IF session.conn THEN [session EXCEPT !.seen = 0] ELSE session
        /\ commands' = [commands EXCEPT !.replies = IF expired THEN NoReplies ELSE Prune(@), !.bucket = Swept(@),
                                        !.ran = IF expired THEN Idle(NoReplies).ran ELSE @]
        /\ buyer' = IF expired THEN NewBuyer ELSE buyer
        /\ store' = [store EXCEPT !.settled = IF expired THEN {} ELSE @]
        /\ syncs' = [q \in Requests |-> [syncs[q] EXCEPT !.mine = @ /\ ~expired]]
        /\ UNCHANGED habit

-----------------------------------------------------------------------------

Next ==
    \/ Create \/ Attach \/ Detach
    \/ \E id \in Ids : HandleFrame(id)
    \/ EnterRoom \/ LeaveRoom \/ OthersMove
    \/ \E product \in Sold : StoreChanges(product)
    \/ \E r \in Requests : SyncStarts(r) \/ SyncVerifies(r) \/ SyncEnds(r)
    \/ \E c \in Categories : RewardedUnlock(c)
    \/ \E categories \in SUBSET Categories : Search(categories) \/ StartRoom(categories)
    \/ Deal \/ Moves \/ Elapse \/ Reap

Spec == Init /\ [][Next]_vars

\* The reaper runs every reapInterval; time goes on.
FairSpec == Spec /\ WF_vars(Elapse) /\ WF_vars(Reap)

-----------------------------------------------------------------------------

\* A command is answered from the cache exactly while its last run is younger
\* than ReplyCacheTTL and among the last ReplyCacheSize ones that ran:
\* it never runs twice within them, and one that was refused is never taken
\* for one that ran (ws.go, handleFrame and replyCache).
CacheKnowsWhatRan ==
    \A id \in Ids :
        Get(commands.replies, id) <=>
            commands.ran[id].age < ReplyCacheTTL /\ commands.ran[id].after < ReplyCacheSize

\* To forget an idle bucket gives nobody a command more than to keep it
\* (limits.go, the comment of sweep).
SweepGrantsNothing == Refilled(commands.bucket) = Refilled(commands.unswept)

\* What the store has said unchanged since before the last sync that succeeded
\* began is what the session holds: a refund takes effect with it, and an
\* outage takes nothing away (monetization.go, syncEntitlements).
SyncTakesEffect == \A product \in store.settled : buyer.held[product] = store.holds[product]

\* An ad opens a locked category for one match and no more, however purchases
\* come and go, searches are cancelled or continued, and rewards replace each
\* other (monetization.go, useReward).
RewardOpensOneMatch == buyer.credit >= 0

OnItsOwn == Elapse \/ Reap

\* A device that is never heard of again leaves nothing behind: its session
\* ends although its player still sits in a room, and the room, empty then, is
\* closed (reaper.go, reap).
IdleGoes ==
    (<>[](~session.conn /\ ~room.others) /\ <>[][OnItsOwn]_vars) => <>[](~session.alive /\ ~room.open)
=============================================================================
