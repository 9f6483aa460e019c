---------------------------- MODULE UpkeepProofs ----------------------------
(***************************************************************************)
(* What a session is given and may do, for any limits, products and        *)
(* categories: nobody gains by a bucket that was swept, a sync that ended  *)
(* has taken effect, and a reward opens one match.                         *)
(***************************************************************************)
EXTENDS Upkeep, WellFoundedInduction, SequenceTheorems, TLAPS

USE LimitAssumption

(* The buckets *)

\* A bucket that no sweep has touched since it was last used, or one that was full when it went.
SameOrFull(bucket, unswept) ==
    /\ bucket \in Buckets /\ unswept \in Buckets
    /\ Rate = 0 => ~bucket.known /\ ~unswept.known
    /\ ~bucket.known => bucket = NoBucket
    /\ bucket = unswept \/ (bucket = NoBucket /\ Refilled(unswept) = Burst)

\* Tokens come in whole numbers.
LEMMA RefilledIsWhole ==
    ASSUME NEW b \in Buckets
    PROVE  Refilled(b) \in 0 .. Burst /\ b.idle * Rate \in Nat
<1>1. b.idle \in Nat /\ b.tokens \in 0 .. Burst
  BY DEF Buckets
<1>2. b.idle * Rate \in Nat
  BY <1>1
<1> QED BY <1>1, <1>2 DEF Refilled

\* A bucket idle for longer than BucketIdle is full (the comment of sweep).
LEMMA IdleIsFull ==
    ASSUME NEW b \in Buckets, b.idle > BucketIdle, Rate > 0
    PROVE  Refilled(b) = Burst
<1>1. b.idle = BucketIdle + 1 /\ b.tokens \in 0 .. Burst
  BY DEF Buckets
<1>2. (BucketIdle + 1) * Rate = Rate * BucketIdle + Rate /\ Rate * BucketIdle \in Nat
  OBVIOUS
<1>3. b.idle * Rate >= Burst /\ b.idle * Rate \in Nat
  BY <1>1, <1>2
<1> QED BY <1>1, <1>3 DEF Refilled

\* Who may spend the same has the same afterwards (allow).
LEMMA ChargedAlike ==
    ASSUME NEW b, NEW u, SameOrFull(b, u)
    PROVE  SameOrFull(Charged(b), Charged(u))
<1>1. Refilled(b) = Refilled(u)
  BY DEF SameOrFull, NoBucket, Refilled
<1>2. Refilled(b) \in 0 .. Burst
  BY RefilledIsWhole DEF SameOrFull
<1>3. CASE Rate = 0
  BY <1>3 DEF Charged, SameOrFull
<1>4. CASE Rate # 0
  <2>1. Charged(b) = Charged(u)
    BY <1>1, <1>4 DEF Charged, Allows
  <2>2. Charged(b) = [known |-> TRUE, tokens |-> IF Refilled(b) >= 1 THEN Refilled(b) - 1 ELSE Refilled(b), idle |-> 0]
    BY <1>4 DEF Charged, Allows
  <2>3. Charged(b) \in Buckets /\ Charged(b).known
    BY <1>2, <2>2 DEF Buckets
  <2> QED BY <1>4, <2>1, <2>3 DEF SameOrFull
<1> QED BY <1>3, <1>4

\* Time fills both alike (allow's refill).
LEMMA RestedAlike ==
    ASSUME NEW b, NEW u, SameOrFull(b, u)
    PROVE  SameOrFull(Rested(b), Rested(u))
<1>1. ASSUME NEW x \in Buckets
      PROVE  /\ Rested(x) \in Buckets /\ Rested(x).known = x.known /\ Rested(x).tokens = x.tokens
             /\ Rested(x).idle \in {x.idle, x.idle + 1}
             /\ ~x.known => Rested(x) = x
  BY DEF Rested, Buckets
<1>2. ASSUME Refilled(u) = Burst PROVE Refilled(Rested(u)) = Burst
  <2>1. u \in Buckets /\ u.idle \in Nat /\ u.tokens \in Nat /\ u.idle * Rate \in Nat
    BY RefilledIsWhole DEF SameOrFull, Buckets
  <2>2. (u.idle + 1) * Rate = u.idle * Rate + Rate
    BY <2>1
  <2>3. u.tokens + u.idle * Rate >= Burst
    BY <1>2, <2>1 DEF Refilled
  <2>4. Rested(u).tokens + Rested(u).idle * Rate >= Burst /\ Rested(u).idle * Rate \in Nat
    <3>1. CASE Rested(u).idle = u.idle
      BY <1>1, <2>1, <2>3, <3>1
    <3>2. CASE Rested(u).idle = u.idle + 1
      <4>1. Rested(u).idle * Rate = u.idle * Rate + Rate
        BY <2>2, <3>2
      <4>2. PICK m \in Nat : m = u.idle * Rate
        BY <2>1
      <4>3. m + Rate \in Nat /\ u.tokens + (m + Rate) >= Burst
        BY <2>1, <2>3, <4>2
      <4>4. Rested(u).idle * Rate = m + Rate /\ Rested(u).tokens = u.tokens
        BY <1>1, <2>1, <4>1, <4>2
      <4> QED BY <4>3, <4>4
    <3> QED BY <1>1, <2>1, <3>1, <3>2
  <2> QED BY <1>1, <2>1, <2>4 DEF Refilled
<1>3. ~NoBucket.known
  BY DEF NoBucket
<1> QED BY <1>1, <1>2, <1>3 DEF SameOrFull

\* Only a full bucket is swept (sweep).
LEMMA SweptAlike ==
    ASSUME NEW b, NEW u, SameOrFull(b, u)
    PROVE  SameOrFull(Swept(b), u)
<1>1. CASE b.idle > BucketIdle
  <2>1. b.known /\ b = u /\ Rate # 0
    BY <1>1 DEF SameOrFull, NoBucket
  <2>2. Refilled(u) = Burst
    BY <1>1, <2>1, IdleIsFull DEF SameOrFull
  <2>3. NoBucket \in Buckets /\ ~NoBucket.known
    BY DEF NoBucket, Buckets
  <2> QED BY <1>1, <2>1, <2>2, <2>3 DEF SameOrFull, Swept
<1>2. CASE ~(b.idle > BucketIdle)
  BY <1>2 DEF Swept
<1> QED BY <1>1, <1>2

\* Both buckets of a session, in the record that keeps them.
BucketsAlike ==
    /\ DOMAIN commands = {"replies", "bucket", "unswept", "ran"}
    /\ SameOrFull(commands.bucket, commands.unswept)

\* No step of the server or of time lets one bucket run ahead of the other.
LEMMA BucketsStayAlike == BucketsAlike /\ [Next]_vars => BucketsAlike'
<1> SUFFICES ASSUME BucketsAlike, [Next]_vars PROVE BucketsAlike'
  OBVIOUS
<1>1. CASE UNCHANGED commands
  BY <1>1 DEF BucketsAlike
<1>2. CASE Create
  <2>1. commands' = Idle(NoReplies)
    BY <1>2 DEF Create
  <2>2. SameOrFull(NoBucket, NoBucket)
    BY DEF SameOrFull, NoBucket, Buckets
  <2> QED BY <2>1, <2>2 DEF BucketsAlike, Idle
<1>3. ASSUME NEW id \in Ids, HandleFrame(id) PROVE BucketsAlike'
  <2>1. commands' = Answer(commands, id)
    BY <1>3 DEF HandleFrame
  <2>2. SameOrFull(Charged(commands.bucket), Charged(commands.unswept))
    BY ChargedAlike DEF BucketsAlike
  <2>3. /\ DOMAIN Charge(commands) = DOMAIN commands
        /\ Charge(commands).bucket = Charged(commands.bucket)
        /\ Charge(commands).unswept = Charged(commands.unswept)
    BY DEF BucketsAlike, Charge
  <2>4. \/ commands' = commands
        \/ commands' = Charge(commands)
        \/ commands' = [Charge(commands) EXCEPT !.replies = Put(@, id), !.ran = Ran(@, id)]
    BY <2>1 DEF Answer
  <2>5. /\ DOMAIN commands' = DOMAIN commands
        /\ \/ commands'.bucket = commands.bucket /\ commands'.unswept = commands.unswept
           \/ commands'.bucket = Charged(commands.bucket) /\ commands'.unswept = Charged(commands.unswept)
    BY <2>3, <2>4 DEF BucketsAlike
  <2> QED BY <2>2, <2>5 DEF BucketsAlike
<1>4. CASE Elapse
  <2>1. /\ DOMAIN commands' = {"replies", "bucket", "unswept", "ran"}
        /\ commands'.bucket = Rested(commands.bucket) /\ commands'.unswept = Rested(commands.unswept)
    BY <1>4 DEF Elapse
  <2> QED BY <2>1, RestedAlike DEF BucketsAlike
<1>5. CASE Reap
  <2>1. /\ DOMAIN commands' = DOMAIN commands
        /\ commands'.bucket = Swept(commands.bucket) /\ commands'.unswept = commands.unswept
    BY <1>5 DEF Reap, BucketsAlike
  <2> QED BY <2>1, SweptAlike DEF BucketsAlike
<1> QED BY <1>1, <1>2, <1>3, <1>4, <1>5
     DEF Next, vars, Attach, Detach, EnterRoom, LeaveRoom, OthersMove, StoreChanges, SyncStarts, SyncVerifies,
         SyncEnds, RewardedUnlock, Search, StartRoom, Deal, Moves

-----------------------------------------------------------------------------
(* The replies *)

USE ReplyCacheAssumption

Entries == [id : Ids, age : Ages]
Caches == [byID : [Ids -> Ages \cup {NotCached}], order : Seq(Entries)]
Runs == [Ids -> [age : Ages, after : 0 .. ReplyCacheSize]]

\* The oldest come first, and an id comes again only after its reply has expired.
Ordered(order) ==
    \A i, j \in DOMAIN order :
        i < j => /\ order[j].age <= order[i].age
                 /\ order[i].id = order[j].id => order[i].age = ReplyCacheTTL

Latest(order, id, k) ==
    /\ k \in DOMAIN order /\ order[k].id = id
    /\ \A j \in DOMAIN order : order[j].id = id => j <= k

\* The latest entry of an id is that of its last run, and as many entries follow it as commands
\* ran since (no more than the limit are counted); an id without an entry ran long ago.
Known(cache, ran, id) ==
    \/ \E k \in DOMAIN cache.order :
          /\ Latest(cache.order, id, k)
          /\ cache.byID[id] = cache.order[k].age /\ ran[id].age = cache.order[k].age
          /\ \/ ran[id].after = Len(cache.order) - k
             \/ ran[id].after = ReplyCacheSize /\ Len(cache.order) - k >= ReplyCacheSize
    \/ /\ cache.byID[id] = NotCached /\ \A j \in DOMAIN cache.order : cache.order[j].id # id
       /\ ran[id].age = ReplyCacheTTL \/ ran[id].after = ReplyCacheSize

Tidy(cache, ran) ==
    cache \in Caches /\ ran \in Runs /\ Ordered(cache.order) /\ \A id \in Ids : Known(cache, ran, id)

LEMMA EntriesOf ==
    ASSUME NEW order \in Seq(Entries)
    PROVE  /\ Len(order) \in Nat /\ DOMAIN order = 1 .. Len(order)
           /\ \A k \in 1 .. Len(order) : order[k] \in Entries /\ order[k].id \in Ids /\ order[k].age \in Ages
<1>1. Len(order) \in Nat /\ DOMAIN order = 1 .. Len(order) /\ \A k \in 1 .. Len(order) : order[k] \in Entries
  OBVIOUS
<1> QED BY <1>1 DEF Entries

\* Every set of natural numbers has a least one.
LEMMA LeastNatural ==
    ASSUME NEW S \in SUBSET Nat, S # {}
    PROVE  \E x \in S : \A y \in S : x <= y
<1> DEFINE R == OpToRel(<, Nat)
<1>1. IsWellFoundedOn(R, Nat)
  BY NatLessThanWellFounded
<1>2. \A x, y \in Nat : <<y, x>> \in R <=> y < x
  BY DEF OpToRel
<1> HIDE DEF R
<1>3. PICK x \in S : \A y \in S : ~ (<<y, x>> \in R)
  BY <1>1, WFMin
<1>4. \A y \in S : x \in Nat /\ y \in Nat /\ ~(y < x)
  BY <1>2, <1>3
<1>5. \A y \in S : x <= y
  BY <1>4
<1> QED BY <1>3, <1>5

\* The loop of prune ends, and not too early.
LEMMA DroppedIsFirst ==
    ASSUME NEW order \in Seq(Entries)
    PROVE  /\ Dropped(order) \in 0 .. Len(order) /\ ~Excess(order, Dropped(order))
           /\ \A k \in 0 .. Dropped(order) - 1 : Excess(order, k)
<1> DEFINE ends == {n \in 0 .. Len(order) : ~Excess(order, n)}
<1>1. Len(order) \in Nat
  BY EntriesOf
<1>2. Len(order) \in ends /\ ends \subseteq Nat
  BY <1>1 DEF Excess
<1>3. PICK n \in ends : \A m \in ends : n <= m
  BY <1>2, LeastNatural
<1>4. \A k \in 0 .. n - 1 : k \in 0 .. Len(order) /\ ~(n <= k)
  BY <1>1, <1>3
<1>5. \A k \in 0 .. n - 1 : Excess(order, k)
  BY <1>3, <1>4
<1> QED BY <1>3, <1>5 DEF Dropped

\* prune takes an id out with its latest entry, which went because it had expired or because
\* enough commands ran since (prune).
LEMMA PruneIsTidy ==
    ASSUME NEW cache, NEW ran, Tidy(cache, ran)
    PROVE  Tidy(Prune(cache), ran) /\ Len(Prune(cache).order) <= ReplyCacheSize
<1> DEFINE q == cache.order
           N == Len(q)
           D == Dropped(q)
           rest == Rest(q)
           new == Prune(cache)
<1>1. /\ q \in Seq(Entries) /\ N \in Nat /\ DOMAIN q = 1 .. N
      /\ \A k \in 1 .. N : q[k] \in Entries /\ q[k].id \in Ids /\ q[k].age \in Ages
      /\ cache.byID \in [Ids -> Ages \cup {NotCached}]
  BY EntriesOf DEF Tidy, Caches
<1>2. D \in 0 .. N /\ ~Excess(q, D) /\ \A k \in 0 .. D - 1 : Excess(q, k)
  BY <1>1, DroppedIsFirst
<1>3. new.order = rest /\ new \in [byID : [Ids -> Ages \cup {NotCached}], order : {rest}]
      /\ \A id \in Ids : new.byID[id] = IF \E k \in 1 .. D : q[k].id = id /\ q[k].age = cache.byID[id]
                                        THEN NotCached ELSE cache.byID[id]
  BY <1>1 DEF Prune
<1> HIDE DEF q, N, D, new
<1>4. /\ rest \in Seq(Entries) /\ Len(rest) = N - D /\ DOMAIN rest = 1 .. N - D
      /\ \A i \in 1 .. N - D : rest[i] = q[D + i] /\ D + i \in 1 .. N
  <2>1. \A i \in D + 1 .. N : q[i] \in Entries
    BY <1>1, <1>2
  <2>2. D + 1 \in Int /\ N \in Int
    BY <1>1, <1>2
  <2>3. /\ SubSeq(q, D + 1, N) \in Seq(Entries)
        /\ Len(SubSeq(q, D + 1, N)) = IF D + 1 <= N THEN N - (D + 1) + 1 ELSE 0
        /\ \A i \in 1 .. N - (D + 1) + 1 : SubSeq(q, D + 1, N)[i] = q[(D + 1) + i - 1]
    BY <2>1, <2>2, SubSeqProperties
  <2>4. rest = SubSeq(q, D + 1, N)
    BY DEF Rest, D, N
  <2> HIDE DEF rest
  <2>5. rest \in Seq(Entries) /\ Len(rest) = N - D
    BY <1>1, <1>2, <2>3, <2>4
  <2>6. \A i \in 1 .. N - D : D + i \in 1 .. N /\ rest[i] = q[D + i]
    BY <1>1, <1>2, <2>3, <2>4
  <2>7. DOMAIN rest = 1 .. N - D
    BY <2>5, EntriesOf
  <2> QED BY <2>5, <2>6, <2>7
<1> HIDE DEF rest
<1>5. N - D <= ReplyCacheSize /\ (D < N => q[D + 1].age < ReplyCacheTTL)
  <2>1. D < N => D + 1 \in 1 .. N
    BY <1>1, <1>2
  <2>2. D < N => q[D + 1].age \in Nat
    BY <1>1, <2>1 DEF Ages
  <2>3. ReplyCacheSize \in Nat /\ ReplyCacheTTL \in Nat
    OBVIOUS
  <2>4. D < N => ~(N - D > ReplyCacheSize) /\ ~(q[D + 1].age >= ReplyCacheTTL)
    BY <1>2 DEF Excess, N
  <2>5. D = N \/ D < N
    BY <1>1, <1>2
  <2> QED BY <1>1, <1>2, <2>2, <2>3, <2>4, <2>5
<1>6. \A k \in 1 .. D : N - k >= ReplyCacheSize \/ q[k].age = ReplyCacheTTL
  <2> SUFFICES ASSUME NEW k \in 1 .. D PROVE N - k >= ReplyCacheSize \/ q[k].age = ReplyCacheTTL
    OBVIOUS
  <2>1. k - 1 \in 0 .. D - 1 /\ (k - 1) + 1 = k /\ k \in 1 .. N
    BY <1>1, <1>2
  <2>2. N - (k - 1) > ReplyCacheSize \/ q[k].age >= ReplyCacheTTL
    BY <1>2, <2>1 DEF Excess, N
  <2>3. q[k].age \in 0 .. ReplyCacheTTL
    BY <1>1, <2>1 DEF Ages
  <2> QED BY <1>1, <2>1, <2>2, <2>3
<1>7. Ordered(q)
  BY DEF Tidy, q
<1>8. \A k \in D + 1 .. N : q[k].age < ReplyCacheTTL
  <2> SUFFICES ASSUME NEW k \in D + 1 .. N PROVE q[k].age < ReplyCacheTTL
    OBVIOUS
  <2>1. D < N /\ D + 1 \in 1 .. N /\ k \in 1 .. N /\ (k = D + 1 \/ D + 1 < k)
    BY <1>1, <1>2
  <2>2. k # D + 1 => q[k].age <= q[D + 1].age
    BY <1>1, <1>7, <2>1 DEF Ordered
  <2>3. q[k].age \in Nat /\ q[D + 1].age \in Nat
    BY <1>1, <2>1 DEF Ages
  <2> QED BY <1>5, <2>1, <2>2, <2>3
<1>9. Ordered(rest)
  <2>1. \A i, j \in 1 .. N - D : i < j => D + i < D + j
    BY <1>1, <1>2
  <2> QED BY <1>1, <1>4, <1>7, <2>1 DEF Ordered
<1>10. ASSUME NEW id \in Ids PROVE Known(new, ran, id)
  <2>1. Known(cache, ran, id)
    BY DEF Tidy
  <2>2. CASE cache.byID[id] = NotCached /\ (\A j \in DOMAIN q : q[j].id # id)
             /\ (ran[id].age = ReplyCacheTTL \/ ran[id].after = ReplyCacheSize)
    <3>1. new.byID[id] = NotCached
      BY <1>3, <2>2
    <3>2. \A j \in DOMAIN rest : rest[j].id # id
      BY <1>1, <1>4, <2>2
    <3> QED BY <1>3, <2>2, <3>1, <3>2 DEF Known
  <2>3. ASSUME NEW k \in 1 .. N, Latest(q, id, k),
               cache.byID[id] = q[k].age, ran[id].age = q[k].age,
               ran[id].after = N - k \/ (ran[id].after = ReplyCacheSize /\ N - k >= ReplyCacheSize)
        PROVE  Known(new, ran, id)
    <3>1. CASE k <= D
      <4>1. k \in 1 .. D
        BY <1>2, <3>1
      <4>2. new.byID[id] = NotCached
        BY <1>3, <2>3, <4>1 DEF Latest
      <4>3. \A j \in 1 .. N - D : ~(D + j <= k)
        BY <1>1, <1>2, <3>1
      <4>4. \A j \in DOMAIN rest : rest[j].id # id
        BY <1>1, <1>4, <2>3, <4>3 DEF Latest
      <4>5. ran[id].age = ReplyCacheTTL \/ ran[id].after = ReplyCacheSize
        <5>1. ran[id].after \in 0 .. ReplyCacheSize
          BY DEF Tidy, Runs
        <5>2. N - k >= ReplyCacheSize \/ q[k].age = ReplyCacheTTL
          BY <1>6, <4>1
        <5> QED BY <1>1, <2>3, <5>1, <5>2
      <4> QED BY <1>3, <4>2, <4>4, <4>5 DEF Known
    <3>2. CASE ~(k <= D)
      <4>1. k \in D + 1 .. N /\ k - D \in 1 .. N - D /\ D + (k - D) = k /\ (N - D) - (k - D) = N - k
        BY <1>1, <1>2, <3>2
      <4>2. q[k].age # ReplyCacheTTL
        <5>1. q[k].age \in Nat /\ q[k].age < ReplyCacheTTL
          BY <1>1, <1>8, <4>1 DEF Ages
        <5> QED BY <5>1
      <4>3. ~ \E j \in 1 .. D : q[j].id = id /\ q[j].age = cache.byID[id]
        <5> SUFFICES ASSUME NEW j \in 1 .. D, q[j].id = id PROVE q[j].age # cache.byID[id]
          OBVIOUS
        <5>1. j \in 1 .. N /\ j < k
          BY <1>1, <1>2, <4>1
        <5>2. q[j].age = ReplyCacheTTL
          BY <1>1, <1>7, <2>3, <5>1 DEF Ordered, Latest
        <5> QED BY <2>3, <4>2, <5>2
      <4>4. new.byID[id] = q[k].age
        BY <1>3, <2>3, <4>3
      <4>5. rest[k - D] = q[k]
        BY <1>4, <4>1
      <4>6. Latest(rest, id, k - D)
        <5>1. \A j \in 1 .. N - D : D + j <= k => j <= k - D
          BY <1>1, <1>2
        <5> QED BY <1>1, <1>4, <2>3, <4>1, <4>5, <5>1 DEF Latest
      <4>7. \/ ran[id].after = Len(rest) - (k - D)
            \/ ran[id].after = ReplyCacheSize /\ Len(rest) - (k - D) >= ReplyCacheSize
        BY <1>4, <2>3, <4>1
      <4> QED BY <1>3, <1>4, <2>3, <4>1, <4>4, <4>5, <4>6, <4>7 DEF Known
    <3> QED BY <3>1, <3>2
  <2> QED BY <1>1, <2>1, <2>2, <2>3 DEF Known, q, N
<1>11. new \in Caches
  BY <1>3, <1>4 DEF Caches
<1>12. Tidy(new, ran)
  BY <1>3, <1>9, <1>10, <1>11 DEF Tidy
<1> QED BY <1>3, <1>4, <1>5, <1>12 DEF new

\* A command runs: its reply becomes the latest, and one more follows all others (handleFrame, put).
LEMMA RunIsTidy ==
    ASSUME NEW cache, NEW ran, Tidy(cache, ran), NEW id \in Ids, ~Get(cache, id)
    PROVE  Tidy(Put(cache, id), Ran(ran, id)) /\ Len(Put(cache, id).order) <= ReplyCacheSize
<1> DEFINE q == cache.order
           N == Len(q)
           entry == [id |-> id, age |-> 0]
           more == Append(q, entry)
           new == [byID |-> [cache.byID EXCEPT ![id] = 0], order |-> more]
           after == Ran(ran, id)
<1>1. /\ q \in Seq(Entries) /\ N \in Nat /\ DOMAIN q = 1 .. N
      /\ \A k \in 1 .. N : q[k] \in Entries /\ q[k].id \in Ids /\ q[k].age \in Ages
      /\ cache.byID \in [Ids -> Ages \cup {NotCached}]
  BY EntriesOf DEF Tidy, Caches
<1>2. 0 \in Ages /\ entry \in Entries /\ entry.id = id /\ entry.age = 0
  BY DEF Ages, Entries
<1> HIDE DEF q, N, entry
<1>3. /\ more \in Seq(Entries) /\ Len(more) = N + 1 /\ DOMAIN more = 1 .. N + 1
      /\ more[N + 1] = entry /\ \A k \in 1 .. N : more[k] = q[k]
  BY <1>1, <1>2 DEF N
<1> HIDE DEF more
<1>4. /\ \A k \in 1 .. N : k \in 1 .. N + 1 /\ k # N + 1
      /\ \A k \in 1 .. N + 1 : k \in 1 .. N \/ k = N + 1
      /\ N + 1 \in 1 .. N + 1
  BY <1>1
<1>5. /\ after \in [Ids -> [age : Ages, after : 0 .. ReplyCacheSize]]
      /\ after[id].age = 0 /\ after[id].after = 0
      /\ \A i \in Ids \ {id} : after[i].age = ran[i].age /\ after[i].after = Capped(ran[i].after, ReplyCacheSize)
  <2>1. ran \in [Ids -> [age : Ages, after : 0 .. ReplyCacheSize]]
    BY DEF Tidy, Runs
  <2>2. \A n \in 0 .. ReplyCacheSize : Capped(n, ReplyCacheSize) \in 0 .. ReplyCacheSize
    BY DEF Capped
  <2> QED BY <1>2, <2>1, <2>2 DEF Ran
<1> HIDE DEF after
<1>6. Ordered(more)
  <2>1. Ordered(q) /\ Known(cache, ran, id)
    BY DEF Tidy, q
  <2>2. \A k \in 1 .. N : 0 <= q[k].age
    BY <1>1 DEF Ages
  <2>3. ASSUME NEW k \in 1 .. N, q[k].id = id PROVE q[k].age = ReplyCacheTTL
    <3>1. PICK j \in 1 .. N : Latest(q, id, j) /\ cache.byID[id] = q[j].age
      BY <1>1, <2>1, <2>3 DEF Known, q
    <3>2. q[j].age \in 0 .. ReplyCacheTTL /\ q[j].age \notin 0 .. ReplyCacheTTL - 1
      BY <1>1, <3>1 DEF Get, Ages
    <3>3. q[j].age = ReplyCacheTTL
      BY <3>2
    <3>4. k = j \/ k < j
      BY <1>1, <2>3, <3>1 DEF Latest
    <3> QED BY <1>1, <2>1, <2>3, <3>1, <3>3, <3>4 DEF Ordered, Latest
  <2>4. \A i, j \in 1 .. N + 1 : i < j => i \in 1 .. N
    BY <1>1
  <2> QED BY <1>1, <1>2, <1>3, <1>4, <2>1, <2>2, <2>3, <2>4 DEF Ordered
<1>7. ASSUME NEW i \in Ids PROVE Known(new, after, i)
  <2>1. CASE i = id
    <3>1. Latest(more, id, N + 1)
      BY <1>1, <1>2, <1>3 DEF Latest
    <3>2. new.byID[id] = 0 /\ new.order = more /\ (N + 1) - (N + 1) = 0
      BY <1>1
    <3> QED BY <1>2, <1>3, <1>4, <1>5, <2>1, <3>1, <3>2 DEF Known
  <2>2. CASE i # id
    <3>1. Known(cache, ran, i) /\ new.byID[i] = cache.byID[i] /\ new.order = more
      BY <1>1, <2>2 DEF Tidy
    <3>2. ran[i].after \in 0 .. ReplyCacheSize
      BY DEF Tidy, Runs
    <3>3. /\ ran[i].after = ReplyCacheSize => after[i].after = ReplyCacheSize
          /\ ran[i].after < ReplyCacheSize => after[i].after = ran[i].after + 1
      BY <1>5, <2>2, <3>2 DEF Capped
    <3>4. CASE cache.byID[i] = NotCached /\ (\A j \in DOMAIN q : q[j].id # i)
               /\ (ran[i].age = ReplyCacheTTL \/ ran[i].after = ReplyCacheSize)
      <4>1. \A j \in DOMAIN more : more[j].id # i
        BY <1>1, <1>2, <1>3, <1>4, <2>2, <3>4
      <4> QED BY <1>5, <2>2, <3>1, <3>3, <3>4, <4>1 DEF Known
    <3>5. ASSUME NEW k \in 1 .. N, Latest(q, i, k),
                 cache.byID[i] = q[k].age, ran[i].age = q[k].age,
                 ran[i].after = N - k \/ (ran[i].after = ReplyCacheSize /\ N - k >= ReplyCacheSize)
          PROVE  Known(new, after, i)
      <4>1. Latest(more, i, k)
        BY <1>1, <1>2, <1>3, <1>4, <2>2, <3>5 DEF Latest
      <4>2. \/ after[i].after = (N + 1) - k
            \/ after[i].after = ReplyCacheSize /\ (N + 1) - k >= ReplyCacheSize
        BY <1>1, <3>2, <3>3, <3>5
      <4>3. k \in DOMAIN more /\ more[k].age = q[k].age
        BY <1>3, <1>4
      <4> QED BY <1>3, <1>5, <2>2, <3>1, <3>5, <4>1, <4>2, <4>3 DEF Known
    <3> QED BY <1>1, <3>1, <3>4, <3>5 DEF Known, q, N
  <2> QED BY <2>1, <2>2
<1>8. new \in Caches
  BY <1>1, <1>2, <1>3 DEF Caches
<1> HIDE DEF new
<1>9. new.order = more
  BY DEF new
<1>10. Tidy(new, after)
  BY <1>5, <1>6, <1>7, <1>8, <1>9 DEF Tidy, Runs
<1>11. Put(cache, id) = Prune(new)
  BY DEF Put, new, more, entry, q
<1> QED BY <1>10, <1>11, PruneIsTidy DEF after

\* Replies and runs age alike (get and prune compare their times).
LEMMA AgedIsTidy ==
    ASSUME NEW cache, NEW ran, Tidy(cache, ran)
    PROVE  LET aged == [id \in Ids |-> [ran[id] EXCEPT !.age = Capped(@, ReplyCacheTTL)]]
           IN  Tidy(Aged(cache), aged) /\ Len(Aged(cache).order) = Len(cache.order)
<1> DEFINE q == cache.order
           N == Len(q)
           old == [k \in DOMAIN q |-> [q[k] EXCEPT !.age = Older(@)]]
           aged == [id \in Ids |-> [ran[id] EXCEPT !.age = Capped(@, ReplyCacheTTL)]]
           new == Aged(cache)
<1>1. /\ q \in Seq(Entries) /\ N \in Nat /\ DOMAIN q = 1 .. N
      /\ \A k \in 1 .. N : q[k] \in Entries /\ q[k].id \in Ids /\ q[k].age \in Ages
      /\ cache.byID \in [Ids -> Ages \cup {NotCached}] /\ ran \in Runs
  BY EntriesOf DEF Tidy, Caches
<1>2. /\ \A age \in Ages : Older(age) \in Ages /\ Older(age) = Capped(age, ReplyCacheTTL)
      /\ \A age \in Ages : age = ReplyCacheTTL => Older(age) = ReplyCacheTTL
      /\ \A a, b \in Ages : a <= b => Older(a) <= Older(b)
      /\ Older(NotCached) = NotCached
  BY DEF Ages, Older, Capped, NotCached
<1> HIDE DEF q, N
<1>3. /\ new.order = old /\ new \in [byID : [Ids -> Ages \cup {NotCached}], order : {old}]
      /\ \A id \in Ids : new.byID[id] = Older(cache.byID[id])
  BY <1>1, <1>2 DEF Aged, q
<1> HIDE DEF new
<1>4. /\ old \in Seq(Entries) /\ Len(old) = N /\ DOMAIN old = 1 .. N
      /\ \A k \in 1 .. N : old[k].id = q[k].id /\ old[k].age = Older(q[k].age)
  <2>1. \A k \in 1 .. N : old[k] \in Entries /\ old[k].id = q[k].id /\ old[k].age = Older(q[k].age)
    BY <1>1, <1>2 DEF Entries
  <2>2. old \in [1 .. N -> Entries]
    BY <1>1, <2>1
  <2> HIDE DEF old
  <2>3. old \in Seq(Entries)
    BY <1>1, <2>2
  <2>4. DOMAIN old = 1 .. Len(old) /\ Len(old) \in Nat /\ DOMAIN old = 1 .. N
    BY <2>2, <2>3, EntriesOf
  <2>5. \A n, m \in Nat : 1 .. n = 1 .. m => n = m
    <3> SUFFICES ASSUME NEW n \in Nat, NEW m \in Nat, 1 .. n = 1 .. m, n # m PROVE FALSE
      OBVIOUS
    <3>1. (n < m /\ m \in 1 .. m /\ m \notin 1 .. n) \/ (m < n /\ n \in 1 .. n /\ n \notin 1 .. m)
      OBVIOUS
    <3> QED BY <3>1
  <2>6. Len(old) = N
    BY <1>1, <2>4, <2>5
  <2> QED BY <2>1, <2>3, <2>4, <2>6
<1>5. /\ aged \in Runs
      /\ \A id \in Ids : aged[id].age = Older(ran[id].age) /\ aged[id].after = ran[id].after
  BY <1>1, <1>2 DEF Runs
<1> HIDE DEF old, aged
<1>6. Ordered(old)
  <2>1. Ordered(q)
    BY DEF Tidy, q
  <2> QED BY <1>1, <1>2, <1>4, <2>1 DEF Ordered
<1>7. ASSUME NEW id \in Ids PROVE Known(new, aged, id)
  <2>1. Known(cache, ran, id) /\ ran[id].age \in Ages
    BY <1>1 DEF Tidy, Runs
  <2>2. CASE cache.byID[id] = NotCached /\ (\A j \in DOMAIN q : q[j].id # id)
             /\ (ran[id].age = ReplyCacheTTL \/ ran[id].after = ReplyCacheSize)
    BY <1>1, <1>2, <1>3, <1>4, <1>5, <2>1, <2>2 DEF Known
  <2>3. ASSUME NEW k \in 1 .. N, Latest(q, id, k),
               cache.byID[id] = q[k].age, ran[id].age = q[k].age,
               ran[id].after = N - k \/ (ran[id].after = ReplyCacheSize /\ N - k >= ReplyCacheSize)
        PROVE  Known(new, aged, id)
    <3>1. Latest(old, id, k)
      BY <1>1, <1>4, <2>3 DEF Latest
    <3>2. new.byID[id] = old[k].age /\ aged[id].age = old[k].age
      BY <1>3, <1>4, <1>5, <2>3
    <3> QED BY <1>3, <1>4, <1>5, <2>3, <3>1, <3>2 DEF Known
  <2> QED BY <1>1, <2>1, <2>2, <2>3 DEF Known, q, N
<1>8. new \in Caches
  BY <1>3, <1>4 DEF Caches
<1>9. Tidy(new, aged)
  BY <1>3, <1>5, <1>6, <1>7, <1>8 DEF Tidy
<1> QED BY <1>3, <1>4, <1>9 DEF new, aged, N, q

LEMMA IdleIsTidy == Tidy(NoReplies, Idle(NoReplies).ran) /\ Len(NoReplies.order) = 0
<1> DEFINE ran == Idle(NoReplies).ran
<1>1. /\ ran = [id \in Ids |-> [age |-> ReplyCacheTTL, after |-> 0]]
      /\ NoReplies.order = <<>> /\ NoReplies.byID = [id \in Ids |-> NotCached]
  BY DEF Idle, NoReplies
<1>2. <<>> \in Seq(Entries) /\ Len(<<>>) = 0 /\ DOMAIN <<>> = {}
  OBVIOUS
<1>3. ReplyCacheTTL \in Ages /\ 0 \in 0 .. ReplyCacheSize
  BY DEF Ages
<1>4. NoReplies \in Caches
  BY <1>2 DEF Caches, NoReplies
<1> HIDE DEF ran
<1>5. ran \in Runs
  BY <1>1, <1>3 DEF Runs
<1>6. Ordered(NoReplies.order)
  BY <1>1, <1>2 DEF Ordered
<1>7. \A id \in Ids : Known(NoReplies, ran, id)
  BY <1>1, <1>2 DEF Known
<1> QED BY <1>1, <1>2, <1>4, <1>5, <1>6, <1>7 DEF Tidy, ran

CacheInv ==
    /\ DOMAIN commands = {"replies", "bucket", "unswept", "ran"}
    /\ Tidy(commands.replies, commands.ran) /\ Len(commands.replies.order) <= ReplyCacheSize

LEMMA CacheInvHolds == CacheInv /\ [Next]_vars => CacheInv'
<1> SUFFICES ASSUME CacheInv, [Next]_vars PROVE CacheInv'
  OBVIOUS
<1>1. CASE UNCHANGED commands
  BY <1>1 DEF CacheInv
<1>2. CASE Create
  <2>1. /\ DOMAIN commands' = {"replies", "bucket", "unswept", "ran"}
        /\ commands'.replies = NoReplies /\ commands'.ran = Idle(NoReplies).ran
    BY <1>2 DEF Create, Idle
  <2> QED BY <2>1, IdleIsTidy DEF CacheInv
<1>3. ASSUME NEW id \in Ids, HandleFrame(id) PROVE CacheInv'
  <2>1. commands' = Answer(commands, id)
    BY <1>3 DEF HandleFrame
  <2>2. /\ DOMAIN Charge(commands) = DOMAIN commands
        /\ Charge(commands).replies = commands.replies /\ Charge(commands).ran = commands.ran
    BY DEF CacheInv, Charge
  <2>3. \/ commands' = commands
        \/ commands' = Charge(commands)
        \/ /\ ~Get(commands.replies, id)
           /\ commands' = [Charge(commands) EXCEPT !.replies = Put(@, id), !.ran = Ran(@, id)]
    BY <2>1 DEF Answer
  <2>4. /\ DOMAIN commands' = DOMAIN commands
        /\ \/ commands'.replies = commands.replies /\ commands'.ran = commands.ran
           \/ /\ ~Get(commands.replies, id)
              /\ commands'.replies = Put(commands.replies, id) /\ commands'.ran = Ran(commands.ran, id)
    BY <2>2, <2>3 DEF CacheInv
  <2> QED BY <2>4, RunIsTidy DEF CacheInv
<1>4. CASE Elapse
  <2>1. /\ DOMAIN commands' = {"replies", "bucket", "unswept", "ran"}
        /\ commands'.replies = Aged(commands.replies)
        /\ commands'.ran = [id \in Ids |-> [commands.ran[id] EXCEPT !.age = Capped(@, ReplyCacheTTL)]]
    BY <1>4 DEF Elapse
  <2> QED BY <2>1, AgedIsTidy DEF CacheInv
<1>5. CASE Reap
  <2>1. /\ DOMAIN commands' = DOMAIN commands
        /\ \/ commands'.replies = Prune(commands.replies) /\ commands'.ran = commands.ran
           \/ commands'.replies = NoReplies /\ commands'.ran = Idle(NoReplies).ran
    BY <1>5 DEF Reap, CacheInv
  <2> QED BY <2>1, PruneIsTidy, IdleIsTidy DEF CacheInv
<1> QED BY <1>1, <1>2, <1>3, <1>4, <1>5
     DEF Next, vars, Attach, Detach, EnterRoom, LeaveRoom, OthersMove, StoreChanges, SyncStarts, SyncVerifies,
         SyncEnds, RewardedUnlock, Search, StartRoom, Deal, Moves

-----------------------------------------------------------------------------
(* The syncs *)

SyncRecords == [open : BOOLEAN, mine : BOOLEAN, proofs : SUBSET Sold, granted : Holdings, changed : SUBSET Sold]
StoreRecords == [holds : Holdings, settled : SUBSET Sold]

\* What a sync has granted so far is what the store holds, of what has not changed since it began.
Follows(sync) ==
    /\ sync.open => \A product \in Sold \ sync.changed :
          sync.granted[product] = IF product \in sync.proofs THEN 0 ELSE store.holds[product]
    /\ ~sync.open => sync.proofs = {}

SyncInv ==
    /\ store \in StoreRecords
    /\ syncs \in [Requests -> SyncRecords]
    /\ "held" \in DOMAIN buyer /\ buyer.held \in Holdings
    /\ \A r \in Requests : Follows(syncs[r])
    /\ SyncTakesEffect

\* Nothing is a holding, and time takes holdings to holdings, what is equal to what is equal.
LEMMA HoldingsLapse ==
    /\ Nothing \in Holdings
    /\ NewBuyer.held = Nothing /\ DOMAIN NewBuyer = DOMAIN NewBuyer \cup {"held"}
    /\ \A h \in Holdings : Lapsed(h) \in Holdings
    /\ \A h, g \in Holdings : \A p \in Sold :
          /\ h[p] = g[p] => Lapsed(h)[p] = Lapsed(g)[p]
          /\ h[p] = 0 => Lapsed(h)[p] = 0
BY EntitlementsAssumption DEF Nothing, Holdings, Lapsed, NewBuyer, Forever

\* A sync not under way holds no proofs.
LEMMA NoSyncFollows == NoSync \in SyncRecords /\ Follows(NoSync) /\ ~NoSync.open /\ NoSync.granted = Nothing /\ NoSync.changed = {}
BY HoldingsLapse DEF NoSync, SyncRecords, Follows

\* The store, the syncs under way and the session agree, step by step.
LEMMA SyncInvHolds == SyncInv /\ [Next]_vars => SyncInv'
<1> SUFFICES ASSUME SyncInv, [Next]_vars PROVE SyncInv'
  OBVIOUS
<1>1. ASSUME UNCHANGED <<store, syncs>>, "held" \in DOMAIN buyer', buyer'.held = buyer.held
      PROVE  SyncInv'
  BY <1>1 DEF SyncInv, Follows, SyncTakesEffect
<1>2. ASSUME store' = [store EXCEPT !.settled = {}], "held" \in DOMAIN buyer', buyer'.held \in Holdings,
             syncs' \in [Requests -> SyncRecords],
             \A r \in Requests : \E b \in BOOLEAN : syncs'[r] = [syncs[r] EXCEPT !.mine = b]
      PROVE  SyncInv'
  <2>1. store' \in StoreRecords /\ store'.holds = store.holds /\ store'.settled = {}
    BY <1>2 DEF SyncInv, StoreRecords
  <2>2. ASSUME NEW r \in Requests PROVE Follows(syncs[r])'
    <3>1. syncs[r] \in SyncRecords /\ Follows(syncs[r])
      BY DEF SyncInv
    <3>2. PICK b \in BOOLEAN : syncs'[r] = [syncs[r] EXCEPT !.mine = b]
      BY <1>2
    <3>3. /\ syncs'[r].open = syncs[r].open /\ syncs'[r].proofs = syncs[r].proofs
          /\ syncs'[r].granted = syncs[r].granted /\ syncs'[r].changed = syncs[r].changed
      BY <3>1, <3>2 DEF SyncRecords
    <3> QED BY <2>1, <3>1, <3>3 DEF Follows
  <2> QED BY <1>2, <2>1, <2>2 DEF SyncInv, SyncTakesEffect
<1>3. CASE Create
  <2>1. \A r \in Requests : syncs'[r] = [syncs[r] EXCEPT !.mine = syncs[r].mine] /\ syncs[r].mine \in BOOLEAN
    BY <1>3 DEF Create, SyncInv, SyncRecords
  <2>2. store' = [store EXCEPT !.settled = {}] /\ buyer' = NewBuyer /\ syncs' \in [Requests -> SyncRecords]
    BY <1>3 DEF Create, SyncInv
  <2> QED BY <1>2, <2>1, <2>2, HoldingsLapse
<1>4. ASSUME NEW p \in Sold, StoreChanges(p) PROVE SyncInv'
  <2>1. PICK left \in {0, Term(p)} :
           store' = [holds |-> [store.holds EXCEPT ![p] = left], settled |-> store.settled \ {p}]
    BY <1>4 DEF StoreChanges
  <2>2. left \in 0 .. Forever
    BY EntitlementsAssumption DEF Term, Forever
  <2>3. /\ store' \in StoreRecords /\ store'.settled = store.settled \ {p}
        /\ \A q \in Sold \ {p} : store'.holds[q] = store.holds[q]
    BY <2>1, <2>2 DEF SyncInv, StoreRecords, Holdings
  <2>4. ASSUME NEW r \in Requests
        PROVE  syncs'[r] \in SyncRecords /\ Follows(syncs[r])'
    <3>1. syncs[r] \in SyncRecords /\ Follows(syncs[r])
      BY DEF SyncInv
    <3>2. syncs'[r] = [syncs[r] EXCEPT !.changed = IF syncs[r].open THEN @ \cup {p} ELSE {}]
      BY <1>4 DEF StoreChanges
    <3>3. /\ syncs'[r] \in SyncRecords
          /\ syncs'[r].open = syncs[r].open /\ syncs'[r].proofs = syncs[r].proofs
          /\ syncs'[r].granted = syncs[r].granted
          /\ syncs[r].open => syncs'[r].changed = syncs[r].changed \cup {p}
      BY <3>1, <3>2 DEF SyncRecords
    <3> QED BY <2>3, <3>1, <3>3 DEF Follows
  <2>5. syncs' \in [Requests -> SyncRecords] /\ buyer' = buyer
    BY <1>4, <2>4 DEF StoreChanges
  <2>6. SyncTakesEffect'
    BY <2>3, <2>5 DEF SyncInv, SyncTakesEffect, StoreRecords
  <2> QED BY <2>3, <2>4, <2>5, <2>6 DEF SyncInv
<1>5. ASSUME NEW r \in Requests, NEW s \in SyncRecords, Follows(s), syncs' = [syncs EXCEPT ![r] = s],
             UNCHANGED <<store, buyer>>
      PROVE  SyncInv'
  <2>1. Follows(s)'
    BY <1>5 DEF Follows
  <2> QED BY <1>5, <2>1 DEF SyncInv, Follows, SyncTakesEffect
<1>6. ASSUME NEW r \in Requests, SyncStarts(r) PROVE SyncInv'
  <2>1. PICK more \in SUBSET Sold :
          syncs' = [syncs EXCEPT ![r] = [NoSync EXCEPT !.open = TRUE, !.mine = TRUE,
                                                       !.proofs = more \cup {p \in Sold : store.holds[p] > 0}]]
    BY <1>6 DEF SyncStarts
  <2> DEFINE s == [NoSync EXCEPT !.open = TRUE, !.mine = TRUE,
                                 !.proofs = more \cup {p \in Sold : store.holds[p] > 0}]
  <2>2. /\ s \in SyncRecords /\ s.granted = Nothing /\ s.changed = {}
        /\ s.proofs = more \cup {p \in Sold : store.holds[p] > 0}
    BY HoldingsLapse DEF SyncRecords, NoSync
  <2>3. \A p \in Sold : Nothing[p] = 0 /\ store.holds[p] \in Nat
    BY EntitlementsAssumption DEF Nothing, SyncInv, StoreRecords, Holdings, Forever
  <2>4. Follows(s)
    BY <2>2, <2>3 DEF Follows, NoSync
  <2>5. UNCHANGED <<store, buyer>>
    BY <1>6 DEF SyncStarts
  <2> HIDE DEF s
  <2> QED BY <1>5, <2>1, <2>2, <2>4, <2>5 DEF s
<1>7. ASSUME NEW r \in Requests, SyncVerifies(r) PROVE SyncInv'
  <2>0. PICK p \in syncs[r].proofs : \E answer \in {0, store.holds[p]} : syncs' = Verify(r, p, answer)
    BY <1>7 DEF SyncVerifies
  <2>1. PICK answer \in {0, store.holds[p]} : syncs' = Verify(r, p, answer)
    BY <2>0
  <2>2. UNCHANGED <<store, buyer>>
    BY <1>7 DEF SyncVerifies
  <2>3. syncs[r] \in SyncRecords /\ Follows(syncs[r]) /\ p \in Sold
    BY <2>1 DEF SyncInv, SyncRecords
  <2>4. CASE answer = 0 /\ store.holds[p] > 0
    BY <1>5, <2>1, <2>2, <2>4, NoSyncFollows DEF Verify
  <2>5. CASE ~(answer = 0 /\ store.holds[p] > 0)
    <3> DEFINE s == Verified(syncs[r], p, answer)
    <3>1. syncs' = [syncs EXCEPT ![r] = s]
      BY <2>1, <2>5 DEF Verify
    <3>2. store.holds[p] \in 0 .. Forever /\ answer = store.holds[p]
      BY <2>1, <2>3, <2>5, EntitlementsAssumption DEF SyncInv, StoreRecords, Holdings, Forever
    <3>3. syncs[r].granted \in [Sold -> 0 .. Forever]
      BY <2>3 DEF SyncRecords, Holdings
    <3>4. /\ Grant(syncs[r].granted, p, answer) \in [Sold -> 0 .. Forever]
          /\ \A q \in Sold \ {p} : Grant(syncs[r].granted, p, answer)[q] = syncs[r].granted[q]
          /\ syncs[r].granted[p] = 0 => Grant(syncs[r].granted, p, answer)[p] = answer
      BY <2>3, <3>2, <3>3, EntitlementsAssumption DEF Grant, Forever
    <3>5. /\ s \in SyncRecords /\ s.open = syncs[r].open /\ s.changed = syncs[r].changed
          /\ s.proofs = syncs[r].proofs \ {p} /\ s.granted = Grant(syncs[r].granted, p, answer)
      BY <2>3, <3>4 DEF SyncRecords, Holdings, Verified
    <3> HIDE DEF s
    <3>6. Follows(s)
      BY <2>1, <2>3, <3>2, <3>4, <3>5 DEF Follows
    <3> QED BY <1>5, <2>2, <3>1, <3>5, <3>6
  <2> QED BY <2>4, <2>5
<1>8. ASSUME NEW r \in Requests, SyncEnds(r) PROVE SyncInv'
  <2>1. syncs[r].open /\ syncs[r].proofs = {} /\ syncs' = [syncs EXCEPT ![r] = NoSync]
    BY <1>8 DEF SyncEnds
  <2>2. CASE ~syncs[r].mine
    BY <1>5, <1>8, <2>1, <2>2, NoSyncFollows DEF SyncEnds
  <2>3. CASE syncs[r].mine
    <3>1. buyer' = [buyer EXCEPT !.held = syncs[r].granted] /\ store' = [store EXCEPT !.settled = Sold \ syncs[r].changed]
      BY <1>8, <2>3 DEF SyncEnds, Synced
    <3>2. syncs[r] \in SyncRecords /\ Follows(syncs[r])
      BY DEF SyncInv
    <3>3. /\ store' \in StoreRecords /\ store'.holds = store.holds /\ store'.settled = Sold \ syncs[r].changed
          /\ "held" \in DOMAIN buyer' /\ buyer'.held = syncs[r].granted /\ buyer'.held \in Holdings
      BY <3>1, <3>2 DEF SyncInv, StoreRecords, SyncRecords
    <3>4. SyncTakesEffect'
      BY <2>1, <3>2, <3>3 DEF SyncTakesEffect, Follows
    <3>5. \A q \in Requests : syncs'[q] \in SyncRecords /\ Follows(syncs[q])'
      BY <2>1, <3>3, NoSyncFollows DEF SyncInv, Follows
    <3> QED BY <2>1, <3>3, <3>4, <3>5, NoSyncFollows DEF SyncInv
  <2> QED BY <2>2, <2>3
<1>9. CASE Elapse
  <2>1. store' = [store EXCEPT !.holds = Lapsed(@)] /\ store \in StoreRecords
    BY <1>9 DEF Elapse, SyncInv
  <2>2. store' \in StoreRecords /\ store'.holds = Lapsed(store.holds) /\ store'.settled = store.settled
    BY <2>1, HoldingsLapse DEF StoreRecords
  <2>3. ASSUME NEW r \in Requests PROVE syncs'[r] \in SyncRecords /\ Follows(syncs[r])'
    <3>1. syncs[r] \in SyncRecords /\ Follows(syncs[r]) /\ store.holds \in Holdings
      BY DEF SyncInv, StoreRecords
    <3>2. syncs'[r] = [syncs[r] EXCEPT !.granted = Lapsed(@)]
      BY <1>9 DEF Elapse
    <3>3. /\ syncs'[r] \in SyncRecords /\ syncs'[r].open = syncs[r].open /\ syncs'[r].changed = syncs[r].changed
          /\ syncs'[r].proofs = syncs[r].proofs /\ syncs'[r].granted = Lapsed(syncs[r].granted)
          /\ syncs[r].granted \in Holdings
      BY <3>1, <3>2, HoldingsLapse DEF SyncRecords
    <3> QED BY <2>2, <3>1, <3>3, HoldingsLapse DEF Follows
  <2>4. "held" \in DOMAIN buyer' /\ buyer'.held = Lapsed(buyer.held)
    BY <1>9 DEF Elapse, SyncInv
  <2>5. SyncTakesEffect'
    BY <2>2, <2>4, HoldingsLapse DEF SyncInv, SyncTakesEffect, StoreRecords
  <2>6. syncs' \in [Requests -> SyncRecords]
    BY <1>9, <2>3 DEF Elapse
  <2> QED BY <2>2, <2>3, <2>4, <2>5, <2>6, HoldingsLapse DEF SyncInv
<1>10. CASE Reap
  <2> DEFINE expired == Expired(session, room)
  <2>1. \A r \in Requests : syncs'[r] = [syncs[r] EXCEPT !.mine = @ /\ ~expired]
    BY <1>10 DEF Reap
  <2>2. \A r \in Requests : syncs[r] \in SyncRecords /\ (syncs[r].mine /\ ~expired) \in BOOLEAN
    BY DEF SyncInv, SyncRecords
  <2>3. \A r \in Requests : \E b \in BOOLEAN : syncs'[r] = [syncs[r] EXCEPT !.mine = b]
    BY <2>1, <2>2
  <2>4. syncs' \in [Requests -> SyncRecords]
    BY <1>10, <2>1, <2>2, ZenonT(60) DEF Reap, SyncRecords
  <2>5. CASE expired
    BY <1>2, <1>10, <2>3, <2>4, <2>5, HoldingsLapse DEF Reap
  <2>6. CASE ~expired
    <3>1. buyer' = buyer /\ store' = store
      BY <1>10, <2>6 DEF Reap, SyncInv, StoreRecords
    <3>2. ASSUME NEW r \in Requests PROVE Follows(syncs[r])'
      <4>1. /\ syncs'[r].open = syncs[r].open /\ syncs'[r].proofs = syncs[r].proofs
            /\ syncs'[r].granted = syncs[r].granted /\ syncs'[r].changed = syncs[r].changed
        BY <2>1, <2>2 DEF SyncRecords
      <4> QED BY <3>1, <4>1 DEF SyncInv, Follows
    <3> QED BY <2>4, <3>1, <3>2 DEF SyncInv, SyncTakesEffect
  <2> QED BY <2>5, <2>6
<1>11. CASE Deal \/ Moves \/ (\E c \in Categories : RewardedUnlock(c))
             \/ (\E categories \in SUBSET Categories : Search(categories) \/ StartRoom(categories))
  <2>1. "held" \in DOMAIN buyer' /\ buyer'.held = buyer.held
    BY <1>11, ZenonT(60) DEF Deal, Moves, RewardedUnlock, Search, StartRoom, Dealt, UseReward, Chosen, SyncInv
  <2> QED BY <1>1, <1>11, <2>1 DEF Deal, Moves, RewardedUnlock, Search, StartRoom
<1>12. CASE UNCHANGED <<store, syncs, buyer>>
  BY <1>1, <1>12 DEF SyncInv
<1> QED BY <1>3, <1>4, <1>6, <1>7, <1>8, <1>9, <1>10, <1>11, <1>12
     DEF Next, vars, Attach, Detach, HandleFrame, EnterRoom, LeaveRoom, OthersMove

-----------------------------------------------------------------------------
(* The rewards *)

BuyerRecords ==
    [held : Holdings, reward : Categories \cup {None}, cooldown : 0 .. RewardedCooldown,
     stage : {"home", "searching", "playing", "over"}, search : SUBSET Categories,
     onReward : BOOLEAN, credit : {0, 1}]

\* A reward not yet spent is one that was given, and whoever searches on a reward still has it.
RewardInv ==
    /\ store \in StoreRecords
    /\ syncs \in [Requests -> SyncRecords]
    /\ buyer \in BuyerRecords
    /\ buyer.reward # None => buyer.credit = 1
    /\ buyer.onReward => buyer.reward # None

\* A session that is new holds no reward.
LEMMA NewBuyerIsSound == NewBuyer \in BuyerRecords /\ NewBuyer.reward = None /\ ~NewBuyer.onReward
BY HoldingsLapse, TTLAssumption DEF NewBuyer, BuyerRecords

\* To be dealt into a match spends the reward, and pays for it if the match was chosen on it (useReward).
LEMMA DealtIsSound ==
    ASSUME NEW b \in BuyerRecords, b.reward # None => b.credit = 1, b.onReward => b.reward # None
    PROVE  Dealt(b) \in BuyerRecords /\ Dealt(b).reward = None /\ ~Dealt(b).onReward
<1>1. UseReward(b) \in BuyerRecords /\ UseReward(b).reward = None /\ UseReward(b).credit = b.credit
  BY DEF UseReward, BuyerRecords
<1>2. b.onReward => b.credit = 1
  OBVIOUS
<1> DEFINE u == UseReward(b)
<1> HIDE DEF u
<1>3. u \in BuyerRecords /\ u.reward = None /\ u.credit = b.credit
  BY <1>1 DEF u
<1> DEFINE left == IF b.onReward THEN u.credit - 1 ELSE u.credit
<1>4. Dealt(b) = [u EXCEPT !.stage = "playing", !.credit = left, !.onReward = FALSE]
  BY <1>3 DEF Dealt, u, BuyerRecords
<1>5. left \in {0, 1}
  BY <1>2, <1>3 DEF BuyerRecords
<1> HIDE DEF left
<1> QED BY <1>3, <1>4, <1>5 DEF BuyerRecords

\* What is chosen with a reward needs it (mayUse, May).
LEMMA ChosenIsSound ==
    ASSUME RewardInv, NEW categories \in SUBSET Categories, May(categories),
           NEW stage \in {"home", "searching", "playing", "over"}
    PROVE  LET b == Chosen(stage, categories)
           IN  /\ b \in BuyerRecords /\ b.reward = buyer.reward /\ b.credit = buyer.credit
               /\ b.onReward => b.reward # None
<1>1. buyer.reward = None => Allowed(buyer.held, categories)
  <2>1. None \notin Categories
    BY EntitlementsAssumption
  <2>2. buyer.reward = None => categories \ {buyer.reward} = categories
    BY <2>1
  <2> QED BY <2>2 DEF May, CategoriesAllowed
<1>2. buyer \in BuyerRecords /\ Allowed(buyer.held, categories) \in BOOLEAN
  BY DEF RewardInv, Allowed, Premium
<1> QED BY <1>1, <1>2 DEF Chosen, BuyerRecords

\* Whatever is bought, refunded, searched for, cancelled, dealt or forgotten, a match opened by
\* a reward is one the reward pays for.
LEMMA RewardInvHolds == RewardInv /\ SyncInv /\ [Next]_vars => RewardInv'
<1> SUFFICES ASSUME RewardInv, SyncInv, [Next]_vars PROVE RewardInv'
  OBVIOUS
<1>1. SyncInv'
  BY SyncInvHolds
<1>2. ASSUME buyer' \in BuyerRecords, buyer'.reward # None => buyer'.credit = 1,
             buyer'.onReward => buyer'.reward # None
      PROVE  RewardInv'
  BY <1>1, <1>2 DEF RewardInv, SyncInv
<1>3. CASE UNCHANGED buyer
  BY <1>2, <1>3 DEF RewardInv
<1>4. CASE buyer' = NewBuyer
  BY <1>2, <1>4, NewBuyerIsSound
<1>5. ASSUME NEW c \in Categories, RewardedUnlock(c) PROVE RewardInv'
  <2>1. \/ buyer' = buyer
        \/ buyer' = [buyer EXCEPT !.reward = c, !.cooldown = RewardedCooldown, !.credit = 1]
    BY <1>5 DEF RewardedUnlock
  <2>2. c # None /\ RewardedCooldown \in 0 .. RewardedCooldown
    BY EntitlementsAssumption, TTLAssumption
  <2> QED BY <1>2, <2>1, <2>2, ZenonT(60) DEF RewardInv, BuyerRecords
<1>6. ASSUME NEW categories \in SUBSET Categories, Search(categories) PROVE RewardInv'
  <2>1. buyer' = Chosen("searching", categories) /\ May(categories)
    BY <1>6 DEF Search
  <2> QED BY <1>2, <2>1, ChosenIsSound DEF RewardInv
<1>7. ASSUME NEW categories \in SUBSET Categories, StartRoom(categories) PROVE RewardInv'
  <2> DEFINE b == Chosen("home", categories)
  <2>1. b \in BuyerRecords /\ (b.reward # None => b.credit = 1) /\ (b.onReward => b.reward # None)
    BY <1>7, ChosenIsSound DEF StartRoom, RewardInv
  <2>2. buyer' = [Dealt(b) EXCEPT !.search = {}]
    BY <1>7 DEF StartRoom
  <2> HIDE DEF b
  <2>3. Dealt(b) \in BuyerRecords /\ Dealt(b).reward = None /\ ~Dealt(b).onReward
    BY <2>1, DealtIsSound
  <2>4. buyer' \in BuyerRecords /\ buyer'.reward = None /\ ~buyer'.onReward
    BY <2>2, <2>3 DEF BuyerRecords
  <2> QED BY <1>2, <2>4
<1>8. CASE Deal
  <2>1. Dealt(buyer) \in BuyerRecords /\ Dealt(buyer).reward = None /\ ~Dealt(buyer).onReward
    BY DealtIsSound DEF RewardInv
  <2> QED BY <1>2, <1>8, <2>1 DEF Deal
<1>9. CASE Moves
  <2>1. \/ buyer' = [buyer EXCEPT !.stage = "over"]
        \/ buyer' = [buyer EXCEPT !.stage = "home", !.search = {}, !.onReward = FALSE]
    BY <1>9 DEF Moves
  <2> QED BY <1>2, <2>1, ZenonT(60) DEF RewardInv, BuyerRecords
<1>10. CASE Elapse
  <2>1. buyer' = [buyer EXCEPT !.held = Lapsed(@), !.cooldown = IF @ > 0 THEN @ - 1 ELSE 0]
    BY <1>10 DEF Elapse
  <2>2. Lapsed(buyer.held) \in Holdings /\ buyer.cooldown \in 0 .. RewardedCooldown
    BY HoldingsLapse DEF RewardInv, BuyerRecords
  <2>3. (IF buyer.cooldown > 0 THEN buyer.cooldown - 1 ELSE 0) \in 0 .. RewardedCooldown
    BY <2>2, TTLAssumption
  <2> QED BY <1>2, <2>1, <2>2, <2>3 DEF RewardInv, BuyerRecords
<1>11. ASSUME NEW r \in Requests, SyncEnds(r) PROVE RewardInv'
  <2>1. \/ buyer' = buyer
        \/ buyer' = [buyer EXCEPT !.held = syncs[r].granted]
    BY <1>11 DEF SyncEnds, Synced
  <2>2. syncs[r].granted \in Holdings
    BY DEF SyncInv, SyncRecords
  <2> QED BY <1>2, <2>1, <2>2 DEF RewardInv, BuyerRecords
<1> QED BY <1>3, <1>4, <1>5, <1>6, <1>7, <1>8, <1>9, <1>10, <1>11
     DEF Next, vars, Create, Attach, Detach, HandleFrame, EnterRoom, LeaveRoom, OthersMove, StoreChanges,
         SyncStarts, SyncVerifies, Reap

-----------------------------------------------------------------------------
(* What the run checks for one device and small limits, for any limits, products and categories *)

\* The store is empty, nothing is under way and nobody has a reward.
LEMMA InitIsSound == Init => BucketsAlike /\ SyncInv /\ RewardInv
<1> SUFFICES ASSUME Init PROVE BucketsAlike /\ SyncInv /\ RewardInv
  OBVIOUS
<1>1. BucketsAlike
  BY DEF Init, Idle, BucketsAlike, SameOrFull, NoBucket, Buckets
<1>2. store \in StoreRecords /\ store.settled = {}
  BY HoldingsLapse DEF Init, StoreRecords
<1>3. syncs \in [Requests -> SyncRecords] /\ \A r \in Requests : Follows(syncs[r])
  BY NoSyncFollows DEF Init
<1>4. buyer \in BuyerRecords /\ buyer.reward = None /\ ~buyer.onReward
  BY NewBuyerIsSound DEF Init
<1>5. SyncInv
  BY <1>2, <1>3, <1>4 DEF SyncInv, SyncTakesEffect, BuyerRecords
<1> QED BY <1>1, <1>2, <1>3, <1>4, <1>5 DEF RewardInv

\* Nobody gains by having been swept (limits.go, sweep).
THEOREM SweepIsFair == Spec => []SweepGrantsNothing
<1>1. BucketsAlike => SweepGrantsNothing
  BY DEF BucketsAlike, SweepGrantsNothing, SameOrFull, NoBucket, Refilled
<1> QED BY <1>1, InitIsSound, BucketsStayAlike, PTL DEF Spec

\* A sync that ended has taken effect (monetization.go, syncEntitlements).
THEOREM SyncsTakeEffect == Spec => []SyncTakesEffect
<1>1. SyncInv => SyncTakesEffect
  BY DEF SyncInv
<1> QED BY <1>1, InitIsSound, SyncInvHolds, PTL DEF Spec

\* A reward opens one match (monetization.go, useReward).
THEOREM RewardsAreSpentOnce == Spec => []RewardOpensOneMatch
<1>1. RewardInv => RewardOpensOneMatch
  BY DEF RewardInv, RewardOpensOneMatch, BuyerRecords
<1> QED BY <1>1, InitIsSound, SyncInvHolds, RewardInvHolds, PTL DEF Spec
\* A command is answered from the cache exactly as long as its last run is young and recent
\* enough (ws.go, handleFrame and replyCache).
THEOREM RepeatsAreAnswered == Spec => []CacheKnowsWhatRan
<1>1. CacheInv => CacheKnowsWhatRan
  <2> SUFFICES ASSUME CacheInv, NEW id \in Ids
               PROVE  Get(commands.replies, id) <=>
                         commands.ran[id].age < ReplyCacheTTL /\ commands.ran[id].after < ReplyCacheSize
    BY DEF CacheKnowsWhatRan
  <2> DEFINE q == commands.replies.order
             N == Len(q)
             run == commands.ran[id]
  <2>1. /\ Known(commands.replies, commands.ran, id) /\ N <= ReplyCacheSize
        /\ run.age \in Ages /\ run.after \in 0 .. ReplyCacheSize /\ q \in Seq(Entries)
    BY DEF CacheInv, Tidy, Runs, Caches
  <2>2. N \in Nat /\ DOMAIN q = 1 .. N
    BY <2>1, EntriesOf
  <2>3. ASSUME NEW k \in 1 .. N, commands.replies.byID[id] = run.age,
               run.after = N - k \/ (run.after = ReplyCacheSize /\ N - k >= ReplyCacheSize)
        PROVE  Get(commands.replies, id) <=> run.age < ReplyCacheTTL /\ run.after < ReplyCacheSize
    <3> HIDE DEF N, run
    <3>1. run.after < ReplyCacheSize
      BY <2>1, <2>2, <2>3
    <3>2. run.age < ReplyCacheTTL <=> run.age \in 0 .. ReplyCacheTTL - 1
      BY <2>1 DEF Ages
    <3> QED BY <2>3, <3>1, <3>2 DEF Get
  <2>4. ASSUME commands.replies.byID[id] = NotCached, run.age = ReplyCacheTTL \/ run.after = ReplyCacheSize
        PROVE  Get(commands.replies, id) <=> run.age < ReplyCacheTTL /\ run.after < ReplyCacheSize
    <3>1. ~Get(commands.replies, id)
      BY <2>4 DEF Get, NotCached
    <3> QED BY <2>4, <3>1
  <2> QED BY <2>1, <2>2, <2>3, <2>4 DEF Known
<1>2. Init => CacheInv
  <2> SUFFICES ASSUME Init PROVE CacheInv
    OBVIOUS
  <2>1. /\ DOMAIN commands = {"replies", "bucket", "unswept", "ran"}
        /\ commands.replies = NoReplies /\ commands.ran = Idle(NoReplies).ran
    BY DEF Init, Idle
  <2> QED BY <2>1, IdleIsTidy DEF CacheInv
<1> QED BY <1>1, <1>2, CacheInvHolds, PTL DEF Spec
=============================================================================
