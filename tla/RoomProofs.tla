------------------------------ MODULE RoomProofs ------------------------------
(***************************************************************************)
(* A room keeps a host, times one who is away, and agrees with the match   *)
(* played in it, for any number of players and any capacity.               *)
(*                                                                         *)
(* First that taking players out of the join order leaves the others in    *)
(* theirs, which rests on counting; then one lemma for each method of the  *)
(* room, and one for each action.                                          *)
(***************************************************************************)
EXTENDS Room, FiniteSetTheorems, TLAPS

(* Places in the join order *)

\* Every set of natural numbers has a least one.
LEMMA LeastNatural ==
    ASSUME NEW S \in SUBSET Nat, S # {}
    PROVE  \E x \in S : \A y \in S : x <= y
<1> DEFINE R == OpToRel(<, Nat)
<1>1. IsWellFoundedOn(R, Nat)
  BY NatLessThanWellFounded
<1>2. \A x, y \in Nat : <<y, x>> \in R <=> y < x
  BY DEF OpToRel
<1> HIDE DEF R
<1>3. PICK x \in S : \A y \in S : ~ (<<y, x>> \in R)
  BY <1>1, WFMin
<1>4. \A y \in S : x \in Nat /\ y \in Nat /\ ~(y < x)
  BY <1>2, <1>3
<1>5. \A y \in S : x <= y
  BY <1>4
<1> QED BY <1>3, <1>5

LEMMA MinIsLeast ==
    ASSUME NEW S \in SUBSET Nat, S # {}
    PROVE  Min(S) \in S /\ \A y \in S : Min(S) <= y
BY LeastNatural DEF Min

\* How many places of S there are up to i.
Rank(S, i) == Cardinality({j \in S : j <= i})

LEMMA Ranks ==
    ASSUME NEW N \in Nat, NEW S \in SUBSET (1 .. N)
    PROVE  /\ IsFiniteSet(S) /\ Cardinality(S) \in Nat /\ Cardinality(S) <= N
           /\ \A i \in S : Rank(S, i) \in 1 .. Cardinality(S)
           /\ \A i, k \in S : i < k => Rank(S, i) < Rank(S, k)
<1>1. IsFiniteSet(1 .. N) /\ Cardinality(1 .. N) = N
  BY FS_Interval
<1>2. IsFiniteSet(S) /\ Cardinality(S) \in Nat /\ Cardinality(S) <= N
  BY <1>1, FS_Subset, FS_CardinalityType
<1>3. ASSUME NEW i \in S PROVE Rank(S, i) \in 1 .. Cardinality(S)
  <2> DEFINE upto == {j \in S : j <= i}
  <2>1. i \in upto /\ upto \subseteq S
    OBVIOUS
  <2>2. IsFiniteSet(upto) /\ Cardinality(upto) \in Nat /\ Cardinality(upto) <= Cardinality(S)
    BY <1>2, <2>1, FS_Subset, FS_CardinalityType
  <2>3. Cardinality(upto) # 0
    BY <2>1, <2>2, FS_EmptySet
  <2> QED BY <1>2, <2>2, <2>3 DEF Rank
<1>4. ASSUME NEW i \in S, NEW k \in S, i < k PROVE Rank(S, i) < Rank(S, k)
  <2> DEFINE less == {j \in S : j <= i}
             more == {j \in S : j <= k}
  <2>1. less \subseteq more /\ k \in more /\ k \notin less
    <3>1. i \in Int /\ k \in Int /\ ~(k <= i) /\ k <= k
      BY <1>4
    <3>2. \A j \in S : j <= i => j <= k
      BY <1>4
    <3> QED BY <3>1, <3>2
  <2>2. IsFiniteSet(more) /\ more \subseteq S
    BY <1>2, FS_Subset
  <2> HIDE DEF less, more
  <2>3. less \subseteq more \ {k} /\ IsFiniteSet(more \ {k}) /\ Cardinality(more \ {k}) = Cardinality(more) - 1
    BY <2>1, <2>2, FS_RemoveElement
  <2>4. Cardinality(less) <= Cardinality(more \ {k})
    BY <2>3, FS_Subset
  <2>5. Cardinality(less) \in Nat /\ Cardinality(more) \in Nat
    BY <2>1, <2>2, FS_Subset, FS_CardinalityType
  <2> QED BY <2>3, <2>4, <2>5 DEF Rank, less, more
<1> QED BY <1>2, <1>3, <1>4

\* Ranks number the places of S from 1 without gap, so that Nth finds each of them.
LEMMA NthPlace ==
    ASSUME NEW N \in Nat, NEW S \in SUBSET (1 .. N)
    PROVE  /\ \A n \in 1 .. Cardinality(S) : Nth(S, n) \in S /\ Rank(S, Nth(S, n)) = n
           /\ \A i \in S : Nth(S, Rank(S, i)) = i
<1> DEFINE count == Cardinality(S)
           rank == [i \in S |-> Rank(S, i)]
<1>1. IsFiniteSet(S) /\ count \in Nat
  BY Ranks
<1>2. \A i \in S : Rank(S, i) \in 1 .. count
  BY Ranks
<1>3. \A i, k \in S : Rank(S, i) = Rank(S, k) => i = k
  <2> SUFFICES ASSUME NEW i \in S, NEW k \in S, i # k PROVE Rank(S, i) # Rank(S, k)
    OBVIOUS
  <2>1. i < k \/ k < i
    OBVIOUS
  <2>2. Rank(S, i) < Rank(S, k) \/ Rank(S, k) < Rank(S, i)
    BY <2>1, Ranks
  <2>3. Rank(S, i) \in Int /\ Rank(S, k) \in Int
    BY <1>2
  <2> QED BY <2>2, <2>3
<1>4. rank \in Injection(S, 1 .. count)
  BY <1>2, <1>3 DEF Injection, IsInjective
<1>5. IsFiniteSet(1 .. count) /\ Cardinality(1 .. count) = count
  BY <1>1, FS_Interval
<1>6. rank \in Surjection(S, 1 .. count)
  BY <1>4, <1>5, FS_Injection
<1>7. \A n \in 1 .. count : \E i \in S : Rank(S, i) = n
  BY <1>6 DEF Surjection
<1>8. \A n \in 1 .. count : Nth(S, n) \in S /\ Rank(S, Nth(S, n)) = n
  BY <1>7 DEF Nth, Rank
<1>9. \A i \in S : Nth(S, Rank(S, i)) = i
  BY <1>2, <1>3, <1>8
<1> QED BY <1>8, <1>9

-----------------------------------------------------------------------------
(* The methods of the room *)

Distinct(members) == \A i, j \in DOMAIN members : members[i] = members[j] => i = j

\* Nobody gets ahead of a member: who stands before them now stood before them already.
Queues(old, new) ==
    \A n, k \in DOMAIN new :
        n < k /\ (\E i \in DOMAIN old : old[i] = new[k]) =>
            \E i, j \in DOMAIN old : i < j /\ old[i] = new[n] /\ old[j] = new[k]

\* The room as a value, whoever leads it.
Whole(r) == r \in Rooms /\ Distinct(r.members) /\ r.connected \subseteq Members(r)

LEMMA WholeMembers ==
    ASSUME NEW r, Whole(r)
    PROVE  /\ Len(r.members) \in Nat /\ DOMAIN r.members = 1 .. Len(r.members)
           /\ \A i \in DOMAIN r.members : r.members[i] \in Players /\ r.members[i] \in Members(r)
           /\ Members(r) \subseteq Players
           /\ r.members = <<>> <=> Len(r.members) = 0
           /\ r.members = <<>> <=> Members(r) = {}
<1>1. r.members \in Seq(Players)
  BY DEF Whole, Rooms
<1>2. /\ Len(r.members) \in Nat /\ DOMAIN r.members = 1 .. Len(r.members)
      /\ \A i \in DOMAIN r.members : r.members[i] \in Players
  BY <1>1
<1>3. r.members = <<>> <=> Len(r.members) = 0
  BY <1>1
<1>4. Len(r.members) # 0 => 1 \in DOMAIN r.members
  BY <1>2
<1>5. Len(r.members) = 0 => DOMAIN r.members = {}
  BY <1>2
<1>6. Members(r) = {} <=> DOMAIN r.members = {}
  BY DEF Members
<1> QED BY <1>2, <1>3, <1>4, <1>5, <1>6 DEF Members

LEMMA FunctionIsSeq ==
    ASSUME NEW T, NEW n \in Nat, NEW f \in [1 .. n -> T]
    PROVE  f \in Seq(T) /\ Len(f) = n /\ DOMAIN f = 1 .. n
<1>1. f \in Seq(T)
  OBVIOUS
<1>2. DOMAIN f = 1 .. n /\ DOMAIN f = 1 .. Len(f) /\ Len(f) \in Nat
  BY <1>1
<1> QED BY <1>1, <1>2

\* Taking players out leaves the others where they were in the join order, closed up.
LEMMA RemoveMembersIsWell ==
    ASSUME NEW r, Whole(r), NEW gone
    PROVE  LET new == RemoveMembers(r, gone)
           IN  /\ Whole(new)
               /\ Members(new) = Members(r) \ gone /\ new.connected = r.connected \ gone
               /\ Len(new.members) <= Len(r.members) /\ Queues(r.members, new.members)
               /\ Members(r) \cap gone = {} => new.members = r.members
               /\ new.host = r.host /\ new.hostTimer = r.hostTimer /\ new.pending = r.pending
               /\ new.capacity = r.capacity /\ new.locked = r.locked /\ new.inGame = r.inGame
<1> DEFINE old == r.members
           N == Len(old)
           stay == {i \in DOMAIN old : old[i] \notin gone}
           count == Cardinality(stay)
           seq == [n \in 1 .. count |-> old[Nth(stay, n)]]
           new == RemoveMembers(r, gone)
<1>1. /\ N \in Nat /\ DOMAIN old = 1 .. N /\ stay \in SUBSET (1 .. N)
      /\ \A i \in DOMAIN old : old[i] \in Players
  BY WholeMembers
<1>2. count \in Nat /\ count <= N
  BY <1>1, Ranks
<1>3. /\ \A n \in 1 .. count : Nth(stay, n) \in stay /\ Rank(stay, Nth(stay, n)) = n
      /\ \A i \in stay : Nth(stay, Rank(stay, i)) = i /\ Rank(stay, i) \in 1 .. count
  BY <1>1, Ranks, NthPlace
<1>4. new = [r EXCEPT !.members = seq, !.connected = r.connected \ gone]
  BY DEF RemoveMembers, Whole, Rooms
<1> HIDE DEF count
<1>5. seq \in Seq(Players) /\ Len(seq) = count /\ DOMAIN seq = 1 .. count
  <2>1. \A n \in 1 .. count : old[Nth(stay, n)] \in Players
    BY <1>1, <1>3
  <2>2. seq \in [1 .. count -> Players]
    BY <2>1
  <2> HIDE DEF seq
  <2> QED BY <1>2, <2>2, FunctionIsSeq
<1>6. \A n \in 1 .. count : seq[n] = old[Nth(stay, n)] /\ Nth(stay, n) \in DOMAIN old /\ seq[n] \notin gone
  BY <1>3
<1>7. Distinct(seq)
  <2>1. \A n, k \in 1 .. count : Nth(stay, n) = Nth(stay, k) => n = k
    BY <1>3
  <2>2. Distinct(old)
    BY DEF Whole
  <2> HIDE DEF old, seq
  <2> QED BY <1>5, <1>6, <2>1, <2>2 DEF Distinct
<1>8. {seq[n] : n \in DOMAIN seq} = {old[i] : i \in DOMAIN old} \ gone
  <2>1. \A i \in stay : \E n \in 1 .. count : seq[n] = old[i]
    BY <1>3
  <2> HIDE DEF seq
  <2>2. \A n \in DOMAIN seq : seq[n] \in {old[i] : i \in DOMAIN old} \ gone
    BY <1>5, <1>6
  <2>3. \A i \in DOMAIN old : old[i] \notin gone => \E n \in DOMAIN seq : seq[n] = old[i]
    BY <1>5, <2>1
  <2> QED BY <2>2, <2>3
<1>9. Members(r) \cap gone = {} => seq = old
  <2> SUFFICES ASSUME Members(r) \cap gone = {} PROVE seq = old
    OBVIOUS
  <2>1. stay = 1 .. N
    BY <1>1 DEF Members
  <2>2. \A i \in 1 .. N : {j \in 1 .. N : j <= i} = 1 .. i
    BY <1>1
  <2>3. \A i \in 1 .. N : Rank(stay, i) = i
    <3> SUFFICES ASSUME NEW i \in 1 .. N PROVE Cardinality({j \in 1 .. N : j <= i}) = i
      BY <2>1 DEF Rank
    <3>1. i \in Nat /\ i > 0
      BY <1>1
    <3>2. Cardinality(1 .. i) = i
      BY <3>1, FS_Interval
    <3> QED BY <2>2, <3>2
  <2>4. count = N
    <3>1. Cardinality(1 .. N) = IF 1 > N THEN 0 ELSE N - 1 + 1
      BY <1>1, FS_Interval
    <3> HIDE DEF N
    <3>2. Cardinality(1 .. N) = N
      BY <1>1, <3>1
    <3> QED BY <2>1, <3>2 DEF count
  <2>5. \A n \in 1 .. N : Nth(stay, n) = n
    BY <1>3, <2>1, <2>3, <2>4
  <2>6. \A n \in 1 .. N : seq[n] = old[n]
    BY <2>4, <2>5
  <2>7. old \in Seq(Players)
    BY DEF Whole, Rooms
  <2> HIDE DEF seq, old
  <2> QED BY <1>1, <1>5, <2>4, <2>6, <2>7
<1>13. Queues(old, seq)
  <2>1. \A n, k \in 1 .. count : n < k => Nth(stay, n) < Nth(stay, k)
    <3> SUFFICES ASSUME NEW n \in 1 .. count, NEW k \in 1 .. count, n < k, ~(Nth(stay, n) < Nth(stay, k)) PROVE FALSE
      OBVIOUS
    <3> DEFINE i == Nth(stay, n)
               j == Nth(stay, k)
    <3>1. i \in stay /\ j \in stay /\ Rank(stay, i) = n /\ Rank(stay, j) = k
      BY <1>3
    <3> HIDE DEF i, j
    <3>2. n \in Int /\ k \in Int /\ i \in Int /\ j \in Int
      BY <1>1, <3>1
    <3>3. i = j \/ j < i
      BY <3>2 DEF i, j
    <3>4. j < i => Rank(stay, j) < Rank(stay, i)
      BY <1>1, <3>1, Ranks
    <3> QED BY <3>1, <3>2, <3>3, <3>4
  <2> HIDE DEF seq, old, stay
  <2> QED BY <1>5, <1>6, <2>1 DEF Queues
<1> HIDE DEF seq
<1>10. /\ new \in Rooms /\ new.members = seq /\ new.connected = r.connected \ gone
       /\ new.host = r.host /\ new.hostTimer = r.hostTimer /\ new.pending = r.pending
       /\ new.capacity = r.capacity /\ new.locked = r.locked /\ new.inGame = r.inGame
  BY <1>4, <1>5 DEF Whole, Rooms
<1>11. Members(new) = Members(r) \ gone
  BY <1>8, <1>10 DEF Members
<1>12. new.connected \subseteq Members(new)
  BY <1>10, <1>11 DEF Whole
<1> HIDE DEF new
<1> QED BY <1>2, <1>5, <1>7, <1>9, <1>10, <1>11, <1>12, <1>13 DEF Whole, new

\* What RoomHasHost and AbsentHostIsTimed say of a room as a value.
Led(r) ==
    /\ IF r.host # None THEN r.host \in Members(r) /\ r.pending = None
       ELSE r.members = <<>> \/ (r.pending # None /\ r.connected \subseteq {r.pending})
    /\ r.hostTimer # "off" <=> r.host # None /\ r.host \notin r.connected

From(r) == IF r.host # None THEN r.host ELSE r.pending

\* The one who comes next in the room new, when `from' is replaced.
Heir(new, from) ==
    LET ready == {i \in DOMAIN new.members : new.members[i] \in new.connected \ {from}}
    IN  new.members[IF ready = {} THEN 1 ELSE Min(ready)]

\* Whatever transferHost finds, it leaves the room led, and hands it to nobody but the heir.
LEMMA TransferIsWell ==
    ASSUME NEW r, Whole(r), NEW reason,
           reason = "host_timeout" => From(r) # None,
           reason # "host_timeout" => From(r) \notin Members(r)
    PROVE  LET new == TransferHost(r, reason)
           IN  /\ Whole(new) /\ Led(new)
               /\ new.members = r.members /\ new.connected = r.connected
               /\ new.capacity = r.capacity /\ new.locked = r.locked /\ new.inGame = r.inGame
               /\ new.host # None => new.host = Heir(new, From(r)) /\ new.host # From(r)
<1> DEFINE from == From(r)
           cleared == [r EXCEPT !.hostTimer = "off", !.pending = None]
           ready == {i \in DOMAIN r.members : r.members[i] \in r.connected \ {from}}
           HandTo(to) == [cleared EXCEPT !.host = to, !.hostTimer = IF to \in r.connected THEN "off" ELSE "running"]
           new == TransferHost(r, reason)
<1>1. new = IF ready # {} THEN HandTo(r.members[Min(ready)])
            ELSE IF reason = "host_timeout" THEN [cleared EXCEPT !.host = None, !.pending = from]
            ELSE IF r.members = <<>> THEN [cleared EXCEPT !.host = None]
            ELSE HandTo(r.members[1])
  BY DEF TransferHost, From, Whole, Rooms
<1>2. /\ Len(r.members) \in Nat /\ DOMAIN r.members = 1 .. Len(r.members)
      /\ \A i \in DOMAIN r.members : r.members[i] \in Players /\ r.members[i] \in Members(r)
      /\ r.members = <<>> <=> Len(r.members) = 0
      /\ r.members = <<>> <=> Members(r) = {}
      /\ r \in Rooms /\ r.connected \subseteq Members(r) /\ Distinct(r.members)
  BY WholeMembers DEF Whole
<1>3. from \in Players \cup {None}
  BY <1>2 DEF From, Rooms
<1>4. ASSUME NEW to \in Members(r)
      PROVE  LET n == HandTo(to)
             IN  /\ Whole(n) /\ Led(n) /\ n.host = to
                 /\ n.members = r.members /\ n.connected = r.connected
                 /\ n.capacity = r.capacity /\ n.locked = r.locked /\ n.inGame = r.inGame
  <2> DEFINE n == HandTo(to)
  <2>1. to \in Players /\ to # None
    BY <1>2, NoneAssumption DEF Members
  <2>2. /\ n \in Rooms /\ n.host = to /\ n.pending = None
        /\ n.hostTimer = (IF to \in r.connected THEN "off" ELSE "running")
        /\ n.members = r.members /\ n.connected = r.connected
        /\ n.capacity = r.capacity /\ n.locked = r.locked /\ n.inGame = r.inGame
    BY <1>2, <2>1 DEF Rooms
  <2> HIDE DEF n
  <2>3. Members(n) = Members(r)
    BY <2>2 DEF Members
  <2>4. Whole(n) /\ Led(n)
    BY <1>2, <2>1, <2>2, <2>3 DEF Whole, Led
  <2> QED BY <2>2, <2>4 DEF n
<1>5. ASSUME NEW pending \in Players \cup {None}
      PROVE  LET n == [cleared EXCEPT !.host = None, !.pending = pending]
             IN  /\ n \in Rooms /\ n.host = None /\ n.pending = pending /\ n.hostTimer = "off"
                 /\ n.members = r.members /\ n.connected = r.connected
                 /\ n.capacity = r.capacity /\ n.locked = r.locked /\ n.inGame = r.inGame
  BY <1>2, <1>5 DEF Rooms
<1>6. CASE ready # {}
  <2> DEFINE to == r.members[Min(ready)]
  <2>1. ready \subseteq Nat
    BY <1>2
  <2>2. Min(ready) \in ready
    BY <1>6, <2>1, MinIsLeast
  <2>3. to \in Members(r) /\ to # from
    BY <1>2, <2>2
  <2>4. new = HandTo(to)
    BY <1>1, <1>6
  <2> HIDE DEF HandTo, new
  <2>5. /\ Whole(new) /\ Led(new) /\ new.host = to
        /\ new.members = r.members /\ new.connected = r.connected
        /\ new.capacity = r.capacity /\ new.locked = r.locked /\ new.inGame = r.inGame
    BY <1>4, <2>3, <2>4
  <2>6. new.host = Heir(new, from)
    BY <1>6, <2>5 DEF Heir
  <2> QED BY <2>3, <2>5, <2>6 DEF new
<1>7. CASE ready = {} /\ reason = "host_timeout"
  <2>1. new = [cleared EXCEPT !.host = None, !.pending = from]
    BY <1>1, <1>7
  <2> HIDE DEF new, cleared
  <2>2. /\ new \in Rooms /\ new.host = None /\ new.pending = from /\ new.hostTimer = "off"
        /\ new.members = r.members /\ new.connected = r.connected
        /\ new.capacity = r.capacity /\ new.locked = r.locked /\ new.inGame = r.inGame
    BY <1>3, <1>5, <2>1
  <2>3. Members(new) = Members(r)
    BY <2>2 DEF Members
  <2>4. r.connected \subseteq {from}
    BY <1>2, <1>7 DEF Members
  <2>5. Whole(new) /\ Led(new)
    BY <1>2, <1>7, <2>2, <2>3, <2>4 DEF Whole, Led
  <2> QED BY <2>2, <2>5 DEF new
<1>8. CASE ready = {} /\ reason # "host_timeout" /\ r.members = <<>>
  <2>1. new = [cleared EXCEPT !.host = None]
    BY <1>1, <1>8
  <2>2. /\ new \in Rooms /\ new.host = None /\ new.hostTimer = "off"
        /\ new.members = r.members /\ new.connected = r.connected
        /\ new.capacity = r.capacity /\ new.locked = r.locked /\ new.inGame = r.inGame
    BY <1>2, <2>1 DEF Rooms
  <2> HIDE DEF new
  <2>3. Members(new) = Members(r)
    BY <2>2 DEF Members
  <2>4. Whole(new) /\ Led(new)
    BY <1>2, <1>8, <2>2, <2>3 DEF Whole, Led
  <2> QED BY <2>2, <2>4 DEF new
<1>9. CASE ready = {} /\ reason # "host_timeout" /\ r.members # <<>>
  <2> DEFINE to == r.members[1]
  <2>1. to \in Members(r)
    BY <1>2, <1>9
  <2>2. new = HandTo(to) /\ to # from
    BY <1>1, <1>9, <2>1
  <2> HIDE DEF HandTo, new, to
  <2>3. /\ Whole(new) /\ Led(new) /\ new.host = to
        /\ new.members = r.members /\ new.connected = r.connected
        /\ new.capacity = r.capacity /\ new.locked = r.locked /\ new.inGame = r.inGame
    BY <1>4, <2>1, <2>2
  <2>4. new.host = Heir(new, from)
    BY <1>9, <2>3 DEF Heir, to
  <2> QED BY <2>2, <2>3, <2>4 DEF new
<1> QED BY <1>6, <1>7, <1>8, <1>9

\* Who replaces the host of r replaces the one whom From names, and nobody else.
Fair(r, new) ==
    /\ r.host \in r.connected /\ r.host \in Members(new) => new.host = r.host
    /\ new.host \notin {None, r.host} => new.host = Heir(new, r.pending) /\ new.host # r.pending

LEMMA FairWhenReplaced ==
    ASSUME NEW r, NEW new, Led(r), Whole(new),
           r.host # None => r.host \notin new.connected /\ (r.host \notin r.connected \/ r.host \notin Members(new)),
           new.host # None => new.host = Heir(new, From(r)) /\ new.host # From(r),
           r.host = None => r.host \notin r.connected
    PROVE  Fair(r, new)
<1>1. r.host \in r.connected => r.host \notin Members(new)
  OBVIOUS
<1>2. SUFFICES ASSUME new.host # None, new.host # r.host
               PROVE  new.host = Heir(new, r.pending) /\ new.host # r.pending
  BY <1>1 DEF Fair
<1>3. CASE r.host = None
  BY <1>2, <1>3 DEF From
<1>4. CASE r.host # None
  <2>1. From(r) = r.host /\ r.pending = None
    BY <1>4 DEF From, Led
  <2>2. \A i \in DOMAIN new.members : new.members[i] # None
    BY WholeMembers, NoneAssumption
  <2>3. \A i \in DOMAIN new.members :
           new.members[i] \in new.connected \ {r.host} <=> new.members[i] \in new.connected \ {None}
    BY <1>4, <2>2
  <2>4. {i \in DOMAIN new.members : new.members[i] \in new.connected \ {r.host}} =
           {i \in DOMAIN new.members : new.members[i] \in new.connected \ {None}}
    BY <2>3
  <2>5. Heir(new, r.host) = Heir(new, None)
    BY <2>4 DEF Heir
  <2> QED BY <1>2, <2>1, <2>5
<1> QED BY <1>3, <1>4

\* After the match has removed players who are offline, the room is led again; when it removed
\* nobody, only inGame may have changed.
LEMMA SyncIsWell ==
    ASSUME NEW r, Whole(r), Led(r), NEW gone \in SUBSET Players, gone \cap r.connected = {}
    PROVE  LET new == SyncGame(r, gone)
           IN  /\ Whole(new) /\ Led(new) /\ Fair(r, new)
               /\ Members(new) = Members(r) \ gone /\ new.connected = r.connected
               /\ Len(new.members) <= Len(r.members) /\ Queues(r.members, new.members)
               /\ new.capacity = r.capacity /\ new.locked = r.locked
               /\ new.inGame <=> r.inGame /\ ~over'
               /\ gone = {} => new.members = r.members /\ new.host = r.host
<1> DEFINE left == RemoveMembers(r, gone)
           handed == IF r.host \in gone THEN TransferHost(left, "host_removed") ELSE left
           new == SyncGame(r, gone)
<1>1. new = [handed EXCEPT !.inGame = handed.inGame /\ ~over']
  BY DEF SyncGame, Expelled
<1>2. /\ Whole(left)
      /\ Members(left) = Members(r) \ gone /\ left.connected = r.connected \ gone
      /\ Len(left.members) <= Len(r.members) /\ Queues(r.members, left.members)
      /\ Members(r) \cap gone = {} => left.members = r.members
      /\ left.host = r.host /\ left.hostTimer = r.hostTimer /\ left.pending = r.pending
      /\ left.capacity = r.capacity /\ left.locked = r.locked /\ left.inGame = r.inGame
  BY RemoveMembersIsWell
<1> HIDE DEF left
<1>3. left.connected = r.connected
  BY <1>2
<1>4. /\ Whole(handed) /\ Led(handed) /\ Fair(r, handed)
      /\ handed.members = left.members /\ handed.connected = left.connected
      /\ handed.capacity = left.capacity /\ handed.locked = left.locked /\ handed.inGame = left.inGame
      /\ gone = {} => handed.host = r.host
  <2>1. CASE r.host \notin gone
    <3>1. handed = left
      BY <2>1
    <3>2. r.host # None => r.host \in Members(left)
      BY <1>2, <2>1 DEF Led
    <3>3. r.members = <<>> => left.members = <<>>
      BY <1>2, WholeMembers
    <3>4. Led(left)
      BY <1>2, <1>3, <3>2, <3>3 DEF Led
    <3>5. Fair(r, left)
      BY <1>2 DEF Fair
    <3> QED BY <1>2, <3>1, <3>4, <3>5
  <2>2. CASE r.host \in gone
    <3>1. handed = TransferHost(left, "host_removed")
      BY <2>2
    <3>2. r.host # None
      BY <2>2, NoneAssumption
    <3>3. From(left) = r.host /\ From(left) \notin Members(left)
      BY <1>2, <2>2, <3>2 DEF From
    <3> HIDE DEF handed
    <3>4. /\ Whole(handed) /\ Led(handed)
          /\ handed.members = left.members /\ handed.connected = left.connected
          /\ handed.capacity = left.capacity /\ handed.locked = left.locked /\ handed.inGame = left.inGame
          /\ handed.host # None => handed.host = Heir(handed, From(left)) /\ handed.host # From(left)
      BY <1>2, <3>1, <3>3, TransferIsWell
    <3>5. From(r) = From(left) /\ r.host \notin handed.connected /\ r.host \notin r.connected
      BY <1>3, <2>2, <3>2, <3>3, <3>4 DEF From
    <3>6. Fair(r, handed)
      BY <3>2, <3>4, <3>5, FairWhenReplaced
    <3> QED BY <2>2, <3>4, <3>6
  <2> QED BY <2>1, <2>2
<1> HIDE DEF handed
<1>5. /\ new \in Rooms /\ new.members = handed.members /\ new.connected = handed.connected
      /\ new.host = handed.host /\ new.hostTimer = handed.hostTimer /\ new.pending = handed.pending
      /\ new.capacity = handed.capacity /\ new.locked = handed.locked
      /\ new.inGame <=> handed.inGame /\ ~over'
  BY <1>1, <1>4 DEF Whole, Rooms
<1> HIDE DEF new
<1>6. Members(new) = Members(handed) /\ Members(handed) = Members(left)
  BY <1>4, <1>5 DEF Members
<1>7. Whole(new) /\ Led(new)
  BY <1>4, <1>5, <1>6 DEF Whole, Led
<1>8. Heir(new, r.pending) = Heir(handed, r.pending)
  BY <1>5 DEF Heir
<1>9. Fair(r, new)
  BY <1>4, <1>5, <1>6, <1>8 DEF Fair
<1>10. gone = {} => new.members = r.members
  BY <1>2, <1>4, <1>5
<1> QED BY <1>2, <1>3, <1>4, <1>5, <1>6, <1>7, <1>9, <1>10 DEF new

-----------------------------------------------------------------------------
(* The invariant *)

\* A room that is not locked yet has had nobody but its creator.
Fits(r) == Len(r.members) <= r.capacity /\ (~r.locked => Len(r.members) <= 1)

MatchOK == present \subseteq Players /\ online \subseteq present /\ over \in BOOLEAN

IInv == Whole(room) /\ Led(room) /\ Fits(room) /\ MatchOK /\ SeatedTogether

\* What every step does.
Stays == IInv' /\ Fair(room, room') /\ Queues(room.members, room'.members)

LEMMA Basics ==
    ASSUME IInv
    PROVE  /\ room \in Rooms /\ room.capacity \in Nat /\ room.capacity >= 1
           /\ room.locked \in BOOLEAN /\ room.inGame \in BOOLEAN
           /\ Len(room.members) \in Nat
           /\ Members(room) \subseteq Players /\ room.connected \subseteq Members(room)
<1>1. Whole(room)
  BY DEF IInv
<1>2. /\ room \in Rooms /\ room.capacity \in Capacities /\ room.locked \in BOOLEAN
      /\ room.inGame \in BOOLEAN /\ room.connected \subseteq Members(room)
  BY <1>1 DEF Whole, Rooms
<1>3. room.capacity \in Nat /\ room.capacity >= 1
  BY <1>2, CapacityAssumption DEF Capacities
<1>4. Len(room.members) \in Nat /\ Members(room) \subseteq Players
  BY <1>1, WholeMembers
<1> QED BY <1>2, <1>3, <1>4

LEMMA QueuesAlike == ASSUME NEW old PROVE Queues(old, old)
BY DEF Queues

\* A step that leaves the members, the host and the match alone.
LEMMA Alike ==
    ASSUME IInv, UNCHANGED match, Whole(room'), Led(room'), Fits(room'),
           room'.members = room.members, room'.connected = room.connected,
           room'.host = room.host, room'.inGame = room.inGame
    PROVE  Stays
<1>1. Queues(room.members, room'.members)
  BY QueuesAlike
<1>2. Fair(room, room')
  BY DEF Fair
<1>3. Members(room') = Members(room)
  BY DEF Members
<1>4. MatchOK' /\ SeatedTogether'
  BY <1>3 DEF IInv, MatchOK, SeatedTogether, match
<1> QED BY <1>1, <1>2, <1>4 DEF Stays, IInv

LEMMA InitIInv == Init => IInv
<1> SUFFICES ASSUME Init PROVE IInv
  OBVIOUS
<1>1. PICK p \in Players, capacity \in Capacities : room = NewRoom(p, capacity)
  BY DEF Init
<1>2. /\ room.members = <<p>> /\ room.connected = {p} /\ room.host = p /\ room.hostTimer = "off"
      /\ room.pending = None /\ room.capacity = capacity /\ room.locked = FALSE /\ room.inGame = FALSE
  BY <1>1 DEF NewRoom
<1>3. <<p>> \in Seq(Players) /\ Len(<<p>>) = 1 /\ DOMAIN <<p>> = {1} /\ <<p>>[1] = p
  OBVIOUS
<1>4. room \in Rooms
  BY <1>1, <1>3 DEF NewRoom, Rooms
<1>5. Members(room) = {p} /\ Distinct(room.members)
  BY <1>2, <1>3 DEF Members, Distinct
<1>6. Whole(room)
  BY <1>2, <1>4, <1>5 DEF Whole
<1>7. Led(room)
  BY <1>2, <1>5, NoneAssumption DEF Led
<1>8. Fits(room)
  BY <1>2, <1>3, CapacityAssumption DEF Fits, Capacities
<1>9. MatchOK /\ SeatedTogether
  BY <1>2 DEF Init, MatchOK, SeatedTogether
<1> QED BY <1>6, <1>7, <1>8, <1>9 DEF IInv

-----------------------------------------------------------------------------
(* Time *)

LEMMA MatchMovesStays == IInv /\ MatchMoves => Stays
<1> SUFFICES ASSUME IInv, MatchMoves PROVE Stays
  OBVIOUS
<1>1. PICK gone \in SUBSET (present \ online) : Match!Remove(gone) /\ room' = SyncGame(room, gone)
  BY DEF MatchMoves
<1>2. room.inGame /\ ~over /\ Members(room) = present /\ room.connected = online
  BY DEF MatchMoves, IInv, SeatedTogether
<1>3. gone \in SUBSET Players /\ gone \cap room.connected = {}
  BY <1>2 DEF IInv, MatchOK
<1>4. /\ Whole(room') /\ Led(room') /\ Fair(room, room')
      /\ Members(room') = Members(room) \ gone /\ room'.connected = room.connected
      /\ Len(room'.members) <= Len(room.members) /\ Queues(room.members, room'.members)
      /\ room'.capacity = room.capacity /\ room'.locked = room.locked
      /\ room'.inGame <=> room.inGame /\ ~over'
  BY <1>1, <1>3, SyncIsWell DEF IInv
<1>5. Len(room'.members) \in Nat
  BY <1>4, WholeMembers
<1>6. Fits(room')
  BY <1>4, <1>5, Basics DEF IInv, Fits
<1>7. MatchOK'
  BY <1>1, <1>3 DEF IInv, MatchOK, Match!Remove, Match!MayEnd
<1>8. SeatedTogether'
  BY <1>1, <1>2, <1>4 DEF SeatedTogether, Match!Remove
<1> QED BY <1>4, <1>6, <1>7, <1>8 DEF IInv, Stays

LEMMA HostTimerRunsStays == IInv /\ HostTimerRuns => Stays
<1> SUFFICES ASSUME IInv, HostTimerRuns PROVE Stays
  OBVIOUS
<1>1. room' = [room EXCEPT !.hostTimer = "due"] /\ room.hostTimer = "running" /\ UNCHANGED match
  BY DEF HostTimerRuns
<1>2. /\ room' \in Rooms /\ room'.members = room.members /\ room'.connected = room.connected
      /\ room'.host = room.host /\ room'.hostTimer = "due" /\ room'.pending = room.pending
      /\ room'.capacity = room.capacity /\ room'.locked = room.locked /\ room'.inGame = room.inGame
  BY <1>1, Basics DEF Rooms
<1>3. Members(room') = Members(room)
  BY <1>2 DEF Members
<1>4. Whole(room') /\ Led(room') /\ Fits(room')
  BY <1>1, <1>2, <1>3 DEF IInv, Whole, Led, Fits
<1> QED BY <1>1, <1>2, <1>4, Alike

LEMMA HostTimeoutStays == IInv /\ HostTimeout => Stays
<1> SUFFICES ASSUME IInv, HostTimeout PROVE Stays
  OBVIOUS
<1>1. room' = TransferHost(room, "host_timeout") /\ room.hostTimer = "due" /\ UNCHANGED match
  BY DEF HostTimeout
<1>2. room.host # None /\ room.host \notin room.connected /\ From(room) = room.host
  BY <1>1 DEF IInv, Led, From
<1>3. /\ Whole(room') /\ Led(room')
      /\ room'.members = room.members /\ room'.connected = room.connected
      /\ room'.capacity = room.capacity /\ room'.locked = room.locked /\ room'.inGame = room.inGame
      /\ room'.host # None => room'.host = Heir(room', From(room)) /\ room'.host # From(room)
  BY <1>1, <1>2, TransferIsWell DEF IInv
<1>4. Fair(room, room')
  BY <1>2, <1>3, FairWhenReplaced DEF IInv
<1>5. Queues(room.members, room'.members) /\ Members(room') = Members(room)
  BY <1>3, QueuesAlike DEF Members
<1>6. Fits(room')
  BY <1>3 DEF IInv, Fits
<1>7. MatchOK' /\ SeatedTogether'
  BY <1>1, <1>3, <1>5 DEF IInv, MatchOK, SeatedTogether, match
<1> QED BY <1>3, <1>4, <1>5, <1>6, <1>7 DEF IInv, Stays

-----------------------------------------------------------------------------
(* Commands *)

LEMMA UpdateSettingsStays ==
    ASSUME NEW p \in Players, NEW capacity \in Capacities, IInv, UpdateSettings(p, capacity)
    PROVE  Stays
<1>1. room' = [room EXCEPT !.capacity = capacity] /\ ~room.locked /\ UNCHANGED match
  BY DEF UpdateSettings
<1>2. /\ room' \in Rooms /\ room'.members = room.members /\ room'.connected = room.connected
      /\ room'.host = room.host /\ room'.hostTimer = room.hostTimer /\ room'.pending = room.pending
      /\ room'.capacity = capacity /\ room'.locked = room.locked /\ room'.inGame = room.inGame
  BY <1>1, Basics DEF Rooms
<1>3. Members(room') = Members(room)
  BY <1>2 DEF Members
<1>4. Whole(room') /\ Led(room')
  BY <1>2, <1>3 DEF IInv, Whole, Led
<1>5. capacity \in Int /\ capacity >= 1 /\ Len(room.members) \in Nat /\ Len(room.members) <= 1
  BY <1>1, Basics, CapacityAssumption DEF IInv, Fits, Capacities
<1>6. Fits(room')
  BY <1>2, <1>5 DEF Fits
<1> QED BY <1>1, <1>2, <1>4, <1>6, Alike

LEMMA StartMatchStays == IInv /\ ~room.inGame /\ StartMatch => Stays
<1> SUFFICES ASSUME IInv, ~room.inGame, StartMatch PROVE Stays
  OBVIOUS
<1>1. /\ room' = [room EXCEPT !.inGame = TRUE]
      /\ present' = Members(room) /\ online' = room.connected /\ over' = FALSE
  BY DEF StartMatch
<1>2. /\ room' \in Rooms /\ room'.members = room.members /\ room'.connected = room.connected
      /\ room'.host = room.host /\ room'.hostTimer = room.hostTimer /\ room'.pending = room.pending
      /\ room'.capacity = room.capacity /\ room'.locked = room.locked /\ room'.inGame = TRUE
  BY <1>1, Basics DEF Rooms
<1>3. Members(room') = Members(room)
  BY <1>2 DEF Members
<1>4. Whole(room') /\ Led(room') /\ Fits(room')
  BY <1>2, <1>3 DEF IInv, Whole, Led, Fits
<1>5. MatchOK' /\ SeatedTogether'
  BY <1>1, <1>2, <1>3, Basics DEF MatchOK, SeatedTogether
<1>6. Fair(room, room') /\ Queues(room.members, room'.members)
  BY <1>2, QueuesAlike DEF Fair
<1> QED BY <1>4, <1>5, <1>6 DEF IInv, Stays

LEMMA StartStays == ASSUME NEW p \in Players, IInv, Start(p) PROVE Stays
BY StartMatchStays DEF Start, HostInLobby

LEMMA StartByServerStays == IInv /\ StartByServer => Stays
BY StartMatchStays DEF StartByServer

LEMMA KickStays ==
    ASSUME NEW p \in Players, NEW other \in Players, IInv, Kick(p, other)
    PROVE  Stays
<1>1. /\ room' = RemoveMembers(room, {other}) /\ UNCHANGED match
      /\ p = room.host /\ ~room.inGame /\ other \in Members(room) \ {p}
  BY DEF Kick, HostInLobby
<1>2. /\ Whole(room')
      /\ Members(room') = Members(room) \ {other} /\ room'.connected = room.connected \ {other}
      /\ Len(room'.members) <= Len(room.members) /\ Queues(room.members, room'.members)
      /\ room'.host = room.host /\ room'.hostTimer = room.hostTimer /\ room'.pending = room.pending
      /\ room'.capacity = room.capacity /\ room'.locked = room.locked /\ room'.inGame = room.inGame
  BY <1>1, RemoveMembersIsWell DEF IInv
<1>3. room.host # None
  BY <1>1, NoneAssumption
<1>4. Led(room')
  BY <1>1, <1>2, <1>3 DEF IInv, Led
<1>5. Len(room'.members) \in Nat
  BY <1>2, WholeMembers
<1>6. Fits(room')
  BY <1>2, <1>5, Basics DEF IInv, Fits
<1>7. MatchOK' /\ SeatedTogether'
  BY <1>1, <1>2 DEF IInv, MatchOK, SeatedTogether, match
<1>8. Fair(room, room')
  BY <1>2 DEF Fair
<1> QED BY <1>2, <1>4, <1>6, <1>7, <1>8 DEF IInv, Stays

\* Who joins comes last.
LEMMA AppendIsWell ==
    ASSUME NEW r, Whole(r), NEW p \in Players, p \notin Members(r)
    PROVE  LET new == [r EXCEPT !.members = Append(@, p), !.connected = @ \cup {p}, !.locked = TRUE]
           IN  /\ Whole(new)
               /\ Members(new) = Members(r) \cup {p} /\ new.connected = r.connected \cup {p}
               /\ Len(new.members) = Len(r.members) + 1 /\ new.members[Len(r.members) + 1] = p
               /\ Queues(r.members, new.members)
               /\ new.host = r.host /\ new.hostTimer = r.hostTimer /\ new.pending = r.pending
               /\ new.capacity = r.capacity /\ new.locked = TRUE /\ new.inGame = r.inGame
<1> DEFINE old == r.members
           N == Len(old)
           seq == Append(old, p)
           new == [r EXCEPT !.members = Append(@, p), !.connected = @ \cup {p}, !.locked = TRUE]
<1>1. /\ old \in Seq(Players) /\ N \in Nat /\ DOMAIN old = 1 .. N
      /\ \A i \in 1 .. N : old[i] \in Members(r)
      /\ Members(r) \subseteq Players
  BY WholeMembers DEF Whole, Rooms
<1>2. seq \in Seq(Players) /\ Len(seq) = N + 1 /\ DOMAIN seq = 1 .. N + 1
  BY <1>1
<1>3. (\A i \in 1 .. N : seq[i] = old[i]) /\ seq[N + 1] = p
  BY <1>1
<1>4. \A i \in 1 .. N + 1 : i \in 1 .. N \/ i = N + 1
  BY <1>1
<1> HIDE DEF old, N, seq
<1>5. /\ new \in Rooms /\ new.members = seq /\ new.connected = r.connected \cup {p}
      /\ new.host = r.host /\ new.hostTimer = r.hostTimer /\ new.pending = r.pending
      /\ new.capacity = r.capacity /\ new.locked = TRUE /\ new.inGame = r.inGame
  <2>1. r \in Rooms /\ r.connected \in SUBSET Players
    BY DEF Whole, Rooms
  <2>2. r.connected \cup {p} \in SUBSET Players
    BY <2>1
  <2> QED BY <1>2, <2>1, <2>2 DEF Rooms, seq, old
<1> HIDE DEF new
<1>6. Distinct(seq)
  <2>1. Distinct(old)
    BY DEF Whole, old
  <2>2. \A i \in 1 .. N : seq[i] # p
    BY <1>1, <1>3
  <2> QED BY <1>1, <1>2, <1>3, <1>4, <2>1, <2>2 DEF Distinct
<1>7. Members(new) = Members(r) \cup {p}
  <2>1. Members(new) = {seq[i] : i \in 1 .. N + 1}
    BY <1>2, <1>5 DEF Members
  <2>2. Members(r) = {old[i] : i \in 1 .. N}
    BY <1>1 DEF Members, old
  <2>3. N + 1 \in 1 .. N + 1 /\ \A i \in 1 .. N : i \in 1 .. N + 1
    BY <1>1
  <2> QED BY <1>3, <1>4, <2>1, <2>2, <2>3
<1>8. Queues(old, seq)
  <2>1. \A k \in 1 .. N + 1 : (\E i \in 1 .. N : old[i] = seq[k]) => k \in 1 .. N
    <3>1. \A i \in 1 .. N : old[i] # seq[N + 1]
      BY <1>1, <1>3 DEF old, N
    <3> QED BY <1>4, <3>1
  <2>2. \A n, k \in 1 .. N + 1 : n < k /\ k \in 1 .. N => n \in 1 .. N
    BY <1>1
  <2>3. \A n, k \in 1 .. N + 1 :
           n < k /\ (\E i \in 1 .. N : old[i] = seq[k]) =>
              n \in 1 .. N /\ k \in 1 .. N /\ n < k /\ old[n] = seq[n] /\ old[k] = seq[k]
    BY <1>3, <2>1, <2>2
  <2>4. \A n, k \in 1 .. N + 1 :
           n < k /\ (\E i \in 1 .. N : old[i] = seq[k]) =>
              \E i, j \in 1 .. N : i < j /\ old[i] = seq[n] /\ old[j] = seq[k]
    BY <2>3
  <2>5. DOMAIN old = 1 .. N /\ DOMAIN seq = 1 .. N + 1
    BY <1>1, <1>2
  <2> QED BY <2>4, <2>5 DEF Queues
<1>9. Whole(new)
  BY <1>5, <1>6, <1>7 DEF Whole
<1> QED BY <1>2, <1>3, <1>5, <1>7, <1>8, <1>9 DEF new, seq, old, N

LEMMA JoinStays == ASSUME NEW p \in Players, IInv, Join(p) PROVE Stays
<1> DEFINE joined == [room EXCEPT !.members = Append(@, p), !.connected = @ \cup {p}, !.locked = TRUE]
<1>1. /\ p \notin Members(room) /\ ~room.inGame /\ Len(room.members) < room.capacity /\ UNCHANGED match
      /\ room' = IF room.pending # None THEN TransferHost(joined, "host_timeout")
                 ELSE IF room.host = None THEN [joined EXCEPT !.host = p]
                 ELSE joined
  BY DEF Join
<1>2. /\ Whole(joined)
      /\ Members(joined) = Members(room) \cup {p} /\ joined.connected = room.connected \cup {p}
      /\ Len(joined.members) = Len(room.members) + 1 /\ joined.members[Len(room.members) + 1] = p
      /\ Queues(room.members, joined.members)
      /\ joined.host = room.host /\ joined.hostTimer = room.hostTimer /\ joined.pending = room.pending
      /\ joined.capacity = room.capacity /\ joined.locked = TRUE /\ joined.inGame = room.inGame
  BY <1>1, AppendIsWell DEF IInv
<1> HIDE DEF joined
<1>3. /\ Whole(room') /\ Led(room') /\ Fair(room, room')
      /\ room'.members = joined.members
      /\ room'.capacity = joined.capacity /\ room'.locked = joined.locked /\ room'.inGame = joined.inGame
  <2>1. CASE room.pending # None
    <3>1. room.host = None /\ From(room) = room.pending /\ From(joined) = room.pending
      BY <1>2, <2>1 DEF IInv, Led, From
    <3>2. /\ Whole(room') /\ Led(room')
          /\ room'.members = joined.members /\ room'.connected = joined.connected
          /\ room'.capacity = joined.capacity /\ room'.locked = joined.locked /\ room'.inGame = joined.inGame
          /\ room'.host # None => room'.host = Heir(room', From(room)) /\ room'.host # From(room)
      BY <1>1, <1>2, <2>1, <3>1, TransferIsWell
    <3>3. room.host \notin room.connected
      BY <3>1, Basics, NoneAssumption
    <3>4. Fair(room, room')
      BY <3>1, <3>2, <3>3, FairWhenReplaced DEF IInv
    <3> QED BY <3>2, <3>4
  <2>2. CASE room.pending = None /\ room.host = None
    <3>1. room.members = <<>> /\ room.hostTimer = "off"
      BY <2>2, Basics DEF IInv, Led, Rooms
    <3>2. Len(room.members) = 0 /\ Members(room) = {} /\ room.connected = {}
      BY <3>1, WholeMembers, Basics DEF IInv
    <3>3. room' = [joined EXCEPT !.host = p]
      BY <1>1, <2>2
    <3>4. /\ room' \in Rooms /\ room'.members = joined.members /\ room'.connected = joined.connected
          /\ room'.host = p /\ room'.hostTimer = joined.hostTimer /\ room'.pending = joined.pending
          /\ room'.capacity = joined.capacity /\ room'.locked = joined.locked /\ room'.inGame = joined.inGame
      BY <1>2, <3>3 DEF Whole, Rooms
    <3>5. Members(room') = Members(joined)
      BY <3>4 DEF Members
    <3>6. Whole(room') /\ Led(room')
      BY <1>2, <2>2, <3>1, <3>2, <3>4, <3>5, NoneAssumption DEF Whole, Led
    <3>7. DOMAIN room'.members = {1} /\ room'.members[1] = p
      <4>1. Len(room'.members) = 1 /\ room'.members[1] = p
        BY <1>2, <3>2, <3>4
      <4>2. DOMAIN room'.members = 1 .. 1
        BY <3>6, <4>1, WholeMembers
      <4> QED BY <4>1, <4>2
    <3>8. Heir(room', None) = p
      <4> DEFINE ready == {i \in DOMAIN room'.members : room'.members[i] \in room'.connected \ {None}}
      <4>1. ready \subseteq {1}
        BY <3>7
      <4>2. ready # {} => Min(ready) = 1
        BY <4>1, MinIsLeast
      <4> QED BY <3>7, <4>2 DEF Heir
    <3>9. Fair(room, room')
      BY <2>2, <3>2, <3>4, <3>8, NoneAssumption DEF Fair
    <3> QED BY <3>4, <3>6, <3>9
  <2>3. CASE room.pending = None /\ room.host # None
    <3>1. room' = joined
      BY <1>1, <2>3
    <3>2. room.host # p
      BY <1>1, <2>3 DEF IInv, Led
    <3>3. Led(joined)
      BY <1>2, <2>3, <3>2 DEF IInv, Led
    <3> QED BY <1>2, <3>1, <3>3 DEF Fair
  <2> QED BY <2>1, <2>2, <2>3
<1>4. Fits(room')
  BY <1>1, <1>2, <1>3, Basics DEF Fits
<1>5. MatchOK' /\ SeatedTogether'
  BY <1>1, <1>2, <1>3 DEF IInv, MatchOK, SeatedTogether, match
<1> QED BY <1>2, <1>3, <1>4, <1>5 DEF IInv, Stays

\* Leave, Disconnect and Reconnect end in syncGame, which then finds nobody to remove.
LEMMA SyncedStays ==
    ASSUME IInv, NEW r, Whole(r), Led(r), Fits(r), Fair(room, r), Queues(room.members, r.members),
           r.inGame = room.inGame, MatchOK',
           room.inGame => Members(r) = present' /\ r.connected = online',
           room' = SyncGame(r, {})
    PROVE  Stays
<1>1. /\ Whole(room') /\ Led(room')
      /\ Members(room') = Members(r) /\ room'.connected = r.connected
      /\ room'.capacity = r.capacity /\ room'.locked = r.locked
      /\ room'.inGame <=> r.inGame /\ ~over'
      /\ room'.members = r.members /\ room'.host = r.host
  <2>1. {} \in SUBSET Players /\ {} \cap r.connected = {} /\ Members(r) \ {} = Members(r)
    OBVIOUS
  <2> QED BY <2>1, SyncIsWell
<1>2. Heir(room', room.pending) = Heir(r, room.pending)
  BY <1>1 DEF Heir
<1>3. Fair(room, room')
  BY <1>1, <1>2 DEF Fair
<1>4. Fits(room')
  BY <1>1 DEF Fits
<1>5. SeatedTogether'
  BY <1>1 DEF SeatedTogether
<1> QED BY <1>1, <1>3, <1>4, <1>5 DEF IInv, Stays

LEMMA LeaveStays == ASSUME NEW p \in Players, IInv, Leave(p) PROVE Stays
<1> DEFINE left == RemoveMembers(room, {p})
           handed == IF p = room.host THEN TransferHost(left, "host_left") ELSE left
<1>1. /\ p \in Members(room)
      /\ IF room.inGame THEN Match!Walk(p) ELSE UNCHANGED match
      /\ room' = SyncGame(handed, {})
  BY DEF Leave
<1>2. /\ Whole(left)
      /\ Members(left) = Members(room) \ {p} /\ left.connected = room.connected \ {p}
      /\ Len(left.members) <= Len(room.members) /\ Queues(room.members, left.members)
      /\ left.host = room.host /\ left.hostTimer = room.hostTimer /\ left.pending = room.pending
      /\ left.capacity = room.capacity /\ left.locked = room.locked /\ left.inGame = room.inGame
  BY RemoveMembersIsWell DEF IInv
<1>3. p # None
  BY NoneAssumption
<1> HIDE DEF left
<1>4. /\ Whole(handed) /\ Led(handed) /\ Fair(room, handed)
      /\ handed.members = left.members /\ handed.connected = left.connected
      /\ handed.capacity = left.capacity /\ handed.locked = left.locked /\ handed.inGame = left.inGame
  <2>1. CASE p = room.host
    <3>1. /\ From(left) = p /\ From(room) = p /\ room.host # None /\ p \notin Members(left)
          /\ handed = TransferHost(left, "host_left")
      BY <1>2, <1>3, <2>1 DEF From
    <3> HIDE DEF handed
    <3>2. /\ Whole(handed) /\ Led(handed)
          /\ handed.members = left.members /\ handed.connected = left.connected
          /\ handed.capacity = left.capacity /\ handed.locked = left.locked /\ handed.inGame = left.inGame
          /\ handed.host # None => handed.host = Heir(handed, p) /\ handed.host # p
      BY <1>2, <3>1, TransferIsWell
    <3>3. Members(handed) = Members(left) /\ p \notin handed.connected
      BY <1>2, <3>2 DEF Members
    <3>4. Fair(room, handed)
      BY <2>1, <3>1, <3>2, <3>3, FairWhenReplaced DEF IInv
    <3> QED BY <3>2, <3>4
  <2>2. CASE p # room.host
    <3>1. handed = left
      BY <2>2
    <3>2. Members(room) # {} /\ room.members # <<>>
      BY <1>1, WholeMembers DEF IInv
    <3>3. Led(left)
      BY <1>2, <2>2, <3>2 DEF IInv, Led
    <3> QED BY <1>2, <3>1, <3>3 DEF Fair
  <2> QED BY <2>1, <2>2
<1> HIDE DEF handed
<1>5. Len(handed.members) \in Nat
  BY <1>4, WholeMembers
<1>6. Fits(handed)
  BY <1>2, <1>4, <1>5, Basics DEF IInv, Fits
<1>7. MatchOK'
  BY <1>1 DEF IInv, MatchOK, match, Match!Walk, Match!MayEnd
<1>8. room.inGame => Members(handed) = present' /\ handed.connected = online'
  <2>1. Members(handed) = Members(left)
    BY <1>4 DEF Members
  <2> QED BY <1>1, <1>2, <1>4, <2>1 DEF IInv, SeatedTogether, Match!Walk
<1>9. Queues(room.members, handed.members) /\ handed.inGame = room.inGame
  BY <1>2, <1>4
<1> QED BY <1>1, <1>4, <1>6, <1>7, <1>8, <1>9, SyncedStays

-----------------------------------------------------------------------------
(* The connection *)

LEMMA DisconnectStays == ASSUME NEW p \in Players, IInv, Disconnect(p) PROVE Stays
<1> DEFINE dropped == [room EXCEPT !.connected = @ \ {p},
                                   !.hostTimer = IF p = room.host THEN "running" ELSE @]
<1>1. /\ p \in Members(room) \cap room.connected
      /\ IF room.inGame THEN Match!Drop(p) ELSE UNCHANGED match
      /\ room' = SyncGame(dropped, {})
  BY DEF Disconnect
<1>2. /\ dropped \in Rooms
      /\ dropped.members = room.members /\ dropped.connected = room.connected \ {p}
      /\ dropped.host = room.host /\ dropped.pending = room.pending
      /\ dropped.hostTimer = (IF p = room.host THEN "running" ELSE room.hostTimer)
      /\ dropped.capacity = room.capacity /\ dropped.locked = room.locked /\ dropped.inGame = room.inGame
  BY Basics DEF Rooms
<1> HIDE DEF dropped
<1>3. Members(dropped) = Members(room)
  BY <1>2 DEF Members
<1>4. Whole(dropped) /\ Fits(dropped)
  BY <1>2, <1>3 DEF IInv, Whole, Fits
<1>5. Led(dropped)
  BY <1>2, <1>3, NoneAssumption DEF IInv, Led
<1>6. Fair(room, dropped) /\ Queues(room.members, dropped.members)
  BY <1>2, QueuesAlike DEF Fair
<1>7. MatchOK'
  BY <1>1 DEF IInv, MatchOK, match, Match!Drop, Match!MayEnd
<1>8. room.inGame => Members(dropped) = present' /\ dropped.connected = online'
  BY <1>1, <1>2, <1>3 DEF IInv, SeatedTogether, Match!Drop
<1> QED BY <1>1, <1>2, <1>4, <1>5, <1>6, <1>7, <1>8, SyncedStays

LEMMA ReconnectStays == ASSUME NEW p \in Players, IInv, Reconnect(p) PROVE Stays
<1> DEFINE back == [room EXCEPT !.connected = @ \cup {p}]
           led == IF room.pending \notin {None, p} THEN TransferHost(back, "host_timeout")
                  ELSE IF room.pending = None /\ p = room.host THEN [back EXCEPT !.hostTimer = "off"]
                  ELSE back
<1>1. /\ p \in Members(room) \ room.connected
      /\ IF room.inGame THEN Match!Return(p) ELSE UNCHANGED match
      /\ room' = SyncGame(led, {})
  BY DEF Reconnect
<1>2. /\ back \in Rooms
      /\ back.members = room.members /\ back.connected = room.connected \cup {p}
      /\ back.host = room.host /\ back.pending = room.pending /\ back.hostTimer = room.hostTimer
      /\ back.capacity = room.capacity /\ back.locked = room.locked /\ back.inGame = room.inGame
  <2>1. room \in Rooms /\ room.connected \cup {p} \in SUBSET Players
    BY Basics
  <2> QED BY <2>1 DEF Rooms
<1> HIDE DEF back
<1>3. Members(back) = Members(room)
  BY <1>2 DEF Members
<1>4. Whole(back)
  BY <1>1, <1>2, <1>3 DEF IInv, Whole
<1>5. room.members # <<>>
  BY <1>1, WholeMembers DEF IInv
<1>6. /\ Whole(led) /\ Led(led) /\ Fair(room, led)
      /\ led.members = back.members /\ led.connected = back.connected
      /\ led.capacity = back.capacity /\ led.locked = back.locked /\ led.inGame = back.inGame
  <2>1. CASE room.pending \notin {None, p}
    <3>1. room.host = None /\ From(room) = room.pending /\ From(back) = room.pending
      BY <1>2, <2>1 DEF IInv, Led, From
    <3>2. led = TransferHost(back, "host_timeout")
      BY <2>1
    <3> HIDE DEF led
    <3>3. /\ Whole(led) /\ Led(led)
          /\ led.members = back.members /\ led.connected = back.connected
          /\ led.capacity = back.capacity /\ led.locked = back.locked /\ led.inGame = back.inGame
          /\ led.host # None => led.host = Heir(led, From(room)) /\ led.host # From(room)
      BY <1>4, <2>1, <3>1, <3>2, TransferIsWell
    <3>4. room.host \notin room.connected
      BY <3>1, Basics, NoneAssumption
    <3>5. Fair(room, led)
      BY <3>1, <3>3, <3>4, FairWhenReplaced DEF IInv
    <3> QED BY <3>3, <3>5
  <2>2. CASE room.pending = None /\ p = room.host
    <3>1. led = [back EXCEPT !.hostTimer = "off"]
      BY <2>2
    <3> HIDE DEF led
    <3>2. /\ led \in Rooms /\ led.members = back.members /\ led.connected = back.connected
          /\ led.host = back.host /\ led.pending = back.pending /\ led.hostTimer = "off"
          /\ led.capacity = back.capacity /\ led.locked = back.locked /\ led.inGame = back.inGame
      BY <1>2, <3>1 DEF Rooms
    <3>3. Members(led) = Members(back)
      BY <3>2 DEF Members
    <3>4. Whole(led)
      BY <1>4, <3>2, <3>3 DEF Whole
    <3>5. Led(led) /\ Fair(room, led)
      BY <1>1, <1>2, <1>3, <2>2, <3>2, <3>3, NoneAssumption DEF Led, Fair
    <3> QED BY <3>2, <3>4, <3>5
  <2>3. CASE room.pending = p \/ (room.pending = None /\ p # room.host)
    <3>1. led = back
      BY <2>3, NoneAssumption
    <3>2. Led(back)
      BY <1>1, <1>2, <1>3, <1>5, <2>3, NoneAssumption DEF IInv, Led
    <3>3. Fair(room, back)
      BY <1>2 DEF Fair
    <3> QED BY <1>4, <3>1, <3>2, <3>3
  <2> HIDE DEF led
  <2> QED BY <2>1, <2>2, <2>3
<1> HIDE DEF led
<1>7. Fits(led) /\ led.inGame = room.inGame
  BY <1>2, <1>6 DEF IInv, Fits
<1>8. Queues(room.members, led.members)
  BY <1>2, <1>6, QueuesAlike
<1>9. MatchOK'
  BY <1>1 DEF IInv, MatchOK, match, Match!Return, Match!MayEnd
<1>10. room.inGame => Members(led) = present' /\ led.connected = online'
  <2>1. Members(led) = Members(room)
    BY <1>2, <1>6 DEF Members
  <2> QED BY <1>1, <1>2, <1>6, <2>1 DEF IInv, SeatedTogether, Match!Return
<1> QED BY <1>1, <1>6, <1>7, <1>8, <1>9, <1>10, SyncedStays

-----------------------------------------------------------------------------
LEMMA NextStays == IInv /\ Next => Stays
BY MatchMovesStays, HostTimerRunsStays, HostTimeoutStays, StartByServerStays,
   JoinStays, LeaveStays, DisconnectStays, ReconnectStays, StartStays,
   UpdateSettingsStays, KickStays DEF Next

LEMMA StutterKeepsIInv == IInv /\ UNCHANGED vars => IInv'
BY DEF vars, IInv, Whole, Distinct, Members, Led, Fits, MatchOK, SeatedTogether

LEMMA IInvHolds == Spec => []IInv
<1>1. IInv /\ [Next]_vars => IInv'
  BY NextStays, StutterKeepsIInv DEF Stays
<1> QED BY <1>1, InitIInv, PTL DEF Spec

\* The room has the shape of its Go struct; no player is in it twice (room.go, Room).
THEOREM TypeCorrect == Spec => []TypeOK
<1>1. IInv => TypeOK
  BY DEF IInv, TypeOK, Whole, Distinct, MatchOK
<1> QED BY <1>1, IInvHolds, PTL

\* A room that is not empty has a host among its members, or waits for somebody other than the
\* one who lost it (room.go, transferHost).
THEOREM RoomKeepsHost == Spec => []RoomHasHost
<1>1. IInv => RoomHasHost
  BY DEF IInv, Led, RoomHasHost
<1> QED BY <1>1, IInvHolds, PTL

\* The host's timer runs exactly while the host is away (room.go, Disconnect and Reconnect).
THEOREM HostIsTimed == Spec => []AbsentHostIsTimed
<1>1. IInv => AbsentHostIsTimed
  BY DEF IInv, Led, AbsentHostIsTimed
<1> QED BY <1>1, IInvHolds, PTL

\* Room and match agree on who plays and who is online (room.go, syncGame).
THEOREM RoomAndMatchAgree == Spec => []SeatedTogether
<1>1. IInv => SeatedTogether
  BY DEF IInv
<1> QED BY <1>1, IInvHolds, PTL

\* The lock on the settings is enough to keep a room within its capacity (room.go, UpdateSettings).
THEOREM LockKeepsRoomFitting == Spec => []RoomFits
<1>1. IInv => RoomFits
  BY DEF IInv, Fits, RoomFits
<1> QED BY <1>1, IInvHolds, PTL

\* The room passes from a host who is gone to the member whose turn it is, and never back
\* (room.go, transferHost).
THEOREM RoomIsHandedFairly == Spec => HandoverIsFair
<1> DEFINE Handed ==
      /\ room.host \in room.connected /\ room.host \in Members(room') => room'.host = room.host
      /\ room'.host \notin {None, room.host} =>
            LET ready == {i \in DOMAIN room'.members :
                             room'.members[i] \in room'.connected \ {room.pending}}
            IN  /\ room'.host = room'.members[IF ready = {} THEN 1 ELSE Min(ready)]
                /\ room'.host # room.pending
<1>1. IInv /\ [Next]_vars => [Handed]_vars
  <2>1. Fair(room, room') => Handed
    BY DEF Fair, Heir
  <2> QED BY <2>1, NextStays DEF Stays
<1> QED BY <1>1, IInvHolds, PTL DEF Spec, HandoverIsFair

\* Members never overtake one another in the join order, which decides who is host next
\* (room.go, removeMember and Join).
THEOREM JoinOrderIsKept == Spec => [][Queues(room.members, room'.members)]_vars
<1>1. IInv /\ [Next]_vars => [Queues(room.members, room'.members)]_vars
  BY NextStays DEF Stays
<1> QED BY <1>1, IInvHolds, PTL DEF Spec
=============================================================================
