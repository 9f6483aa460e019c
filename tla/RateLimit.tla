------------------------------ MODULE RateLimit ------------------------------
(***************************************************************************)
(* The token bucket of one key of a limiter: server/internal/api/limits.go.*)
(*                                                                         *)
(* The code refills in fractions of a token when the bucket is used; here  *)
(* Rate whole tokens come with every unit of time.  A bucket that nobody   *)
(* used for longer than BucketIdle may be forgotten, so `idle' need not be *)
(* counted further.                                                        *)
(***************************************************************************)
EXTENDS Integers

CONSTANTS
    Burst,       \* tokens in a full bucket
    Rate,        \* tokens per unit of time; 0 turns the limiter off
    BucketIdle   \* a bucket is kept this long

\* sweep's comment: "idle is far longer than a full refill takes".
ASSUME LimitAssumption ==
    /\ Burst \in Nat \ {0} /\ Rate \in Nat /\ BucketIdle \in Nat
    /\ Rate > 0 => Rate * BucketIdle >= Burst

\* A bucket in the map, or a key that is not.
NoBucket == [known |-> FALSE, tokens |-> Burst, idle |-> 0]
Buckets == [known : BOOLEAN, tokens : 0 .. Burst, idle : 0 .. BucketIdle + 1]

\* What could be spent at once.
Refilled(bucket) ==
    LET tokens == bucket.tokens + bucket.idle * Rate IN IF tokens < Burst THEN tokens ELSE Burst

Allows(bucket) == Rate = 0 \/ Refilled(bucket) >= 1

\* allow leaves this bucket behind, whether or not it gives a token.
Charged(bucket) ==
    IF Rate = 0 THEN bucket
    ELSE [known |-> TRUE, tokens |-> IF Allows(bucket) THEN Refilled(bucket) - 1 ELSE Refilled(bucket), idle |-> 0]

BugSweptUnused(bucket) == IF bucket.idle > 0 THEN NoBucket ELSE bucket

Swept(bucket) == IF bucket.idle > BucketIdle THEN NoBucket ELSE bucket

Rested(bucket) == IF bucket.known /\ bucket.idle <= BucketIdle THEN [bucket EXCEPT !.idle = @ + 1] ELSE bucket
=============================================================================
