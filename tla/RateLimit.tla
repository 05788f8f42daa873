------------------------------ MODULE RateLimit -------------------------------
(***************************************************************************)
(* What the rate limiter promises: every key has a bucket of its own that  *)
(* starts full, is never forgotten, and fills at a steady pace.            *)
(***************************************************************************)
EXTENDS Naturals

CONSTANTS Keys,
          Burst,     \* tokens in a full bucket
          Interval,  \* ticks in which a bucket gains a token
          MaxTime    \* bound: the last tick

VARIABLES now,
          bucket     \* bucket[k]: what k may still spend, in ticks

Full == Burst * Interval

Capped(ticks) == IF ticks > Full THEN Full ELSE ticks

Init == /\ now = 0
        /\ bucket = [k \in Keys |-> Full]

\* A request is served at the price of a token.
Serve(k) == /\ bucket[k] >= Interval
            /\ bucket' = [bucket EXCEPT ![k] = @ - Interval]
            /\ UNCHANGED now

Tick == /\ now < MaxTime
        /\ now' = now + 1
        /\ bucket' = [k \in Keys |-> Capped(bucket[k] + 1)]

Next == Tick \/ \E k \in Keys : Serve(k)

Spec == Init /\ [][Next]_<<now, bucket>>
==============================================================================
