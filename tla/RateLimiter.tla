---------------------------- MODULE RateLimiter ----------------------------
(* util/RateLimiter.h: the two limiters, for one key.  Tokens are counted  *)
(* in shares: the bucket gains one share per unit of time and a request    *)
(* costs perToken of them, which is rate_ = 1 / perToken.                  *)
EXTENDS Integers, Sequences

CONSTANTS
    burst, perToken,            \* the token bucket
    maxRequests, windowMs,      \* the sliding window
    MaxClock

ASSUME LimiterAssumption ==
    /\ burst \in Nat \ {0} /\ perToken \in Nat
    /\ {maxRequests, windowMs} \subseteq Int

VARIABLES
    clock,        \* nowMs()
    bucket,       \* buckets_[key]: shares and lastTime, or <<>> before the first
    window,       \* windows_[key]
    passed        \* ghost: the times at which each limiter said yes

limiterVars == <<clock, bucket, window, passed>>

LimiterInit ==
    /\ clock = 0
    /\ bucket = <<>>
    /\ window = <<>>
    /\ passed = [token |-> <<>>, slide |-> <<>>]

LimiterTick ==
    /\ clock < MaxClock
    /\ clock' = clock + 1
    /\ UNCHANGED <<bucket, window, passed>>

Refill == LET more == bucket[1] + (clock - bucket[2])
          IN  IF more > burst * perToken THEN burst * perToken ELSE more

\* Mutant of TokenBucketAllow: a refusal does not move lastTime.
TokenBucketAllowForgets ==
    /\ IF bucket = <<>>
       THEN bucket' = <<(burst - 1) * perToken, clock>>
       ELSE bucket' = IF Refill >= perToken THEN <<Refill - perToken, clock>>
                      ELSE <<Refill, bucket[2]>>
    /\ passed' = IF bucket = <<>> \/ Refill >= perToken
                 THEN [passed EXCEPT !.token = Append(@, clock)] ELSE passed
    /\ UNCHANGED <<clock, window>>

\* TokenBucketLimiter::allow
TokenBucketAllow ==
    /\ IF bucket = <<>>
       THEN bucket' = <<(burst - 1) * perToken, clock>>
       ELSE bucket' = <<IF Refill >= perToken THEN Refill - perToken ELSE Refill,
                        clock>>
    /\ passed' = IF bucket = <<>> \/ Refill >= perToken
                 THEN [passed EXCEPT !.token = Append(@, clock)] ELSE passed
    /\ UNCHANGED <<clock, window>>

\* SlidingWindowLimiter::allow
SlidingWindowAllow ==
    /\ \E n \in 0 .. Len(window) :      \* the entries pop_front takes out
          LET kept == SubSeq(window, n + 1, Len(window))
              yes == Len(kept) < maxRequests IN
          /\ \A i \in 1 .. n : window[i] <= clock - windowMs
          /\ n < Len(window) => window[n + 1] > clock - windowMs
          /\ window' = IF yes THEN Append(kept, clock) ELSE kept
          /\ passed' = IF yes THEN [passed EXCEPT !.slide = Append(@, clock)] ELSE passed
    /\ UNCHANGED <<clock, bucket>>

LimiterNext == LimiterTick \/ TokenBucketAllow \/ SlidingWindowAllow

LimiterSpec == LimiterInit /\ [][LimiterNext]_limiterVars

(* What a limiter promises, over every interval and not only from the      *)
(* start: n requests pass the bucket only in a time that earns all but     *)
(* burst of their tokens, and any maxRequests + 1 requests the sliding     *)
(* window lets through span at least one window.                           *)
RateBounded ==
    /\ \A i, j \in DOMAIN passed.token : i <= j =>
          (j - i + 1 - burst) * perToken <= passed.token[j] - passed.token[i]
    /\ \A i \in DOMAIN passed.slide : i + maxRequests \in DOMAIN passed.slide =>
          passed.slide[i + maxRequests] - passed.slide[i] >= windowMs
=============================================================================
