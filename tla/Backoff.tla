------------------------------- MODULE Backoff -------------------------------
(***************************************************************************)
(* The retry delay both connection managers compute (bounded_backoff, the  *)
(* same text in network_manager.cpp and mqtt_client.cpp): exponential      *)
(* doubling of a base delay, capped, with a random jitter on top.          *)
(***************************************************************************)
EXTENDS Naturals

CONSTANTS
    RetryBase,    \* kRetryBaseMs
    RetryMax,     \* kRetryMaxMs
    RetryJitter   \* kRetryJitterMs

ASSUME BackoffAssumption ==
    /\ RetryBase \in Nat \ {0}
    /\ RetryMax \in Nat \ {0}
    /\ RetryJitter \in Nat
    /\ RetryBase <= RetryMax
    /\ RetryJitter <= RetryMax

MaxDoublings == 8

\* 2^n for the nine possible numbers of doublings.
PowersOfTwo == <<1, 2, 4, 8, 16, 32, 64, 128, 256>>

Capped(attempt) == IF attempt > MaxDoublings THEN MaxDoublings ELSE attempt

\* The delay after n rounds of the doubling loop. The loop gives up at the
\* cap as soon as the value it is about to double has reached half of it.
Doubled(n) ==
    IF n > 0 /\ RetryBase * PowersOfTwo[n] >= RetryMax \div 2
    THEN RetryMax
    ELSE RetryBase * PowersOfTwo[n + 1]

\* Slip: the jitter is added to the capped delay.
UncappedJitter(wait, jitter) == wait + jitter

WithJitter(wait, jitter) ==
    IF wait > RetryMax - jitter THEN RetryMax ELSE wait + jitter

BoundedBackoff(attempt, jitter) == WithJitter(Doubled(Capped(attempt)), jitter)

\* random(kRetryJitterMs + 1) may return any value up to the jitter bound.
BackoffDelays(attempt) ==
    { BoundedBackoff(attempt, jitter) : jitter \in 0..RetryJitter }

=============================================================================
