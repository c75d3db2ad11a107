----------------------------- MODULE FetchPage -----------------------------
(***************************************************************************)
(* The retry loop around one page request (mls.Client.FetchPage): which    *)
(* answers use up which budget.  Pure operators; the sleeps between        *)
(* requests are left out.                                                  *)
(***************************************************************************)
EXTENDS Naturals

CONSTANTS
    MaxRetries,       \* maxRetries
    MaxConsecutive429 \* maxConsecutive429

ASSUME FetchAssumption ==
    /\ MaxRetries \in Nat \ {0}
    /\ MaxConsecutive429 \in Nat

\* What comes back: the page, a 429, another status, or nothing.
Failures == {"throttled", "refused", "broken"}

\* nonRateAttempts and consec429; requests counts what was sent.
Budget == [attempts : Nat, streak : Nat, requests : Nat]

NewFetch == [attempts |-> 0, streak |-> 0, requests |-> 0]

\* A variant of AfterFailure: no answer ends a streak.
AfterFailureUncounted(b, answer) ==
    [attempts |-> IF answer = "throttled" THEN b.attempts ELSE b.attempts + 1,
     streak |-> 0,
     requests |-> b.requests + 1]

\* A 429 counts towards the streak only, any other failure is an attempt; of those
\* another status ends the streak and a broken connection does not.
AfterFailure(b, answer) ==
    [attempts |-> IF answer = "throttled" THEN b.attempts ELSE b.attempts + 1,
     streak |-> CASE answer = "throttled" -> b.streak + 1
                  [] answer = "refused"   -> 0
                  [] answer = "broken"    -> b.streak,
     requests |-> b.requests + 1]

\* A variant of GivesUp: one 429 more is let through.
GivesUpLate(b, answer) ==
    IF answer = "throttled"
    THEN b.streak > MaxConsecutive429
    ELSE AfterFailure(b, answer).attempts >= MaxRetries

GivesUp(b, answer) ==
    IF answer = "throttled"
    THEN AfterFailure(b, answer).streak > MaxConsecutive429
    ELSE AfterFailure(b, answer).attempts >= MaxRetries

\* No more requests than this are ever sent for one page.
MostRequests == MaxRetries * (MaxConsecutive429 + 1)
============================================================================
