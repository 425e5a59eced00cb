-------------------------------- MODULE Retry --------------------------------
(***************************************************************************)
(* Context::retry (context/retry.rs): an operation is called up to         *)
(* max_attempts times, with a sleep between two calls that doubles up to a *)
(* maximum.  Time is counted in units of the first sleep (100ms) and is    *)
(* spent in the sleeps and, up to Latency, in each call; the operation     *)
(* fails until something in the cluster is ready, and works from then on.  *)
(***************************************************************************)
EXTENDS Integers, FiniteSetsExt

CONSTANTS MostAttempts,   \* largest max_attempts a test gives
          FirstBackoff,   \* 100ms
          MaxBackoff,     \* 5s
          CallTime        \* longest time a call of the operation takes

ASSUME RetryAssumption ==
  /\ MostAttempts \in Nat /\ CallTime \in Nat
  /\ FirstBackoff \in Nat \ {0} /\ MaxBackoff \in Nat /\ FirstBackoff <= MaxBackoff

VARIABLES limit,       \* max_attempts, or 0 before the call
          attempt,     \* calls of the operation begun
          backoff,     \* the next sleep
          clock,       \* time since retry was called
          worksFrom,   \* from when on the operation works
          outcome      \* what retry returned

retryVars == <<limit, attempt, backoff, clock, worksFrom, outcome>>

RetryInit ==
  /\ limit = 0 /\ attempt = 0 /\ backoff = FirstBackoff /\ clock = 0
  /\ worksFrom = 0 /\ outcome = "idle"

(* What the sleeps of n attempts add up to: all but the last are followed  *)
(* by one.                                                                 *)
PowerOfTwo[n \in 0 .. MostAttempts] == IF n = 0 THEN 1 ELSE 2 * PowerOfTwo[n - 1]
Sleep == [i \in 1 .. MostAttempts |-> Min({FirstBackoff * PowerOfTwo[i - 1], MaxBackoff})]
Sleeps(n) == SumFunctionOnSet(Sleep, 1 .. n - 1)

-----------------------------------------------------------------------------
(* `assert!(max_attempts > 0)`; until when the cluster takes is a guess of *)
(* up to a little more than the test is ready to wait.                     *)
StartRetry(n, w) ==
  /\ outcome = "idle" /\ limit = 0
  /\ limit' = n /\ worksFrom' = w
  /\ attempt' = 1
  /\ outcome' = IF n = 0 THEN "panic" ELSE "trying"
  /\ UNCHANGED <<backoff, clock>>

AttemptSucceeds ==
  /\ outcome = "trying" /\ clock >= worksFrom
  /\ outcome' = "ok"
  /\ UNCHANGED <<limit, attempt, backoff, clock, worksFrom>>

(* `is_last_attempt`.                                                      *)
IsLast == attempt = limit

(* The call fails, and the next comes after the sleep.  Mutation: the      *)
(* maximum comes at once.                                                  *)
DoubledAgain == Min({backoff * 4, MaxBackoff})
Doubled == Min({backoff * 2, MaxBackoff})

AttemptFails(t) ==
  /\ outcome = "trying" /\ clock < worksFrom /\ ~IsLast
  /\ clock' = clock + t + backoff
  /\ backoff' = Doubled
  /\ attempt' = attempt + 1
  /\ UNCHANGED <<limit, worksFrom, outcome>>

LastAttemptFails ==
  /\ outcome = "trying" /\ clock < worksFrom /\ IsLast
  /\ outcome' = "error"
  /\ UNCHANGED <<limit, attempt, backoff, clock, worksFrom>>

RetryReturned == outcome \in {"ok", "error", "panic"} /\ UNCHANGED retryVars

RetryNext ==
  \/ \E n \in 0 .. MostAttempts : \E w \in 0 .. Sleeps(n) + 1 : StartRetry(n, w)
  \/ AttemptSucceeds \/ LastAttemptFails \/ RetryReturned
  \/ \E t \in 0 .. CallTime : AttemptFails(t)

RetrySpec == RetryInit /\ [][RetryNext]_retryVars

-----------------------------------------------------------------------------
(* Whoever retries n times waits for the n - 1 sleeps: an operation that   *)
(* works by then is never reported as failed, and one that does not keeps  *)
(* the test no longer than these and the calls.                            *)
RetriesArePatient ==
  /\ outcome = "error" => worksFrom > Sleeps(limit)
  /\ clock <= Sleeps(limit) + (limit - 1) * CallTime \/ outcome \in {"idle", "panic"}
=============================================================================
