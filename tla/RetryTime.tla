----------------------------- MODULE RetryTime ------------------------------
(***************************************************************************)
(* When a queued row is claimed.  The timestamps of job_queue are text      *)
(* (RFC3339Nano), SQLite compares them byte by byte, and the format drops   *)
(* the trailing zeros of the fraction, so the order of the texts is not     *)
(* the order of the instants.  The module has the clock, the rows' texts,   *)
(* the exponential backoff of failOrRetry, the claim of DequeueEligible     *)
(* and the recovery of orphans, for rows without a dedupe key of plugins    *)
(* below their cap (Dispatch has both).  The fraction has two digits in     *)
(* base Ten.  The int64 wrap of the backoff is left out: a job reaches it   *)
(* only after 292 years of retries or some thirty crashes.                  *)
(***************************************************************************)
EXTENDS Integers, Sequences, FiniteSets

CONSTANTS Jobs,          \* the rows, in the order of their rowid
          Ten,           \* base of the digits
          BackoffBase,   \* retry.backoff_base, in fractions of a second
          MaxAttempts,   \* of every job
          Horizon        \* bound on the clock

RetryTimeAssumption ==
    /\ Jobs \subseteq Nat \ {0} /\ IsFiniteSet(Jobs)
    /\ Ten \in Nat \ {0, 1} /\ BackoffBase \in Nat \ {0}
    /\ MaxAttempts \in Nat \ {0} /\ Horizon \in Nat

VARIABLES now,       \* the clock, in fractions of a second
          status,    \* of each row; "none" before it is inserted
          created,   \* when each row was inserted
          attempt,
          due,       \* next_retry_at, None for NULL
          failedAt   \* when the attempt before the present one failed, None when it did not
vars == <<now, status, created, attempt, due, failedAt>>

None == -1
Second == Ten * Ten

(* The text of an instant: the fields down to the second, whose order is   *)
(* that of their value, then '.' and the digits up to the last that is not *)
(* zero, then 'Z'.  Each byte stands for its place in '.' < '0'..'9' < 'Z'.*)
Text(t) ==
    LET f  == t % Second
        hi == f \div Ten + 1
        lo == (f % Ten) + 1
        Z  == Ten + 1
    IN  <<t \div Second>> \o (CASE f = 0   -> <<Z>>
                                [] lo = 1  -> <<0, hi, Z>>
                                [] OTHER   -> <<0, hi, lo, Z>>)

\* SQLite's comparison of two texts (external).
Before(s, u) ==
    \E i \in 1..Len(s) : /\ i <= Len(u) /\ s[i] < u[i]
                         /\ \A k \in 1..(i - 1) : s[k] = u[k]
NotAfter(s, u) == s = u \/ Before(s, u)

Init ==
    /\ now = 0
    /\ status = [j \in Jobs |-> "none"]
    /\ created = [j \in Jobs |-> 0]
    /\ attempt = [j \in Jobs |-> 1]
    /\ due = [j \in Jobs |-> None]
    /\ failedAt = [j \in Jobs |-> None]

Tick == now < Horizon /\ now' = now + 1 /\ UNCHANGED <<status, created, attempt, due, failedAt>>

Enqueue(j) ==
    /\ status[j] = "none" /\ \A k \in Jobs : k < j => status[k] /= "none"
    /\ status' = [status EXCEPT ![j] = "queued"]
    /\ created' = [created EXCEPT ![j] = now]
    /\ UNCHANGED <<now, attempt, due, failedAt>>

\* mutant: the oldest row regardless of next_retry_at
Eligible_AnyQueued(j) == status[j] = "queued"

\* next_retry_at IS NULL OR next_retry_at <= now
Eligible(j) == status[j] = "queued" /\ (due[j] = None \/ NotAfter(Text(due[j]), Text(now)))

\* ORDER BY created_at ASC, rowid ASC
ClaimedBefore(j, k) ==
    \/ Before(Text(created[j]), Text(created[k]))
    \/ created[j] = created[k] /\ j < k

DequeueEligible(j) ==
    /\ Eligible(j) /\ \A k \in Jobs \ {j} : Eligible(k) => ClaimedBefore(j, k)
    /\ status' = [status EXCEPT ![j] = "running"]
    /\ UNCHANGED <<now, created, attempt, due, failedAt>>

Complete(j) ==
    /\ status[j] = "running"
    /\ status' = [status EXCEPT ![j] = "done"]
    /\ UNCHANGED <<now, created, attempt, due, failedAt>>

calculateBackoffDelay(n, jitter) == BackoffBase * 2 ^ (n - 1) + jitter

\* computeRetryDelay and the retry of failOrRetry; without attempts left the job ends, as in Complete.
failOrRetry(j) ==
    /\ status[j] = "running" /\ attempt[j] < MaxAttempts
    /\ \E jitter \in 0..(BackoffBase \div 4) :
          due' = [due EXCEPT ![j] = now + calculateBackoffDelay(attempt[j], jitter)]
    /\ status' = [status EXCEPT ![j] = "queued"]
    /\ attempt' = [attempt EXCEPT ![j] = @ + 1]
    /\ failedAt' = [failedAt EXCEPT ![j] = now]
    /\ UNCHANGED <<now, created>>

\* The gateway is killed and restarts: every running row goes back without a delay, or ends.
RecoverOrphans ==
    LET orphans == {j \in Jobs : status[j] = "running"}
    IN  /\ orphans /= {}
        /\ status' = [j \in Jobs |-> IF j \notin orphans THEN status[j]
                                     ELSE IF attempt[j] < MaxAttempts THEN "queued" ELSE "done"]
        /\ attempt' = [j \in Jobs |-> IF j \in orphans THEN attempt[j] + 1 ELSE attempt[j]]
        /\ due' = [j \in Jobs |-> IF j \in orphans THEN None ELSE due[j]]
        /\ failedAt' = [j \in Jobs |-> IF j \in orphans THEN None ELSE failedAt[j]]
        /\ UNCHANGED <<now, created>>

Next ==
    \/ Tick
    \/ \E j \in Jobs : Enqueue(j) \/ DequeueEligible(j) \/ Complete(j) \/ failOrRetry(j)
    \/ RecoverOrphans

Spec == Init /\ [][Next]_vars
-----------------------------------------------------------------------------
(* A retry starts no more than a second before the delay of its attempt    *)
(* has passed: the text order errs only between instants of one second.    *)
ClaimsInTime ==
    \A j \in Jobs : (status[j] = "queued" /\ status'[j] = "running" /\ failedAt[j] /= None)
        => now + Second > failedAt[j] + BackoffBase * 2 ^ (attempt[j] - 2)

(* No queued row is passed over for ever: a second after its delay with    *)
(* the largest jitter it is eligible, whatever the texts.                  *)
EligibleAtLast ==
    \A j \in Jobs : (status[j] = "queued"
                     /\ (failedAt[j] = None
                         \/ now >= failedAt[j] + BackoffBase * 2 ^ (attempt[j] - 2) + BackoffBase \div 4 + Second))
                    => Eligible(j)

(* Between two eligible rows the claim takes the one of the earlier second.*)
ClaimsOldestSecond ==
    \A j, k \in Jobs : (status[j] = "queued" /\ status'[j] = "running" /\ Eligible(k))
        => created[j] \div Second <= created[k] \div Second

(* Comparing timestamps as text errs by less than a second.                *)
ClaimedInTime == []EligibleAtLast /\ [][ClaimsInTime /\ ClaimsOldestSecond]_vars
=============================================================================
