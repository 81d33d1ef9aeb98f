------------------------------- MODULE Retry -------------------------------
(***************************************************************************)
(* The retry middleware, internal/core/exec/retry.go, over the terminal    *)
(* handler of internal/core/exec/executor.go, for requests that run side   *)
(* by side; and the requests that go past it, which ExecuteGET and         *)
(* ExecuteWrite hand to the HTTP client themselves.                        *)
(*                                                                         *)
(* What a call of the next handler may come to is a status, or NoResponse  *)
(* when there was none (and an error instead).  Pipeline says what happens *)
(* inside the call, and what is assumed of the constants.                  *)
(***************************************************************************)
EXTENDS Integers, Sequences

CONSTANTS
  Procs,        \* goroutines, one request each
  Statuses,     \* statuses the upstream may answer with
  MaxAttempts,  \* RetryConfig.MaxAttempts, 0 for the default
  BaseDelay,    \* RetryConfig.BaseDelay
  MaxDelay,     \* RetryConfig.MaxDelay
  Width         \* bits of a Duration, its sign included

Attempts == IF MaxAttempts = 0 THEN 3 ELSE MaxAttempts
Idempotent == {"GET", "HEAD", "PUT", "DELETE", "OPTIONS"}
Transient == {429, 502, 503, 504}
Success == 200..299
NoResponse == 0

VARIABLES
  request,   \* the request of each goroutine: its entry, its method and its data
  attempt,   \* the loop variable
  stage,     \* "ready", "calling", "sent" or "void" (too late), "backoff", "done"
  canceled,  \* ctx is done
  outcomes,  \* what each call of the next handler came to, in order
  cap,       \* the bound of the jitter before the call in hand
  result     \* the Attempts and the outcome returned, Attempts 0 for no result

Outcome == Statuses \cup {NoResponse}
NoResult == [attempts |-> 0, outcome |-> NoResponse]
Last(p) == outcomes[p][Len(outcomes[p])]

RetryTypeOK ==
  /\ attempt \in [Procs -> 0..Attempts]
  /\ stage \in [Procs -> {"ready", "calling", "sent", "void", "backoff", "done"}]
  /\ canceled \in [Procs -> BOOLEAN]
  /\ \A p \in Procs : outcomes[p] \in Seq(Outcome) /\ Len(outcomes[p]) <= Attempts
  /\ cap \in [Procs -> 0..MaxDelay]
  /\ result \in [Procs -> [attempts : 0..Attempts, outcome : Outcome]]

RetryInit ==
  /\ attempt = [p \in Procs |-> 0]
  /\ stage = [p \in Procs |-> "ready"]
  /\ canceled = [p \in Procs |-> FALSE]
  /\ outcomes = [p \in Procs |-> << >>]
  /\ cap = [p \in Procs |-> 0]
  /\ result = [p \in Procs |-> NoResult]

-----------------------------------------------------------------------------
\* Mutant of Retryable: the method does not matter.
RetryableAlways(p) == request[p].entry = "handler"

\* Only the handler retries, and only some methods.
Retryable(p) == request[p].entry = "handler" /\ request[p].method \in Idempotent

\* math.Pow(2, n)
Power[n \in Nat] == IF n = 0 THEN 1 ELSE 2 * Power[n - 1]

\* Mutant of CapOf: the wait is halved from attempt to attempt.
CapOfHalving(a) == {MaxDelay \div Power[a]}

\* backoffWithJitter: the bounds the random wait before attempt a may have.
\* When the product does not fit in a Duration, what the conversion from
\* float64 yields is up to the platform: a negative number (amd64), and so no
\* wait, or the largest (arm64), and so MaxDelay.
CapOf(a) ==
  LET delay == BaseDelay * Power[a]
  IN  IF delay >= 2^(Width - 1) THEN {0, MaxDelay}
      ELSE {IF delay > MaxDelay THEN MaxDelay ELSE delay}

Start(p) ==
  /\ stage[p] = "ready"
  /\ stage' = [stage EXCEPT ![p] = "calling"]
  /\ UNCHANGED <<request, attempt, canceled, outcomes, cap, result>>

\* The next handler gets as far as the HTTP client, which sends nothing once
\* ctx is done.
Send(p) ==
  /\ stage[p] = "calling"
  /\ stage' = [stage EXCEPT ![p] = IF canceled[p] THEN "void" ELSE "sent"]
  /\ UNCHANGED <<request, attempt, canceled, outcomes, cap, result>>

\* An outer middleware does not let the request through.
Reject(p) ==
  /\ stage[p] = "ready"
  /\ stage' = [stage EXCEPT ![p] = "done"]
  /\ UNCHANGED <<request, attempt, canceled, outcomes, cap, result>>

\* Mutant of Returned: attempts are counted from 0.
ReturnedFromZero(p, o) ==
  IF o = NoResponse THEN NoResult ELSE [attempts |-> attempt[p], outcome |-> o]

\* The result of the last call, its Attempts set by the loop; a call that the
\* loop does not guard reports the 1 of the terminal handler.
Returned(p, o) ==
  IF o = NoResponse THEN NoResult ELSE [attempts |-> attempt[p] + 1, outcome |-> o]

\* Mutant of Again: one attempt less than MaxAttempts.
AgainOnceLess(p, o) == Retryable(p) /\ o \notin Success /\ attempt[p] + 2 < Attempts

\* Mutant of Again: one attempt more than MaxAttempts.
AgainOnceMore(p, o) == Retryable(p) /\ o \notin Success /\ attempt[p] + 1 <= Attempts

\* Mutant of Again: a success is repeated.
AgainAnyStatus(p, o) == Retryable(p) /\ attempt[p] + 1 < Attempts

\* The terminal handler makes an error of every status outside 2xx, and the
\* loop ends only on a call that returns none.
Again(p, o) == Retryable(p) /\ o \notin Success /\ attempt[p] + 1 < Attempts

\* The call of the next handler comes back with a result or an error.
Call(p, o) ==
  /\ stage[p] = "sent" \/ (stage[p] \in {"calling", "void"} /\ o = NoResponse)
  /\ outcomes' = [outcomes EXCEPT ![p] = Append(@, o)]
  /\ result' = [result EXCEPT ![p] = Returned(p, o)]
  /\ IF Again(p, o)
       THEN /\ stage' = [stage EXCEPT ![p] = "backoff"]
            /\ attempt' = [attempt EXCEPT ![p] = @ + 1]
            /\ \E c \in CapOf(attempt[p] + 1) : cap' = [cap EXCEPT ![p] = c]
       ELSE stage' = [stage EXCEPT ![p] = "done"] /\ UNCHANGED <<attempt, cap>>
  /\ UNCHANGED <<request, canceled>>

\* The timer fires, whether or not ctx is done as well: select takes either.
Resume(p) ==
  /\ stage[p] = "backoff"
  /\ stage' = [stage EXCEPT ![p] = "calling"]
  /\ UNCHANGED <<request, attempt, canceled, outcomes, cap, result>>

\* ctx.Done wins: the result of the last call goes back with the error of ctx.
GiveUp(p) ==
  /\ stage[p] = "backoff" /\ canceled[p]
  /\ stage' = [stage EXCEPT ![p] = "done"]
  /\ UNCHANGED <<request, attempt, canceled, outcomes, cap, result>>

\* The caller's ctx is done.
CancelRequest(p) ==
  /\ stage[p] # "done" /\ ~canceled[p]
  /\ canceled' = [canceled EXCEPT ![p] = TRUE]
  /\ UNCHANGED <<request, attempt, stage, outcomes, cap, result>>
=============================================================================
