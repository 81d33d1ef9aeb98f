------------------------------ MODULE Pipeline ------------------------------
(***************************************************************************)
(* The middleware chain that NewExecutorWithMiddleware of                  *)
(* internal/core/exec/executor.go puts together, for requests that run     *)
(* side by side: validation, then the retry loop, whose every attempt goes *)
(* through the rate limiter to the HTTP client.  The pagination middleware *)
(* between validation and retry asks the rest of the chain for one page    *)
(* after the other and is a module of its own; a request here is one page. *)
(*                                                                         *)
(* A request enters by the chain ("handler") or, as those of ExecuteGET    *)
(* and ExecuteWrite do, past it ("direct").                                *)
(***************************************************************************)
EXTENDS TokenBucket, Validate, FiniteSets

CONSTANTS
  Workloads,    \* what the goroutines may ask for, a function on Procs
  Statuses, MaxAttempts, BaseDelay, MaxDelay, Width

ASSUME RetryAssumption ==
  /\ Statuses \subseteq 100..599
  /\ MaxAttempts \in Nat /\ BaseDelay \in Nat \ {0} /\ MaxDelay \in Nat \ {0}
  /\ Width \in Nat \ {0} /\ MaxDelay < 2^(Width - 1)

ASSUME PipelineAssumption ==
  \A w \in Workloads, p \in Procs :
    /\ w[p].entry \in {"handler", "direct"}
    /\ w[p].schemas \subseteq Schemas /\ \A s, t \in w[p].schemas : s = t
    /\ w[p].body \in Values \cup {Empty, Malformed}

VARIABLES request, attempt, stage, canceled, outcomes, cap, result

R == INSTANCE Retry

retryVars == <<request, attempt, stage, canceled, outcomes, cap, result>>

pipelineVars == <<vars, retryVars>>

Handled(p) == request[p].entry = "handler"

PipelineTypeOK == TypeOK /\ R!RetryTypeOK

PipelineInit ==
  /\ Init
  /\ request \in Workloads
  /\ R!RetryInit

-----------------------------------------------------------------------------
(* Into the chain *)

\* ValidateMiddleware returns an error and nothing goes further.
Refuse(p) ==
  /\ Handled(p) /\ Refused(request[p].schemas, request[p].body)
  /\ R!Reject(p)
  /\ UNCHANGED vars

\* The first attempt, at the limiter's door.
Enter(p) ==
  /\ Handled(p) /\ ~Refused(request[p].schemas, request[p].body)
  /\ R!Start(p)
  /\ Arrive(p)

\* Mutant of Repeat: the limiter sees the first attempt only.
RepeatUnlimited(p) ==
  /\ stage[p] = "backoff" /\ stage' = [stage EXCEPT ![p] = "sent"]
  /\ UNCHANGED <<request, attempt, canceled, outcomes, cap, result>>
  /\ pc' = [pc EXCEPT ![p] = "calling"]
  /\ UNCHANGED <<now, bucketVars, wake, delay, released, told>>

\* The next attempt.
Repeat(p) == R!Resume(p) /\ Arrive(p)

Abandon(p) == R!GiveUp(p) /\ UNCHANGED vars

CallerCancels(p) == R!CancelRequest(p) /\ UNCHANGED vars

-----------------------------------------------------------------------------
(* The limiter and the upstream *)

LimiterStep(p) ==
  /\ TryDrained(p) \/ TryShort(p) \/ Wake(p)
  /\ UNCHANGED retryVars

\* The limiter lets the request through to the client.
Dispatch(p) == TryTake(p) /\ R!Send(p)

\* wait returns the error of ctx: the retry loop gets neither a result nor a
\* word of why, and the result of the attempt before is gone.
LeaveQueue(p) ==
  /\ canceled[p]
  /\ Cancel(p)
  /\ R!Call(p, R!NoResponse)

\* The client's answer, without a wait asked for; the limiter looks at the
\* headers of a response only.
Answer(p, o) ==
  /\ Finish(p)
  /\ o = R!NoResponse => UNCHANGED <<max, rate>>
  /\ R!Call(p, o)

\* A 429 or 503 asks for a wait, and the limiter has yet to drain the bucket.
Throttled(p) == stage[p] = "sent" /\ Throttle(p) /\ UNCHANGED retryVars

AnswerThrottled(p, o) ==
  /\ o \in {429, 503}
  /\ Drain(p)
  /\ R!Call(p, o)

\* ExecuteGET and ExecuteWrite, straight to the client.
StartDirect(p) == ~Handled(p) /\ R!Start(p) /\ UNCHANGED vars

SendDirect(p) == ~Handled(p) /\ R!Send(p) /\ UNCHANGED vars

AnswerDirect(p, o) == ~Handled(p) /\ stage[p] # "calling" /\ R!Call(p, o) /\ UNCHANGED vars

Time == Tick /\ UNCHANGED retryVars

\* Everyone is done, or asleep in the limiter until after the last tick.
Terminating ==
  /\ \A p \in Procs : stage[p] = "done" \/ (pc[p] = "sleeping" /\ wake[p] > MaxNow)
  /\ UNCHANGED pipelineVars

PipelineNext ==
  \/ \E p \in Procs :
       \/ Refuse(p) \/ Enter(p) \/ Repeat(p) \/ Abandon(p) \/ CallerCancels(p)
       \/ LimiterStep(p) \/ Dispatch(p) \/ LeaveQueue(p) \/ Throttled(p)
       \/ StartDirect(p) \/ SendDirect(p)
       \/ \E o \in R!Outcome : Answer(p, o) \/ AnswerThrottled(p, o) \/ AnswerDirect(p, o)
  \/ Time
  \/ Terminating

PipelineSpec == PipelineInit /\ [][PipelineNext]_pipelineVars

-----------------------------------------------------------------------------
(* Properties *)

\* A request that must not be repeated reaches the upstream once, and no
\* request is repeated after a success (retry.go:40-42, 57-61).
SentOnce ==
  \A p \in Procs :
    /\ request[p].method \notin R!Idempotent => Len(outcomes[p]) <= 1
    /\ \A i \in 1..(Len(outcomes[p]) - 1) : outcomes[p][i] \notin R!Success

\* What the caller gets is the last call's result, and its Attempts says how
\* many calls there were, canceled or not (retry.go:51-67): also when the last
\* call never left the limiter, and an earlier one had a response.
ReportsLast ==
  \A p \in Procs :
    stage[p] = "done" /\ outcomes[p] # << >> =>
      IF R!Last(p) = R!NoResponse THEN result[p] = R!NoResult
      ELSE result[p] = [attempts |-> Len(outcomes[p]), outcome |-> R!Last(p)]

GivenUpEarly(p) ==
  /\ stage[p] = "done" /\ ~canceled[p] /\ outcomes[p] # << >>
  /\ request[p].method \in R!Idempotent
  /\ R!Last(p) \in R!Transient
  /\ Len(outcomes[p]) < R!Attempts

\* A safe request that enters by the chain is not given up on a transient
\* status before its attempts are used up (retry.go:47-64), whatever the
\* limiter makes it wait for in between.
HandlerRetries == \A p \in Procs : Handled(p) => ~GivenUpEarly(p)

\* "Every request ... goes through the same middleware pipeline ... retries
\* happen on 429/502/503/504" (README.md:146).
TransientRetried == \A p \in Procs : ~GivenUpEarly(p)

\* Every attempt that gets as far as the upstream has taken a token of its own
\* from the bucket (ratelimit.go:52-58), the repeated ones too.
Arrived(p, i) ==
  \/ i <= Len(outcomes[p]) /\ outcomes[p][i] # R!NoResponse
  \/ i = Len(outcomes[p]) + 1 /\ stage[p] = "sent"
Reached == {c \in Procs \X (1..R!Attempts) : Handled(c[1]) /\ Arrived(c[1], c[2])}
Paid == Cardinality(Reached) <= Len(released)

\* The validation sends back no body its schema admits, where the schema gives
\* one type and prints its enum as fmt does; and it lets none through that the
\* schema does not admit, where the schema says nothing validate.go reads less
\* of (validate.go:40-76, 83-144).
Verdict ==
  \A p \in Procs : Handled(p) /\ request[p].body # Empty /\ stage[p] # "ready" =>
    LET b == request[p].body
        admitted(s) == b # Malformed /\ Admits[b][s]
        refused == stage[p] = "done" /\ outcomes[p] = << >>
    IN  \A s \in request[p].schemas :
          IF refused THEN Unambiguous[s] => ~admitted(s) ELSE Checked[s] => admitted(s)

\* Until the waits stop fitting in a Duration each is drawn from a range no
\* smaller than the last: "exponential backoff" (retry.go:31).
BackoffGrows == [][\A p \in Procs : cap'[p] >= cap[p]]_cap
=============================================================================
