---------------------------- MODULE TokenBucket ----------------------------
(***************************************************************************)
(* The rate limiter, internal/core/exec/ratelimit.go: one token bucket     *)
(* that the requests of all goroutines pass through.  (The registry keeps  *)
(* a bucket per host, but operation paths carry no host, so every request  *)
(* of a process uses the bucket "default".)                                *)
(*                                                                         *)
(* Tokens are counted in fractions: Cost of them make up the one token a   *)
(* request takes, and the bucket gains rate of them per tick.  A critical  *)
(* section of the code is one step; a sleeping request holds no lock.      *)
(***************************************************************************)
EXTENDS Integers, Sequences

CONSTANTS
  Procs,        \* goroutines that send requests
  Cost,         \* fractions in a token
  Rate,         \* RequestsPerSecond, in fractions per tick
  Burst,        \* Burst, in fractions
  Limits,       \* the rates an X-Ratelimit-Limit header may announce
  TopRate,      \* no configured or announced rate is above it
  TopBurst,     \* nor any size of the bucket, which is twice an announced rate
  Delays,       \* the waits, in ticks, a Retry-After header may ask for
  MaxNow        \* bound on the clock, and by the bucket on what it lets through

ASSUME BucketAssumption ==
  /\ Cost \in Nat \ {0} /\ Rate \in Nat \ {0} /\ Burst \in Nat
  /\ Limits \subseteq Nat \ {0} /\ Delays \subseteq Nat \ {0}
  /\ TopRate \in Nat /\ \A l \in Limits \cup {Rate} : l <= TopRate
  /\ TopBurst \in Nat /\ Burst <= TopBurst /\ \A l \in Limits : 2 * l <= TopBurst
  /\ MaxNow \in Nat

VARIABLES
  now,       \* the clock
  tokens,    \* tokenBucket.tokens
  max,       \* tokenBucket.max
  rate,      \* tokenBucket.rate
  lastFill,  \* tokenBucket.lastFill
  drainEnd,  \* tokenBucket.drainEnd
  pc,        \* where each request is
  wake,      \* when the timer of a sleeping request fires
  delay,     \* the Retry-After of the response in hand, 0 for none
  released,  \* history: the times at which requests were let through
  told       \* history: until when each was told to wait, or less since, 0 for none

bucketVars == <<tokens, max, rate, lastFill, drainEnd>>
vars == <<now, bucketVars, pc, wake, delay, released, told>>

TypeOK ==
  /\ now \in Nat
  /\ tokens \in Nat /\ max \in Nat /\ rate \in Nat \ {0}
  /\ lastFill \in 0..now
  /\ drainEnd \in Nat
  /\ pc \in [Procs -> {"idle", "trying", "sleeping", "calling", "throttled"}]
  /\ wake \in [Procs -> Nat]
  /\ delay \in [Procs -> Nat]
  /\ released \in Seq(Nat) /\ \A i \in 1..Len(released) : released[i] <= lastFill
  /\ told \in [Procs -> Nat]

Init ==
  /\ now = 0
  /\ tokens = Burst /\ max = Burst /\ rate = Rate
  /\ lastFill = 0 /\ drainEnd = 0
  /\ pc = [p \in Procs |-> "idle"]
  /\ wake = [p \in Procs |-> 0]
  /\ delay = [p \in Procs |-> 0]
  /\ released = << >>
  /\ told = [p \in Procs |-> 0]

-----------------------------------------------------------------------------
(* wait *)

Arrive(p) ==
  /\ pc[p] = "idle"
  /\ pc' = [pc EXCEPT ![p] = "trying"]
  /\ UNCHANGED <<now, bucketVars, wake, delay, released, told>>

Lesser(a, b) == IF a < b THEN a ELSE b

\* Mutant of Filled: the bucket has no size.
FilledUnbounded == tokens + rate * (now - lastFill)

\* What the bucket holds now, the ticks since lastFill counted in.
Filled == Lesser(max, tokens + rate * (now - lastFill))

\* Ticks until the missing fractions have come in.
Shortage == (Cost - Filled + rate - 1) \div rate

SleepUntil(p, t) ==
  /\ wake' = [wake EXCEPT ![p] = t]
  /\ pc' = [pc EXCEPT ![p] = "sleeping"]

\* The bucket is drained: sleep to the end of it and touch nothing.
TryDrained(p) ==
  /\ pc[p] = "trying" /\ now < drainEnd
  /\ SleepUntil(p, drainEnd)
  /\ UNCHANGED <<now, bucketVars, delay, released, told>>

\* Mutant of TryTake: a part of a token is enough.
TryTakePart(p) ==
  /\ pc[p] = "trying" /\ now >= drainEnd
  /\ Filled > 0
  /\ tokens' = Filled - Cost
  /\ lastFill' = now
  /\ released' = Append(released, now)
  /\ told' = [told EXCEPT ![p] = 0]
  /\ pc' = [pc EXCEPT ![p] = "calling"]
  /\ UNCHANGED <<now, max, rate, drainEnd, wake, delay>>

\* Mutant of TryTake: lastFill is not advanced, and the time counted twice.
TryTakeOldFill(p) ==
  /\ pc[p] = "trying" /\ now >= drainEnd
  /\ Filled >= Cost
  /\ tokens' = Filled - Cost
  /\ released' = Append(released, now)
  /\ told' = [told EXCEPT ![p] = 0]
  /\ pc' = [pc EXCEPT ![p] = "calling"]
  /\ UNCHANGED <<now, max, rate, lastFill, drainEnd, wake, delay>>

\* Refill, take a token and go.
TryTake(p) ==
  /\ pc[p] = "trying" /\ now >= drainEnd
  /\ Filled >= Cost
  /\ tokens' = Filled - Cost
  /\ lastFill' = now
  /\ released' = Append(released, now)
  /\ told' = [told EXCEPT ![p] = 0]
  /\ pc' = [pc EXCEPT ![p] = "calling"]
  /\ UNCHANGED <<now, max, rate, drainEnd, wake, delay>>

\* Refill, and sleep until the rest of a token should be there.
TryShort(p) ==
  /\ pc[p] = "trying" /\ now >= drainEnd
  /\ Filled < Cost
  /\ tokens' = Filled
  /\ lastFill' = now
  /\ SleepUntil(p, now + Shortage)
  /\ UNCHANGED <<now, max, rate, drainEnd, delay, released, told>>

\* The timer fires: the request starts over, with no claim on a token.
Wake(p) ==
  /\ pc[p] = "sleeping" /\ now >= wake[p]
  /\ pc' = [pc EXCEPT ![p] = "trying"]
  /\ wake' = [wake EXCEPT ![p] = 0]
  /\ UNCHANGED <<now, bucketVars, delay, released, told>>

\* ctx is done: wait returns its error and the request is not sent.
Cancel(p) ==
  /\ pc[p] = "sleeping"
  /\ pc' = [pc EXCEPT ![p] = "idle"]
  /\ wake' = [wake EXCEPT ![p] = 0]
  /\ UNCHANGED <<now, bucketVars, delay, released, told>>

-----------------------------------------------------------------------------
(* The response *)

\* adjustFromHeaders: the announced limit becomes the rate, twice it the size.
Adjust ==
  \/ UNCHANGED <<max, rate>>
  \/ \E l \in Limits : rate' = l /\ max' = 2 * l

\* No result at all, or one that asks for no wait.
Finish(p) ==
  /\ pc[p] = "calling"
  /\ Adjust
  /\ pc' = [pc EXCEPT ![p] = "idle"]
  /\ UNCHANGED <<now, tokens, lastFill, drainEnd, wake, delay, released, told>>

\* A 429 or 503 with a Retry-After of d ticks.
Throttle(p) ==
  /\ pc[p] = "calling"
  /\ Adjust
  /\ \E d \in Delays : /\ delay' = [delay EXCEPT ![p] = d]
                       /\ told' = [told EXCEPT ![p] = now + d]
  /\ pc' = [pc EXCEPT ![p] = "throttled"]
  /\ UNCHANGED <<now, tokens, lastFill, drainEnd, wake, released>>

\* Mutant of Drain: the bucket is emptied but not closed.
DrainTokensOnly(p) ==
  /\ pc[p] = "throttled"
  /\ told' = [q \in Procs |-> Lesser(told[q], now + delay[p])]
  /\ tokens' = 0
  /\ delay' = [delay EXCEPT ![p] = 0]
  /\ pc' = [pc EXCEPT ![p] = "idle"]
  /\ UNCHANGED <<now, max, rate, lastFill, drainEnd, wake, released>>

\* drain, a critical section of its own: it overwrites drainEnd, empties the
\* bucket and leaves lastFill where it was.
Drain(p) ==
  /\ pc[p] = "throttled"
  /\ drainEnd' = now + delay[p]
  /\ told' = [q \in Procs |-> Lesser(told[q], now + delay[p])]
  /\ tokens' = 0
  /\ delay' = [delay EXCEPT ![p] = 0]
  /\ pc' = [pc EXCEPT ![p] = "idle"]
  /\ UNCHANGED <<now, max, rate, lastFill, wake, released>>

-----------------------------------------------------------------------------
\* A tick is long against the code between a response and drain.
Tick ==
  /\ now < MaxNow
  /\ \A p \in Procs : pc[p] # "throttled"
  /\ now' = now + 1
  /\ UNCHANGED <<bucketVars, pc, wake, delay, released, told>>

Next ==
  \/ \E p \in Procs :
       \/ Arrive(p) \/ TryDrained(p) \/ TryTake(p) \/ TryShort(p)
       \/ Wake(p) \/ Cancel(p)
       \/ Finish(p) \/ Throttle(p) \/ Drain(p)
  \/ Tick

Spec == Init /\ [][Next]_vars

-----------------------------------------------------------------------------
(* Properties *)

\* The token bucket's promise (ratelimit.go:111-146): between any two requests
\* it lets through, themselves included, there are no more than the largest
\* bucket and the largest rate allow, whatever limits are announced and
\* whatever waits are asked for in between.  While no header changes the rate
\* these are the configured Burst and RequestsPerSecond.
WindowBound ==
  \A i, j \in 1..Len(released) : i <= j =>
    (j - i + 1) * Cost <= TopBurst + TopRate * (released[j] - released[i])

\* What makes WindowBound inductive: from each request on, those let through
\* and what is left in the bucket are paid for by the burst and the rate.
Funded ==
  \A i \in 1..Len(released) :
    (Len(released) - i + 1) * Cost + tokens
      <= TopBurst + TopRate * (lastFill - released[i])

\* "It honours Retry-After" (ratelimit.go:30): a request that was told to wait
\* is not let through again before the end of the wait, counted from the
\* response, the gap before drain and the requests that go through in it
\* notwithstanding.  The bucket keeps one wait for all and drain overwrites it
\* (ratelimit.go:151): what a drain for another has shortened since then, and
\* nothing else, may end it sooner.
HonoursRetryAfter ==
  [][\A p \in Procs : pc[p] # "calling" /\ pc'[p] = "calling" => now >= told[p]]_vars
=============================================================================
