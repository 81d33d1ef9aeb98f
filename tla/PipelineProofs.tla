--------------------------- MODULE PipelineProofs ---------------------------
(***************************************************************************)
(* Theorems about Pipeline, and TokenBucket in it, for any number of       *)
(* goroutines, any workload, document, statuses, rate, burst and clock.    *)
(***************************************************************************)
EXTENDS Pipeline, Induction

(* The limiter by itself.                                                    *)

\* A product with a sum; the provers see products as single terms.
LEMMA Distribute ==
  ASSUME NEW a \in Int, NEW b \in Int, NEW c \in Int
  PROVE  /\ a * (b + c) = a * b + a * c
         /\ (b + c) * a = b * a + c * a
         /\ a * b \in Int
BY SMT

\* Time never makes a non-negative rate lose tokens.
LEMMA Product ==
  ASSUME NEW a \in Nat, NEW b \in Nat
  PROVE  a * b \in Nat
BY SMT

\* A greater rate brings in no less.
LEMMA Monotone ==
  ASSUME NEW a \in Nat, NEW b \in Nat, NEW c \in Nat, a <= b
  PROVE  a * c <= b * c
<1>1. b * c = a * c + (b - a) * c
  <2>1. b - a \in Int /\ a + (b - a) = b
    OBVIOUS
  <2>. QED
    BY <2>1, Distribute
<1>2. (b - a) * c \in Nat /\ a * c \in Nat
  BY Product
<1>. QED
  BY <1>1, <1>2

\* What the bucket holds after a refill is a natural number, no more than its
\* size and no more than it held and gained.
LEMMA FilledType ==
  ASSUME TypeOK
  PROVE  /\ Filled \in Nat /\ Filled <= max
         /\ Filled <= tokens + rate * (now - lastFill)
<1>1. now - lastFill \in Nat /\ rate \in Nat
  BY DEF TypeOK
<1>2. rate * (now - lastFill) \in Nat
  BY <1>1, Product
<1>3. PICK gain \in Nat : gain = rate * (now - lastFill)
  BY <1>2
<1>4. Filled = Lesser(max, tokens + gain)
  BY <1>3 DEF Filled
<1>5. tokens \in Nat /\ max \in Nat
  BY DEF TypeOK
<1>6. Filled \in Nat /\ Filled <= max /\ Filled <= tokens + gain
  BY <1>4, <1>5 DEF Lesser
<1>. QED
  BY <1>3, <1>6

\* The wait for a missing token is a number of ticks.
LEMMA ShortageType ==
  ASSUME TypeOK, Filled < Cost
  PROVE  Shortage \in Nat
<1>1. Cost - Filled + rate - 1 \in Nat /\ rate \in Nat \ {0}
  BY FilledType, BucketAssumption DEF TypeOK
<1>2. \A a \in Nat : \A b \in Nat \ {0} : a \div b \in Nat
  BY SMT
<1>. QED
  BY <1>1, <1>2 DEF Shortage

\* Every variable keeps its type.
THEOREM Typing == Spec => []TypeOK
<1>1. Init => TypeOK
  BY BucketAssumption DEF Init, TypeOK
<1>2. TypeOK /\ [Next]_vars => TypeOK'
  <2>. SUFFICES ASSUME TypeOK, [Next]_vars
                PROVE  TypeOK'
    OBVIOUS
  <2>. USE BucketAssumption DEF TypeOK, bucketVars
  <2>1. ASSUME NEW p \in Procs, Arrive(p)
        PROVE  TypeOK'
    BY <2>1 DEF Arrive
  <2>2. ASSUME NEW p \in Procs, TryDrained(p)
        PROVE  TypeOK'
    BY <2>2 DEF TryDrained, SleepUntil
  <2>3. ASSUME NEW p \in Procs, TryTake(p)
        PROVE  TypeOK'
    <3>1. tokens' \in Nat
      BY <2>3, FilledType DEF TryTake
    <3>2. released' \in Seq(Nat) /\ \A i \in 1..Len(released') : released'[i] <= now
      <4>1. released' = Append(released, now) /\ now \in Nat /\ released \in Seq(Nat)
        BY <2>3 DEF TryTake
      <4>2. \A i \in 1..Len(released) : released[i] <= now
        OBVIOUS
      <4>. QED
        BY <4>1, <4>2
    <3>. QED
      BY <2>3, <3>1, <3>2 DEF TryTake
  <2>4. ASSUME NEW p \in Procs, TryShort(p)
        PROVE  TypeOK'
    <3>1. Filled \in Nat /\ Shortage \in Nat
      BY <2>4, FilledType, ShortageType DEF TryShort
    <3>2. \A i \in 1..Len(released) : released[i] <= now
      OBVIOUS
    <3>. QED
      BY <2>4, <3>1, <3>2 DEF TryShort, SleepUntil
  <2>5. ASSUME NEW p \in Procs, Wake(p)
        PROVE  TypeOK'
    BY <2>5 DEF Wake
  <2>6. ASSUME NEW p \in Procs, Cancel(p)
        PROVE  TypeOK'
    BY <2>6 DEF Cancel
  <2>7. ASSUME NEW p \in Procs, Finish(p)
        PROVE  TypeOK'
    BY <2>7 DEF Finish, Adjust
  <2>8. ASSUME NEW p \in Procs, Throttle(p)
        PROVE  TypeOK'
    BY <2>8 DEF Throttle, Adjust
  <2>9. ASSUME NEW p \in Procs, Drain(p)
        PROVE  TypeOK'
    <3>1. now + delay[p] \in Nat
      OBVIOUS
    <3>2. told' \in [Procs -> Nat]
      BY <2>9, <3>1 DEF Drain, Lesser
    <3>. QED
      BY <2>9, <3>1, <3>2 DEF Drain
  <2>10. ASSUME Tick
         PROVE  TypeOK'
    BY <2>10 DEF Tick
  <2>. QED
    BY <2>1, <2>2, <2>3, <2>4, <2>5, <2>6, <2>7, <2>8, <2>9, <2>10
    DEF Next, vars
<1>. QED
  BY <1>1, <1>2, PTL DEF Spec

-----------------------------------------------------------------------------
(* The rate *)

\* No header makes the bucket larger or faster than the tops, and each request
\* let through stays funded.
FundedInv == max <= TopBurst /\ rate <= TopRate /\ Funded

LEMMA FundedInvariant == Spec => []FundedInv
<1>1. Init => FundedInv
  BY BucketAssumption DEF Init, FundedInv, Funded
<1>2. TypeOK /\ FundedInv /\ [Next]_vars => FundedInv'
  <2>. SUFFICES ASSUME TypeOK, FundedInv, [Next]_vars
                PROVE  FundedInv'
    OBVIOUS
  <2>0. /\ Cost \in Nat /\ TopRate \in Nat /\ TopBurst \in Nat /\ tokens \in Nat
        /\ now \in Nat /\ lastFill \in Nat /\ lastFill <= now
        /\ released \in Seq(Nat) /\ Len(released) \in Nat
        /\ \A i \in 1..Len(released) : released[i] \in Nat
        /\ max \in Nat /\ max <= TopBurst /\ rate \in Nat /\ rate <= TopRate
    BY BucketAssumption DEF TypeOK, FundedInv
  <2>. DEFINE n == Len(released)
              paid(i, t) == TopBurst + TopRate * (t - released[i])
              taken(i) == (n - i + 1) * Cost
              gain == TopRate * (now - lastFill)
  <2>a. ASSUME NEW i \in 1..n
        PROVE  paid(i, now) = paid(i, lastFill) + gain /\ paid(i, lastFill) \in Int
    <3>1. /\ now - lastFill \in Int /\ lastFill - released[i] \in Int /\ TopRate \in Int
          /\ now - released[i] = (lastFill - released[i]) + (now - lastFill)
      BY <2>0
    <3>2. TopRate * (now - released[i])
            = TopRate * (lastFill - released[i]) + TopRate * (now - lastFill)
      BY <3>1, Distribute
    <3>3. TopRate * (lastFill - released[i]) \in Int /\ TopRate * (now - lastFill) \in Int
      BY <3>1, Distribute
    <3>. QED
      BY <2>0, <3>2, <3>3
  <2>b. ASSUME NEW i \in 1..n
        PROVE  /\ taken(i) \in Int
               /\ taken(i) + tokens <= paid(i, lastFill)
               /\ (n + 1 - i + 1) * Cost = taken(i) + Cost
    <3>1. n - i + 1 \in Int /\ n + 1 - i + 1 = (n - i + 1) + 1 /\ Cost \in Int
      BY <2>0
    <3>2. taken(i) \in Int
      BY <3>1, Distribute
    <3>3. ((n - i + 1) + 1) * Cost = taken(i) + 1 * Cost
      BY <3>1, Distribute
    <3>. QED
      BY <2>0, <3>1, <3>2, <3>3 DEF FundedInv, Funded
  <2>c. Filled \in Nat /\ Filled <= tokens + gain
    <3>1. now - lastFill \in Nat
      BY <2>0
    <3>2. rate * (now - lastFill) <= TopRate * (now - lastFill)
      BY <2>0, <3>1, Monotone
    <3>3. rate * (now - lastFill) \in Nat /\ TopRate * (now - lastFill) \in Nat
      BY <2>0, <3>1, Product
    <3>. QED
      BY <2>0, <3>2, <3>3, FilledType
  <2>d. gain \in Nat
    BY <2>0, Product
  <2>1. ASSUME UNCHANGED <<lastFill, released>>, max' <= TopBurst, rate' <= TopRate,
               tokens' \in Nat, tokens' <= tokens
        PROVE  FundedInv'
    <3>1. ASSUME NEW i \in 1..n
          PROVE  taken(i) + tokens' <= paid(i, lastFill)
      <4>. HIDE DEF taken, paid
      <4>. QED
        BY <2>0, <2>1, <2>a, <2>b
    <3>. QED
      BY <2>0, <2>1, <3>1 DEF FundedInv, Funded
  <2>2. ASSUME NEW p \in Procs, TryTake(p)
        PROVE  FundedInv'
    <3>1. /\ tokens' = Filled - Cost /\ lastFill' = now /\ max' = max /\ rate' = rate
          /\ released' = Append(released, now)
      BY <2>2 DEF TryTake
    <3>2. Len(released') = n + 1 /\ released'[n + 1] = now
          /\ \A i \in 1..n : released'[i] = released[i]
      BY <2>0, <3>1
    <3>4. ASSUME NEW i \in 1..n
          PROVE  (n + 1 - i + 1) * Cost + tokens' <= paid(i, now)
      <4>1. taken(i) + Cost + tokens' <= paid(i, now)
        <5>. HIDE DEF taken, paid, gain
        <5>. QED
          BY <2>0, <2>a, <2>b, <2>c, <2>d, <3>1
      <4>. QED
        BY <2>b, <4>1
    <3>5. (n + 1 - (n + 1) + 1) * Cost + tokens' <= TopBurst + TopRate * (now - now)
      <4>1. n + 1 - (n + 1) + 1 = 1 /\ 1 * Cost = Cost /\ TopRate * (now - now) = 0
        BY <2>0
      <4>2. Filled <= TopBurst
        BY <2>0, FilledType
      <4>. QED
        BY <2>0, <2>c, <3>1, <4>1, <4>2
    <3>6. ASSUME NEW i \in 1..(n + 1)
          PROVE  (Len(released') - i + 1) * Cost + tokens'
                   <= TopBurst + TopRate * (lastFill' - released'[i])
      <4>1. CASE i = n + 1
        BY <3>1, <3>2, <3>5, <4>1
      <4>2. CASE i \in 1..n
        BY <3>1, <3>2, <3>4, <4>2
      <4>. QED
        BY <2>0, <4>1, <4>2
    <3>. QED
      BY <2>0, <3>1, <3>2, <3>6 DEF FundedInv, Funded
  <2>3. ASSUME NEW p \in Procs, TryShort(p)
        PROVE  FundedInv'
    <3>1. /\ tokens' = Filled /\ lastFill' = now
          /\ UNCHANGED <<max, rate, released>>
      BY <2>3 DEF TryShort
    <3>2. ASSUME NEW i \in 1..n
          PROVE  taken(i) + tokens' <= paid(i, now)
      <4>. HIDE DEF taken, paid, gain
      <4>. QED
        BY <2>0, <2>a, <2>b, <2>c, <2>d, <3>1
    <3>. QED
      BY <2>0, <3>1, <3>2 DEF FundedInv, Funded
  <2>4. ASSUME NEW p \in Procs, Finish(p) \/ Throttle(p)
        PROVE  FundedInv'
    <3>1. max' <= TopBurst /\ rate' <= TopRate
      BY <2>0, <2>4, BucketAssumption DEF Finish, Throttle, Adjust
    <3>2. UNCHANGED <<lastFill, released, tokens>>
      BY <2>4 DEF Finish, Throttle
    <3>. QED
      BY <2>0, <2>1, <3>1, <3>2
  <2>5. ASSUME NEW p \in Procs, Drain(p)
        PROVE  UNCHANGED <<max, rate, lastFill, released>> /\ tokens' = 0
    BY <2>5 DEF Drain
  <2>6. ASSUME \/ UNCHANGED vars \/ Tick
               \/ \E p \in Procs : Arrive(p) \/ TryDrained(p) \/ Wake(p) \/ Cancel(p)
        PROVE  UNCHANGED <<max, rate, lastFill, released, tokens>>
    BY <2>6 DEF vars, bucketVars, Tick, Arrive, TryDrained, Wake, Cancel
  <2>7. ASSUME UNCHANGED <<max, rate, lastFill, released, tokens>>
        PROVE  FundedInv'
    BY <2>0, <2>1, <2>7
  <2>8. ASSUME NEW p \in Procs, Drain(p)
        PROVE  FundedInv'
    BY <2>0, <2>1, <2>5, <2>8
  <2>. QED
    BY <2>2, <2>3, <2>4, <2>6, <2>7, <2>8 DEF Next
<1>. QED
  BY <1>1, <1>2, Typing, PTL DEF Spec

\* From any request let through to any later one, no more were let through
\* than the largest burst and rate allow, whatever the upstream announces.
THEOREM Conformance == Spec => []WindowBound
<1>1. Init => WindowBound
  BY DEF Init, WindowBound
<1>2. TypeOK /\ FundedInv /\ FundedInv' /\ TypeOK' /\ WindowBound /\ [Next]_vars
        => WindowBound'
  <2>. SUFFICES ASSUME TypeOK, FundedInv, FundedInv', TypeOK', WindowBound, [Next]_vars
                PROVE  WindowBound'
    OBVIOUS
  <2>1. CASE released' = released
    BY <2>1 DEF WindowBound
  <2>2. CASE \E p \in Procs : TryTake(p)
    <3>. DEFINE n == Len(released)
    <3>1. /\ released' = Append(released, now) /\ lastFill' = now
          /\ released \in Seq(Nat) /\ n \in Nat /\ tokens' \in Nat
      BY <2>2 DEF TryTake, TypeOK
    <3>2. Len(released') = n + 1 /\ released'[n + 1] = now
          /\ \A i \in 1..n : released'[i] = released[i]
      BY <3>1
    <3>. SUFFICES ASSUME NEW i \in 1..(n + 1), NEW j \in 1..(n + 1), i <= j
                  PROVE  (j - i + 1) * Cost
                           <= TopBurst + TopRate * (released'[j] - released'[i])
      BY <3>2 DEF WindowBound
    <3>3. CASE j \in 1..n
      <4>1. i \in 1..n
        BY <3>1, <3>3
      <4>. QED
        BY <3>2, <3>3, <4>1 DEF WindowBound
    <3>4. CASE j = n + 1
      <4>1. (n + 1 - i + 1) * Cost + tokens' <= TopBurst + TopRate * (now - released'[i])
        BY <3>1, <3>2 DEF FundedInv, Funded
      <4>2. released'[i] \in Nat /\ now \in Nat /\ Cost \in Int /\ TopRate \in Int
        BY <3>2, BucketAssumption DEF TypeOK
      <4>3. (n + 1 - i + 1) * Cost \in Int /\ TopRate * (now - released'[i]) \in Int
        BY <3>1, <4>2, Distribute
      <4>4. (n + 1 - i + 1) * Cost <= TopBurst + TopRate * (now - released'[i])
        BY <3>1, <4>1, <4>3, BucketAssumption
      <4>. QED
        BY <3>2, <3>4, <4>4
    <3>. QED
      BY <3>1, <3>3, <3>4
  <2>3. released' = released \/ \E p \in Procs : TryTake(p)
    BY DEF Next, vars, Tick, Arrive, TryDrained, TryShort, Wake, Cancel, Finish,
       Throttle, Drain
  <2>. QED
    BY <2>1, <2>2, <2>3
<1>. QED
  BY <1>1, <1>2, Typing, FundedInvariant, PTL DEF Spec

-----------------------------------------------------------------------------
(* Retry-After *)

\* No one was told to wait for longer than the bucket is drained, or will be by
\* the response in hand: a drain that overwrites a longer one is noted for all.
DrainInv ==
  \A p \in Procs :
    told[p] <= IF pc[p] = "throttled" THEN now + delay[p] ELSE drainEnd

LEMMA DrainInvariant == Spec => []DrainInv
<1>1. Init => DrainInv
  <2>. SUFFICES ASSUME Init, NEW p \in Procs
                PROVE  told[p] <= IF pc[p] = "throttled" THEN now + delay[p] ELSE drainEnd
    BY DEF DrainInv
  <2>1. told[p] = 0 /\ pc[p] = "idle" /\ drainEnd = 0
    BY DEF Init
  <2>. QED
    BY <2>1
<1>2. TypeOK /\ DrainInv /\ [Next]_vars => DrainInv'
  <2>. SUFFICES ASSUME TypeOK, DrainInv, [Next]_vars
                PROVE  DrainInv'
    OBVIOUS
  <2>. USE BucketAssumption DEF TypeOK, DrainInv
  <2>1. ASSUME NEW p \in Procs, Drain(p)
        PROVE  DrainInv'
    <3>1. /\ pc[p] = "throttled" /\ now' = now /\ drainEnd' = now + delay[p]
          /\ told[p] <= now + delay[p]
      BY <2>1 DEF Drain
    <3>2. \A q \in Procs :
             /\ told'[q] <= told[q] /\ told'[q] <= now + delay[p] /\ told'[q] \in Nat
             /\ q # p => pc'[q] = pc[q] /\ delay'[q] = delay[q]
             /\ pc'[p] = "idle"
      BY <2>1 DEF Drain, Lesser
    <3>3. ASSUME NEW q \in Procs
          PROVE  told'[q] <= IF pc'[q] = "throttled" THEN now' + delay'[q] ELSE drainEnd'
      <4>1. CASE q = p
        BY <3>1, <3>2, <4>1
      <4>2. CASE q # p
        <5>1. told[q] <= IF pc[q] = "throttled" THEN now + delay[q] ELSE drainEnd
          OBVIOUS
        <5>2. pc'[q] = pc[q] /\ delay'[q] = delay[q] /\ told[q] \in Nat /\ delay[q] \in Nat
          BY <3>2, <4>2
        <5>. QED
          BY <3>1, <3>2, <5>1, <5>2
      <4>. QED
        BY <4>1, <4>2
    <3>. QED
      BY <3>3
  <2>2. ASSUME NEW p \in Procs, Throttle(p)
        PROVE  DrainInv'
    <3>1. PICK d \in Delays : /\ delay' = [delay EXCEPT ![p] = d]
                              /\ told' = [told EXCEPT ![p] = now + d]
      BY <2>2 DEF Throttle
    <3>. QED
      BY <2>2, <3>1 DEF Throttle
  <2>3. ASSUME NEW p \in Procs,
               Arrive(p) \/ TryDrained(p) \/ TryTake(p) \/ TryShort(p)
                 \/ Wake(p) \/ Cancel(p) \/ Finish(p)
        PROVE  DrainInv'
    BY <2>3 DEF Arrive, TryDrained, TryTake, TryShort, SleepUntil, Wake, Cancel,
       Finish, bucketVars
  <2>4. ASSUME Tick
        PROVE  DrainInv'
    BY <2>4 DEF Tick, bucketVars
  <2>5. CASE UNCHANGED vars
    BY <2>5 DEF vars, bucketVars
  <2>. QED
    BY <2>1, <2>2, <2>3, <2>4, <2>5 DEF Next
<1>. QED
  BY <1>1, <1>2, Typing, PTL DEF Spec

-----------------------------------------------------------------------------
(* The limiter in the chain.                                                 *)

\* Each step of the chain is one the limiter allows, or leaves it as it is.
LEMMA LimiterStepRefined == [PipelineNext]_pipelineVars => [Next]_vars
<1>. SUFFICES ASSUME [PipelineNext]_pipelineVars
              PROVE  [Next]_vars
  OBVIOUS
<1>1. ASSUME NEW p \in Procs,
             Refuse(p) \/ Abandon(p) \/ CallerCancels(p) \/ StartDirect(p) \/ SendDirect(p)
      PROVE  UNCHANGED vars
  BY <1>1 DEF Refuse, Abandon, CallerCancels, StartDirect, SendDirect
<1>2. ASSUME NEW p \in Procs, Enter(p) \/ Repeat(p)
      PROVE  Arrive(p)
  BY <1>2 DEF Enter, Repeat
<1>3. ASSUME NEW p \in Procs, LimiterStep(p)
      PROVE  TryDrained(p) \/ TryShort(p) \/ Wake(p)
  BY <1>3 DEF LimiterStep
<1>4. ASSUME NEW p \in Procs, Dispatch(p)
      PROVE  TryTake(p)
  BY <1>4 DEF Dispatch
<1>5. ASSUME NEW p \in Procs, LeaveQueue(p)
      PROVE  Cancel(p)
  BY <1>5 DEF LeaveQueue
<1>6. ASSUME NEW p \in Procs, Throttled(p)
      PROVE  Throttle(p)
  BY <1>6 DEF Throttled
<1>7. ASSUME NEW p \in Procs, NEW o \in R!Outcome, Answer(p, o)
      PROVE  Finish(p)
  BY <1>7 DEF Answer
<1>8. ASSUME NEW p \in Procs, NEW o \in R!Outcome, AnswerThrottled(p, o)
      PROVE  Drain(p)
  BY <1>8 DEF AnswerThrottled
<1>9. ASSUME NEW p \in Procs, NEW o \in R!Outcome, AnswerDirect(p, o)
      PROVE  UNCHANGED vars
  BY <1>9 DEF AnswerDirect
<1>10. ASSUME Time
       PROVE  Tick
  BY <1>10 DEF Time
<1>11. ASSUME Terminating \/ UNCHANGED pipelineVars
       PROVE  UNCHANGED vars
  BY <1>11 DEF Terminating, pipelineVars
<1>. QED
  BY <1>1, <1>2, <1>3, <1>4, <1>5, <1>6, <1>7, <1>8, <1>9, <1>10, <1>11
  DEF PipelineNext, Next

\* Whatever the chain does, the limiter only ever sees what TokenBucket lets
\* its requests do (executor.go:34-52, ratelimit.go:40-69).
LEMMA ChainLimited == PipelineSpec => Spec
<1>1. PipelineInit => Init
  BY DEF PipelineInit
<1>. QED
  BY <1>1, LimiterStepRefined, PTL DEF PipelineSpec, Spec

\* And so the promise of the bucket holds for the attempts of the chain, the
\* repeated ones too (ratelimit.go:111-146).
THEOREM ChainConformance == PipelineSpec => []WindowBound
BY ChainLimited, Conformance, PTL

\* A request that was told to wait, for whatever time, is not sent again before
\* the end of it, unless a later drain has set an earlier end for all
\* (ratelimit.go:30, 114-123, 148-153).
THEOREM RetryAfterHonoured == PipelineSpec => HonoursRetryAfter
<1>1. TypeOK /\ DrainInv /\ [Next]_vars
        => [\A p \in Procs : pc[p] # "calling" /\ pc'[p] = "calling" => now >= told[p]]_vars
  <2>. SUFFICES ASSUME TypeOK, DrainInv, [Next]_vars,
                       NEW p \in Procs, pc[p] # "calling", pc'[p] = "calling"
                PROVE  now >= told[p]
    OBVIOUS
  <2>1. ASSUME NEW q \in Procs,
               Arrive(q) \/ TryDrained(q) \/ TryShort(q) \/ Wake(q) \/ Cancel(q)
                 \/ Finish(q) \/ Throttle(q) \/ Drain(q)
        PROVE  FALSE
    BY <2>1 DEF TypeOK, Arrive, TryDrained, TryShort, SleepUntil, Wake, Cancel, Finish,
       Throttle, Drain
  <2>2. ~Tick /\ ~UNCHANGED vars
    BY DEF Tick, vars
  <2>3. PICK q \in Procs : TryTake(q)
    BY <2>1, <2>2 DEF Next
  <2>4. q = p
    BY <2>3 DEF TryTake, TypeOK
  <2>. QED
    <3>1. pc[p] = "trying" /\ now >= drainEnd
      BY <2>3, <2>4 DEF TryTake
    <3>2. told[p] <= drainEnd
      BY <3>1 DEF DrainInv
    <3>. QED
      BY <3>1, <3>2 DEF TypeOK
<1>. QED
  BY <1>1, ChainLimited, DrainInvariant, Typing, PTL DEF Spec, HonoursRetryAfter

-----------------------------------------------------------------------------
(* The retry loop.  The loop variable counts the calls, and while the loop   *)
(* runs none of them was a success or must not be repeated; so what the last *)
(* call came to decides alone whether there is another.                      *)

Running(p) ==
  /\ attempt[p] = Len(outcomes[p])
  /\ stage[p] = "ready" => outcomes[p] = << >>
  /\ outcomes[p] # << >> => R!Retryable(p)
  /\ \A i \in 1..Len(outcomes[p]) : outcomes[p][i] \notin R!Success

Reported(p) ==
  outcomes[p] # << >> =>
    IF R!Last(p) = R!NoResponse THEN result[p] = R!NoResult
    ELSE result[p] = [attempts |-> Len(outcomes[p]), outcome |-> R!Last(p)]

Ended(p) ==
  /\ Reported(p)
  /\ Len(outcomes[p]) > 1 => R!Retryable(p)
  /\ \A i \in 1..(Len(outcomes[p]) - 1) : outcomes[p][i] \notin R!Success
  /\ Handled(p) => ~GivenUpEarly(p)

RetryInv ==
  /\ attempt \in [Procs -> Nat]
  /\ DOMAIN stage = Procs /\ DOMAIN canceled = Procs
  /\ DOMAIN cap = Procs /\ DOMAIN result = Procs
  /\ outcomes \in [Procs -> Seq(R!Outcome)]
  /\ \A p \in Procs :
       /\ stage[p] # "done" => Running(p)
       /\ stage[p] = "backoff" => Reported(p) /\ outcomes[p] # << >>
       /\ stage[p] = "done" => Ended(p)

LEMMA RetryInvInit == PipelineInit => RetryInv
BY DEF PipelineInit, R!RetryInit, RetryInv, Running, R!Outcome

\* What the retry loop does in each of the steps of the chain.
RetryStep(p) ==
  \/ R!Start(p) \/ R!Send(p) \/ R!Reject(p) \/ R!Resume(p) \/ R!GiveUp(p)
  \/ R!CancelRequest(p)
  \/ \E o \in R!Outcome : R!Call(p, o)

LEMMA RetrySteps ==
  ASSUME [PipelineNext]_pipelineVars
  PROVE  (\E p \in Procs : RetryStep(p)) \/ UNCHANGED retryVars
<1>1. ASSUME NEW p \in Procs,
             \/ Refuse(p) \/ Enter(p) \/ Repeat(p) \/ Abandon(p) \/ CallerCancels(p)
             \/ Dispatch(p) \/ StartDirect(p) \/ SendDirect(p)
      PROVE  RetryStep(p)
  BY <1>1 DEF Refuse, Enter, Repeat, Abandon, CallerCancels, Dispatch, StartDirect,
    SendDirect, RetryStep
<1>2. ASSUME NEW p \in Procs, LeaveQueue(p)
      PROVE  RetryStep(p)
  BY <1>2 DEF LeaveQueue, RetryStep, R!Outcome
<1>3. ASSUME NEW p \in Procs, NEW o \in R!Outcome,
             Answer(p, o) \/ AnswerThrottled(p, o) \/ AnswerDirect(p, o)
      PROVE  RetryStep(p)
  BY <1>3 DEF Answer, AnswerThrottled, AnswerDirect, RetryStep
<1>4. ASSUME NEW p \in Procs, LimiterStep(p) \/ Throttled(p)
      PROVE  UNCHANGED retryVars
  BY <1>4 DEF LimiterStep, Throttled
<1>5. ASSUME Time \/ Terminating \/ UNCHANGED pipelineVars
      PROVE  UNCHANGED retryVars
  BY <1>5 DEF Time, Terminating, pipelineVars
<1>. QED
  BY <1>1, <1>2, <1>3, <1>4, <1>5 DEF PipelineNext

\* A status that is transient is no success.
LEMMA TransientFails ==
  /\ R!Transient \cap R!Success = {}
  /\ R!NoResponse \notin R!Success
BY DEF R!Transient, R!Success, R!NoResponse

\* One call more: its outcome is the last, and those before it stay.
LEMMA CallStep ==
  ASSUME RetryInv, NEW p \in Procs, NEW o \in R!Outcome, R!Call(p, o)
  PROVE  /\ stage'[p] = "backoff" => Running(p)' /\ Reported(p)' /\ outcomes'[p] # << >>
         /\ stage'[p] = "done" => Ended(p)'
         /\ stage'[p] \in {"backoff", "done"}
<1>. DEFINE old == outcomes[p]
            new == outcomes'[p]
<1>1. stage[p] \in {"sent", "calling", "void"} /\ Running(p)
  BY DEF R!Call, RetryInv
<1>2. old \in Seq(R!Outcome) /\ new = Append(old, o)
  BY DEF R!Call, RetryInv
<1>3. /\ new \in Seq(R!Outcome) /\ Len(new) = Len(old) + 1 /\ new # << >>
      /\ new[Len(new)] = o
      /\ \A i \in 1..Len(old) : new[i] = old[i]
  BY <1>2
<1>4. Len(old) \in Nat /\ attempt[p] = Len(old)
  BY <1>1, <1>2 DEF Running
<1>5. Reported(p)'
  <2>1. result'[p] = R!Returned(p, o)
    BY DEF R!Call, RetryInv
  <2>. QED
    BY <2>1, <1>3, <1>4 DEF Reported, R!Returned, R!Last
<1>6. \A i \in 1..(Len(new) - 1) : new[i] \notin R!Success
  BY <1>1, <1>3, <1>4 DEF Running
<1>7. Len(new) > 1 => R!Retryable(p)'
  <2>1. request' = request
    BY DEF R!Call
  <2>. QED
    BY <2>1, <1>1, <1>2, <1>3 DEF Running, R!Retryable
<1>8. CASE R!Again(p, o)
  <2>1. stage'[p] = "backoff" /\ attempt'[p] = attempt[p] + 1 /\ request' = request
    BY <1>8 DEF R!Call, RetryInv
  <2>2. R!Retryable(p)' /\ o \notin R!Success
    BY <1>8, <2>1 DEF R!Again, R!Retryable
  <2>3. \A i \in 1..Len(new) : new[i] \notin R!Success
    BY <2>2, <1>3, <1>4, <1>6
  <2>. QED
    BY <2>1, <2>2, <2>3, <1>3, <1>4, <1>5 DEF Running
<1>9. CASE ~R!Again(p, o)
  <2>1. stage'[p] = "done" /\ request' = request /\ canceled' = canceled
    BY <1>9 DEF R!Call, RetryInv
  <2>2. Handled(p)' => ~GivenUpEarly(p)'
    <3>. SUFFICES ASSUME Handled(p), request[p].method \in R!Idempotent,
                         o \in R!Transient
                  PROVE  ~(Len(new) < R!Attempts)
      BY <2>1, <1>3 DEF GivenUpEarly, Handled, R!Last
    <3>1. R!Retryable(p) /\ o \notin R!Success
      BY TransientFails DEF R!Retryable, Handled
    <3>. QED
      BY <3>1, <1>9, <1>3, <1>4 DEF R!Again
  <2>. QED
    BY <2>1, <2>2, <1>5, <1>6, <1>7 DEF Ended
<1>. QED
  BY <1>8, <1>9

LEMMA RetryInvStep == RetryInv /\ [PipelineNext]_pipelineVars => RetryInv'
<1>. SUFFICES ASSUME RetryInv, [PipelineNext]_pipelineVars
              PROVE  RetryInv'
  OBVIOUS
<1>1. CASE UNCHANGED retryVars
  BY <1>1 DEF retryVars, RetryInv, Running, Reported, Ended, GivenUpEarly, Handled,
    R!Retryable, R!Last
<1>2. ASSUME NEW p \in Procs, RetryStep(p)
      PROVE  RetryInv'
  <2>1. request' = request
    BY <1>2 DEF RetryStep, R!Start, R!Send, R!Reject, R!Resume, R!GiveUp,
      R!CancelRequest, R!Call
  <2>2. \A q \in Procs \ {p} :
          /\ stage'[q] = stage[q] /\ attempt'[q] = attempt[q]
          /\ outcomes'[q] = outcomes[q] /\ result'[q] = result[q]
          /\ canceled'[q] = canceled[q]
    BY <1>2 DEF RetryStep, R!Start, R!Send, R!Reject, R!Resume, R!GiveUp,
      R!CancelRequest, R!Call, RetryInv
  <2>3. \A q \in Procs \ {p} :
          /\ stage'[q] # "done" => Running(q)'
          /\ stage'[q] = "backoff" => Reported(q)' /\ outcomes'[q] # << >>
          /\ stage'[q] = "done" => Ended(q)'
    BY <2>1, <2>2 DEF RetryInv, Running, Reported, Ended, GivenUpEarly, Handled,
      R!Retryable, R!Last
  <2>4. /\ attempt' \in [Procs -> Nat]
        /\ DOMAIN stage' = Procs /\ DOMAIN canceled' = Procs
        /\ DOMAIN cap' = Procs /\ DOMAIN result' = Procs
        /\ outcomes' \in [Procs -> Seq(R!Outcome)]
    <3>1. CASE \E o \in R!Outcome : R!Call(p, o)
      <4>1. PICK o \in R!Outcome : R!Call(p, o)
        BY <3>1
      <4>2. Append(outcomes[p], o) \in Seq(R!Outcome)
        BY DEF RetryInv
      <4>3. outcomes' \in [Procs -> Seq(R!Outcome)]
        BY <4>1, <4>2 DEF R!Call, RetryInv
      <4>4. attempt' = attempt \/ attempt' = [attempt EXCEPT ![p] = attempt[p] + 1]
        BY <4>1 DEF R!Call
      <4>5. attempt' \in [Procs -> Nat]
        <5>1. attempt \in [Procs -> Nat] /\ attempt[p] \in Nat
          BY DEF RetryInv
        <5>2. attempt[p] + 1 \in Nat
          BY <5>1
        <5>. QED
          BY <5>1, <5>2, <4>4, SMT
      <4>6. /\ DOMAIN stage' = Procs /\ DOMAIN canceled' = Procs
            /\ DOMAIN cap' = Procs /\ DOMAIN result' = Procs
        <5>1. cap' = cap \/ \E c \in R!CapOf(attempt[p] + 1) : cap' = [cap EXCEPT ![p] = c]
          BY <4>1 DEF R!Call
        <5>2. DOMAIN cap' = Procs
          BY <5>1 DEF RetryInv
        <5>3. /\ \/ stage' = [stage EXCEPT ![p] = "backoff"]
                 \/ stage' = [stage EXCEPT ![p] = "done"]
              /\ canceled' = canceled
              /\ result' = [result EXCEPT ![p] = R!Returned(p, o)]
          BY <4>1 DEF R!Call
        <5>. QED
          BY <5>2, <5>3 DEF RetryInv
      <4>. QED
        BY <4>3, <4>5, <4>6
    <3>2. CASE ~\E o \in R!Outcome : R!Call(p, o)
      BY <3>2, <1>2 DEF RetryStep, R!Start, R!Send, R!Reject, R!Resume, R!GiveUp,
        R!CancelRequest, RetryInv
    <3>. QED
      BY <3>1, <3>2
  <2>5. ASSUME NEW o \in R!Outcome, R!Call(p, o)
        PROVE  /\ stage'[p] # "done" => Running(p)'
               /\ stage'[p] = "backoff" => Reported(p)' /\ outcomes'[p] # << >>
               /\ stage'[p] = "done" => Ended(p)'
    BY <2>5, CallStep
  <2>6. ASSUME \/ R!Start(p) \/ R!Send(p) \/ R!Resume(p) \/ R!CancelRequest(p)
        PROVE  /\ stage'[p] # "done" => Running(p)'
               /\ stage'[p] = "backoff" => Reported(p)' /\ outcomes'[p] # << >>
               /\ stage'[p] = "done" => Ended(p)'
    BY <2>6 DEF R!Start, R!Send, R!Resume, R!CancelRequest, RetryInv, Running,
      Reported, R!Retryable, R!Last
  <2>7. ASSUME R!Reject(p)
        PROVE  stage'[p] = "done" /\ Ended(p)'
    BY <2>7 DEF R!Reject, RetryInv, Running, Reported, Ended, GivenUpEarly
  <2>8. ASSUME R!GiveUp(p)
        PROVE  stage'[p] = "done" /\ Ended(p)'
    BY <2>8 DEF R!GiveUp, RetryInv, Running, Reported, Ended, GivenUpEarly,
      R!Retryable, R!Last
  <2>9. /\ stage'[p] # "done" => Running(p)'
        /\ stage'[p] = "backoff" => Reported(p)' /\ outcomes'[p] # << >>
        /\ stage'[p] = "done" => Ended(p)'
    BY <1>2, <2>5, <2>6, <2>7, <2>8 DEF RetryStep
  <2>. QED
    BY <2>3, <2>4, <2>9 DEF RetryInv
<1>. QED
  BY <1>1, <1>2, RetrySteps

LEMMA RetryInvariant == PipelineSpec => []RetryInv
BY RetryInvInit, RetryInvStep, PTL DEF PipelineSpec

\* A request that must not be repeated reaches the upstream once, and nothing
\* is repeated after a success (retry.go:40-42, 57-61).
THEOREM NoRepetition == PipelineSpec => []SentOnce
<1>1. RetryInv => SentOnce
  <2>. SUFFICES ASSUME RetryInv, NEW p \in Procs
                PROVE  /\ request[p].method \notin R!Idempotent => Len(outcomes[p]) <= 1
                       /\ \A i \in 1..(Len(outcomes[p]) - 1) :
                            outcomes[p][i] \notin R!Success
    BY DEF SentOnce
  <2>1. outcomes[p] \in Seq(R!Outcome)
    BY DEF RetryInv
  <2>2. Len(outcomes[p]) \in Nat /\ (Len(outcomes[p]) > 1 => outcomes[p] # << >>)
    BY <2>1
  <2>3. CASE stage[p] # "done"
    BY <2>2, <2>3 DEF RetryInv, Running, R!Retryable
  <2>4. CASE stage[p] = "done"
    BY <2>2, <2>4 DEF RetryInv, Ended, R!Retryable
  <2>. QED
    BY <2>3, <2>4
<1>. QED
  BY <1>1, RetryInvariant, PTL

\* The caller gets the last call's result and the number of calls
\* (retry.go:51-67).
THEOREM LastReported == PipelineSpec => []ReportsLast
<1>1. RetryInv => ReportsLast
  BY DEF RetryInv, Ended, Reported, ReportsLast
<1>. QED
  BY <1>1, RetryInvariant, PTL

\* A safe request that goes through the chain is not given up early
\* (retry.go:47-64).
THEOREM Persistence == PipelineSpec => []HandlerRetries
<1>1. RetryInv => HandlerRetries
  BY DEF RetryInv, Ended, HandlerRetries, GivenUpEarly
<1>. QED
  BY <1>1, RetryInvariant, PTL

-----------------------------------------------------------------------------
(* The waits.                                                                *)

\* What math.Pow(2, n) is: the definition by recursion has a solution.
LEMMA PowerEquation ==
  \A n \in Nat : R!Power[n] = IF n = 0 THEN 1 ELSE 2 * R!Power[n - 1]
<1>. DEFINE G == [f \in [Nat -> Int] |-> [n \in Nat |-> IF n = 0 THEN 1 ELSE 2 * f[n - 1]]]
<1>1. Body(Nat, Int, Before, G)
  BY DEF Body, AgreeOn, Before
<1>2. HasFixpoint(Nat, Int, G)
  <2>. HIDE DEF G
  <2>1. Int # {}
    OBVIOUS
  <2>. QED
    BY <1>1, <2>1, BeforeWellFounded, Recursion
<1>3. PICK f \in [Nat -> Int] : \A n \in Nat : f[n] = G[f][n]
  BY <1>2 DEF HasFixpoint
<1>4. f = [n \in Nat |-> IF n = 0 THEN 1 ELSE 2 * f[n - 1]]
  BY <1>3
<1>5. R!Power = [n \in Nat |-> IF n = 0 THEN 1 ELSE 2 * R!Power[n - 1]]
  BY <1>4 DEF R!Power
<1>. QED
  BY <1>5

\* Powers of 2 are positive, and grow.
LEMMA PowerGrows ==
  \A n \in Nat : /\ R!Power[n] \in Nat \ {0}
                 /\ R!Power[n] <= R!Power[n + 1]
<1>. DEFINE S == {n \in Nat : R!Power[n] \in Nat \ {0}}
<1>1. R!Power[0] = 1 /\ \A n \in Nat : R!Power[n + 1] = 2 * R!Power[n]
  BY PowerEquation
<1>2. 0 \in S
  BY <1>1
<1>3. \A n \in Nat : n \in S => n + 1 \in S
  BY <1>1
<1>. HIDE DEF S
<1>4. Nat \subseteq S
  BY <1>2, <1>3, InductionOverNat
<1>5. \A n \in Nat : R!Power[n] \in Nat \ {0}
  BY <1>4 DEF S
<1>. QED
  BY <1>1, <1>5

LEMMA PowerMonotone ==
  ASSUME NEW m \in Nat, NEW n \in Nat, m <= n
  PROVE  R!Power[m] <= R!Power[n]
<1>. DEFINE S == {k \in Nat : R!Power[m] <= R!Power[m + k]}
<1>1. 0 \in S
  BY PowerGrows
<1>2. \A k \in Nat : k \in S => k + 1 \in S
  <2>. SUFFICES ASSUME NEW k \in Nat, k \in S
                PROVE  R!Power[m] <= R!Power[m + (k + 1)]
    OBVIOUS
  <2>1. m + (k + 1) = (m + k) + 1 /\ m + k \in Nat
    OBVIOUS
  <2>2. R!Power[m + k] <= R!Power[(m + k) + 1] /\ R!Power[m + k] \in Nat
        /\ R!Power[(m + k) + 1] \in Nat /\ R!Power[m] \in Nat
    BY <2>1, PowerGrows
  <2>. QED
    BY <2>1, <2>2
<1>. HIDE DEF S
<1>3. n - m \in S
  BY <1>1, <1>2, InductionOverNat
<1>. QED
  BY <1>3 DEF S
\* The bound of a wait is a natural number, no more than MaxDelay.
LEMMA CapType ==
  ASSUME NEW a \in Nat, NEW c \in R!CapOf(a)
  PROVE  c \in 0..MaxDelay
<1>1. BaseDelay * R!Power[a] \in Nat
  <2>1. BaseDelay \in Nat /\ R!Power[a] \in Nat
    BY PowerGrows, RetryAssumption
  <2>. QED
    BY <2>1, Product
<1>2. PICK wait \in Nat : wait = BaseDelay * R!Power[a]
  BY <1>1
<1>3. c \in {0, MaxDelay} \/ c = (IF wait > MaxDelay THEN MaxDelay ELSE wait)
  BY <1>2 DEF R!CapOf
<1>. QED
  BY <1>2, <1>3, RetryAssumption

\* A request that goes on has attempts left.
RetryTyped ==
  /\ R!RetryTypeOK
  /\ \A p \in Procs : stage[p] # "done" => attempt[p] < R!Attempts

LEMMA AttemptsType == R!Attempts \in Nat \ {0}
BY RetryAssumption DEF R!Attempts

LEMMA RetryTypedInit == PipelineInit => RetryTyped
<1>. SUFFICES ASSUME PipelineInit PROVE RetryTyped
  OBVIOUS
<1>1. R!NoResult \in [attempts : 0..R!Attempts, outcome : R!Outcome]
  BY AttemptsType DEF R!NoResult, R!Outcome
<1>2. << >> \in Seq(R!Outcome) /\ Len(<< >>) = 0
  OBVIOUS
<1>. QED
  BY <1>1, <1>2, AttemptsType, RetryAssumption
  DEF PipelineInit, R!RetryInit, RetryTyped, R!RetryTypeOK

LEMMA RetryTypedCall ==
  ASSUME RetryInv, RetryTyped, NEW p \in Procs, NEW o \in R!Outcome, R!Call(p, o)
  PROVE  RetryTyped'
<1>. USE AttemptsType
<1>1. /\ stage[p] \in {"sent", "calling", "void"} /\ attempt[p] \in Nat
      /\ attempt[p] < R!Attempts
      /\ attempt[p] = Len(outcomes[p]) /\ outcomes[p] \in Seq(R!Outcome)
  BY DEF R!Call, RetryInv, RetryTyped, Running
<1>2. /\ outcomes' = [outcomes EXCEPT ![p] = Append(outcomes[p], o)]
      /\ result' = [result EXCEPT ![p] = R!Returned(p, o)]
      /\ UNCHANGED canceled
  BY DEF R!Call
<1>3. R!Returned(p, o) \in [attempts : 0..R!Attempts, outcome : R!Outcome]
  BY <1>1 DEF R!Returned, R!NoResult, R!Outcome
<1>4. result' \in [Procs -> [attempts : 0..R!Attempts, outcome : R!Outcome]]
  BY <1>2, <1>3 DEF RetryTyped, R!RetryTypeOK
<1>5. ASSUME NEW q \in Procs
      PROVE  outcomes'[q] \in Seq(R!Outcome) /\ Len(outcomes'[q]) <= R!Attempts
  <2>1. outcomes[q] \in Seq(R!Outcome) /\ Len(outcomes[q]) <= R!Attempts
    BY DEF RetryTyped, R!RetryTypeOK
  <2>2. /\ Append(outcomes[p], o) \in Seq(R!Outcome)
        /\ Len(Append(outcomes[p], o)) = Len(outcomes[p]) + 1
    BY <1>1
  <2>3. outcomes'[q] = IF q = p THEN Append(outcomes[p], o) ELSE outcomes[q]
    BY <1>2 DEF RetryInv
  <2>. QED
    BY <1>1, <2>1, <2>2, <2>3
<1>6. CASE R!Again(p, o)
  <2>1. PICK c \in R!CapOf(attempt[p] + 1) :
          /\ stage' = [stage EXCEPT ![p] = "backoff"]
          /\ attempt' = [attempt EXCEPT ![p] = attempt[p] + 1]
          /\ cap' = [cap EXCEPT ![p] = c]
    BY <1>6 DEF R!Call
  <2>2. c \in 0..MaxDelay /\ attempt[p] + 1 \in 0..R!Attempts
        /\ attempt[p] + 1 < R!Attempts
    BY <1>1, <1>6, CapType DEF R!Again
  <2>3. /\ cap' \in [Procs -> 0..MaxDelay]
        /\ attempt' \in [Procs -> 0..R!Attempts]
        /\ stage' \in [Procs -> {"ready", "calling", "sent", "void", "backoff", "done"}]
    BY <2>1, <2>2 DEF RetryTyped, R!RetryTypeOK
  <2>4. \A q \in Procs : stage'[q] # "done" => attempt'[q] < R!Attempts
    BY <2>1, <2>2 DEF RetryTyped, R!RetryTypeOK
  <2>. QED
    BY <1>2, <1>4, <1>5, <2>3, <2>4 DEF RetryTyped, R!RetryTypeOK
<1>7. CASE ~R!Again(p, o)
  <2>1. stage' = [stage EXCEPT ![p] = "done"] /\ UNCHANGED <<attempt, cap>>
    BY <1>7 DEF R!Call
  <2>. QED
    BY <1>2, <1>4, <1>5, <2>1 DEF RetryTyped, R!RetryTypeOK
<1>. QED
  BY <1>6, <1>7

LEMMA RetryTypedStep ==
  RetryInv /\ RetryTyped /\ [PipelineNext]_pipelineVars => RetryTyped'
<1>. SUFFICES ASSUME RetryInv, RetryTyped, [PipelineNext]_pipelineVars
              PROVE  RetryTyped'
  OBVIOUS
<1>1. CASE UNCHANGED retryVars
  BY <1>1 DEF retryVars, RetryTyped, R!RetryTypeOK
<1>2. ASSUME NEW p \in Procs, RetryStep(p)
      PROVE  RetryTyped'
  <2>1. ASSUME NEW o \in R!Outcome, R!Call(p, o)
        PROVE  RetryTyped'
    BY <2>1, RetryTypedCall
  <2>2. CASE R!Start(p) \/ R!Send(p) \/ R!Reject(p) \/ R!Resume(p) \/ R!GiveUp(p)
    BY <2>2 DEF R!Start, R!Send, R!Reject, R!Resume, R!GiveUp, RetryTyped, R!RetryTypeOK
  <2>3. CASE R!CancelRequest(p)
    BY <2>3 DEF R!CancelRequest, RetryTyped, R!RetryTypeOK
  <2>. QED
    BY <1>2, <2>1, <2>2, <2>3 DEF RetryStep
<1>. QED
  BY <1>1, <1>2, RetrySteps

\* Every variable of the chain keeps its type: among others, no request makes
\* more attempts than it has, and no wait is longer than MaxDelay
\* (retry.go:47-64, 76-87).
THEOREM ChainTyping == PipelineSpec => []PipelineTypeOK
<1>1. RetryTyped => R!RetryTypeOK
  BY DEF RetryTyped
<1>2. PipelineSpec => []TypeOK
  BY ChainLimited, Typing, PTL
<1>. QED
  BY <1>1, <1>2, RetryTypedInit, RetryTypedStep, RetryInvariant, PTL
  DEF PipelineSpec, PipelineTypeOK

\* The longest wait before the last attempt fits in a Duration.
Fits == BaseDelay * R!Power[R!Attempts - 1] < 2^(Width - 1)

\* The bound before attempt a.
Bounded(a) == IF a = 0 THEN 0 ELSE Lesser(MaxDelay, BaseDelay * R!Power[a])

CapInv == \A p \in Procs : stage[p] # "done" => cap[p] = Bounded(attempt[p])

LEMMA BoundedGrows ==
  ASSUME NEW a \in Nat
  PROVE  /\ Bounded(a) \in Nat
         /\ Bounded(a) <= Bounded(a + 1)
<1>1. PICK x \in Nat : x = R!Power[a]
  BY PowerGrows
<1>2. PICK y \in Nat : y = R!Power[a + 1]
  BY PowerGrows
<1>3. x <= y
  BY <1>1, <1>2, PowerGrows
<1>4. BaseDelay \in Nat /\ MaxDelay \in Nat
  BY RetryAssumption
<1>5. /\ x * BaseDelay <= y * BaseDelay /\ x * BaseDelay = BaseDelay * x
      /\ y * BaseDelay = BaseDelay * y
      /\ BaseDelay * x \in Nat /\ BaseDelay * y \in Nat
  BY <1>3, <1>4, Monotone, Product
<1>6. PICK u \in Nat : u = BaseDelay * x
  BY <1>5
<1>7. PICK v \in Nat : v = BaseDelay * y
  BY <1>5
<1>8. u <= v
  BY <1>5, <1>6, <1>7
<1>9. Bounded(a) = (IF a = 0 THEN 0 ELSE Lesser(MaxDelay, u))
      /\ Bounded(a + 1) = Lesser(MaxDelay, v)
  BY <1>1, <1>2, <1>6, <1>7 DEF Bounded
<1>. QED
  BY <1>4, <1>8, <1>9 DEF Lesser

\* As long as the delays fit, CapOf has one bound to offer.
LEMMA OneCap ==
  ASSUME Fits, NEW a \in Nat \ {0}, a < R!Attempts, NEW c \in R!CapOf(a)
  PROVE  c = Bounded(a)
<1>1. R!Power[a] \in Nat /\ R!Power[R!Attempts - 1] \in Nat
      /\ R!Power[a] <= R!Power[R!Attempts - 1]
  BY AttemptsType, PowerGrows, PowerMonotone
<1>2. PICK x \in Nat : x = R!Power[a]
  BY <1>1
<1>3. PICK y \in Nat : y = R!Power[R!Attempts - 1]
  BY <1>1
<1>4. BaseDelay \in Nat /\ MaxDelay \in Nat
  BY RetryAssumption
<1>5. /\ x * BaseDelay <= y * BaseDelay /\ x * BaseDelay = BaseDelay * x
      /\ y * BaseDelay = BaseDelay * y
      /\ BaseDelay * x \in Nat /\ BaseDelay * y \in Nat
  BY <1>1, <1>2, <1>3, <1>4, Monotone, Product
<1>6. PICK u \in Nat : u = BaseDelay * x
  BY <1>5
<1>7. PICK v \in Nat : v = BaseDelay * y
  BY <1>5
<1>8. u <= v
  BY <1>5, <1>6, <1>7
<1>9. PICK top \in Int : top = 2^(Width - 1)
  BY RetryAssumption
<1>10. v < top
  BY <1>3, <1>7, <1>9 DEF Fits
<1>11. c = IF u > MaxDelay THEN MaxDelay ELSE u
  BY <1>2, <1>6, <1>8, <1>9, <1>10 DEF R!CapOf
<1>12. Bounded(a) = Lesser(MaxDelay, u)
  BY <1>2, <1>6 DEF Bounded
<1>. QED
  BY <1>4, <1>11, <1>12 DEF Lesser

\* What a call does to the wait, and that nothing else touches it.
LEMMA CapStep ==
  ASSUME Fits, RetryInv, RetryTyped, CapInv, [PipelineNext]_pipelineVars
  PROVE  CapInv' /\ \A p \in Procs : cap'[p] >= cap[p]
<1>0. /\ cap \in [Procs -> 0..MaxDelay] /\ attempt \in [Procs -> Nat]
      /\ DOMAIN stage = Procs /\ MaxDelay \in Nat
  BY RetryAssumption DEF RetryTyped, R!RetryTypeOK, RetryInv
<1>1. CASE UNCHANGED retryVars
  BY <1>0, <1>1 DEF retryVars, CapInv, Bounded
<1>2. ASSUME NEW p \in Procs, RetryStep(p)
      PROVE  CapInv' /\ \A q \in Procs : cap'[q] >= cap[q]
  <2>1. ASSUME NEW o \in R!Outcome, R!Call(p, o)
        PROVE  CapInv' /\ \A q \in Procs : cap'[q] >= cap[q]
    <3>1. CASE R!Again(p, o)
      <4>1. PICK c \in R!CapOf(attempt[p] + 1) :
              /\ stage' = [stage EXCEPT ![p] = "backoff"]
              /\ attempt' = [attempt EXCEPT ![p] = attempt[p] + 1]
              /\ cap' = [cap EXCEPT ![p] = c]
        BY <2>1, <3>1 DEF R!Call
      <4>2. attempt[p] + 1 \in Nat \ {0} /\ attempt[p] + 1 < R!Attempts
        BY <1>0, <3>1 DEF R!Again
      <4>3. c = Bounded(attempt[p] + 1)
        BY <4>2, OneCap
      <4>4. cap[p] = Bounded(attempt[p])
        BY <2>1 DEF R!Call, CapInv
      <4>5. c >= cap[p] /\ cap[p] \in Nat
        BY <1>0, <4>2, <4>3, <4>4, BoundedGrows
      <4>6. ASSUME NEW q \in Procs
            PROVE  (stage'[q] # "done" => cap'[q] = Bounded(attempt'[q])) /\ cap'[q] >= cap[q]
        BY <1>0, <4>1, <4>3, <4>5 DEF CapInv
      <4>. QED
        BY <4>6 DEF CapInv, Bounded
    <3>2. CASE ~R!Again(p, o)
      <4>1. stage' = [stage EXCEPT ![p] = "done"] /\ UNCHANGED <<attempt, cap>>
        BY <2>1, <3>2 DEF R!Call
      <4>. QED
        BY <1>0, <4>1 DEF CapInv, Bounded
    <3>. QED
      BY <3>1, <3>2
  <2>2. CASE R!Start(p) \/ R!Send(p) \/ R!Reject(p) \/ R!Resume(p) \/ R!GiveUp(p)
             \/ R!CancelRequest(p)
    BY <1>0, <2>2 DEF R!Start, R!Send, R!Reject, R!Resume, R!GiveUp, R!CancelRequest,
      CapInv, Bounded
  <2>. QED
    BY <1>2, <2>1, <2>2 DEF RetryStep
<1>. QED
  BY <1>1, <1>2, RetrySteps

\* Each wait is drawn from a range no smaller than the last, as long as the
\* longest of them fits in a Duration (retry.go:76-81).
THEOREM WaitsGrow == Fits => (PipelineSpec => BackoffGrows)
<1>. SUFFICES ASSUME Fits
              PROVE  PipelineSpec => BackoffGrows
  OBVIOUS
<1>1. PipelineInit => CapInv
  BY DEF PipelineInit, R!RetryInit, CapInv, Bounded
<1>2. RetryInv /\ RetryTyped /\ CapInv /\ [PipelineNext]_pipelineVars
        => CapInv' /\ [\A p \in Procs : cap'[p] >= cap[p]]_cap
  BY CapStep
<1>. QED
  BY <1>1, <1>2, RetryTypedInit, RetryTypedStep, RetryInvariant, PTL
  DEF PipelineSpec, BackoffGrows

-----------------------------------------------------------------------------
(* Every attempt that reaches the upstream has a token of its own: each is   *)
(* counted once, when the limiter lets it through.                           *)

Spares(p) == \A c \in Reached' : c[1] = p => c \in Reached

\* The retry loop reaches the upstream by Send alone.
LEMMA ReachedStep ==
  ASSUME RetryInv, NEW p \in Procs, RetryStep(p)
  PROVE  /\ \A c \in Reached' : c[1] # p => c \in Reached
         /\ R!Send(p) \/ Spares(p)
         /\ ~Handled(p) => Spares(p)
<1>1. request' = request
  BY DEF RetryStep, R!Start, R!Send, R!Reject, R!Resume, R!GiveUp, R!CancelRequest, R!Call
<1>2. \A q \in Procs \ {p} : stage'[q] = stage[q] /\ outcomes'[q] = outcomes[q]
  BY DEF RetryStep, R!Start, R!Send, R!Reject, R!Resume, R!GiveUp, R!CancelRequest,
    R!Call, RetryInv
<1>3. \A c \in Reached' : c[1] # p => c \in Reached
  BY <1>1, <1>2 DEF Reached, Arrived, Handled
<1>4. ~Handled(p) => Spares(p)
  BY <1>1 DEF Spares, Reached, Handled
<1>5. CASE R!Start(p) \/ R!Reject(p) \/ R!Resume(p) \/ R!GiveUp(p)
  <2>1. stage'[p] # "sent" /\ outcomes' = outcomes
    BY <1>5 DEF R!Start, R!Reject, R!Resume, R!GiveUp, RetryInv
  <2>. QED
    BY <2>1, <1>1, <1>3, <1>4 DEF Spares, Reached, Arrived, Handled
<1>6. CASE R!CancelRequest(p)
  <2>1. stage' = stage /\ outcomes' = outcomes
    BY <1>6 DEF R!CancelRequest
  <2>. QED
    BY <2>1, <1>1, <1>3, <1>4 DEF Spares, Reached, Arrived, Handled
<1>7. ASSUME NEW o \in R!Outcome, R!Call(p, o)
      PROVE  Spares(p)
  <2>1. /\ stage[p] = "sent" \/ o = R!NoResponse
        /\ outcomes'[p] = Append(outcomes[p], o)
        /\ stage'[p] # "sent"
    BY <1>7 DEF R!Call, RetryInv
  <2>2. PICK n \in Nat : n = Len(outcomes[p])
    BY DEF RetryInv
  <2>3. /\ Len(outcomes'[p]) = n + 1
        /\ outcomes'[p][n + 1] = o
        /\ \A i \in 1..n : outcomes'[p][i] = outcomes[p][i]
    BY <2>1, <2>2 DEF RetryInv
  <2>. SUFFICES ASSUME NEW c \in Reached', c[1] = p
                PROVE  c \in Reached
    BY DEF Spares
  <2>4. /\ c \in Procs \X (1..R!Attempts) /\ Handled(p)'
        /\ c[2] <= n + 1 /\ outcomes'[p][c[2]] # R!NoResponse
    BY <2>1, <2>3 DEF Reached, Arrived
  <2>5. CASE c[2] \in 1..n
    BY <2>2, <2>3, <2>4, <2>5, <1>1 DEF Reached, Arrived, Handled
  <2>6. CASE c[2] = n + 1
    BY <2>1, <2>2, <2>3, <2>4, <2>6, <1>1 DEF Reached, Arrived, Handled
  <2>7. c[2] \in Nat /\ c[2] >= 1
    BY <2>4, AttemptsType
  <2>. QED
    BY <2>2, <2>4, <2>5, <2>6, <2>7
<1>. QED
  BY <1>3, <1>4, <1>5, <1>6, <1>7 DEF RetryStep

PaidInv == IsFiniteSet(Reached) /\ Cardinality(Reached) <= Len(released)

LEMMA OneMore ==
  ASSUME NEW S, NEW x, IsFiniteSet(S)
  PROVE  IsFiniteSet(S \cup {x}) /\ Cardinality(S \cup {x}) <= Cardinality(S) + 1
<1>1. Cardinality(S) \in Nat
  BY FS_CardinalityType
<1>. QED
  BY <1>1, FS_AddElement

\* Only Dispatch, which takes a token, sends a request of the chain.
LEMMA PaidStep ==
  ASSUME TypeOK, TypeOK', RetryInv, PaidInv, [PipelineNext]_pipelineVars
  PROVE  PaidInv'
<1>0. Len(released) \in Nat /\ released \in Seq(Nat)
  BY DEF TypeOK
<1>1. ASSUME Reached' \subseteq Reached, Len(released') >= Len(released), Len(released') \in Nat
      PROVE  PaidInv'
  <2>1. IsFiniteSet(Reached') /\ Cardinality(Reached') <= Cardinality(Reached)
    BY <1>1, FS_Subset DEF PaidInv
  <2>2. Cardinality(Reached) \in Nat /\ Cardinality(Reached') \in Nat
    BY <2>1, FS_CardinalityType DEF PaidInv
  <2>. QED
    BY <1>0, <1>1, <2>1, <2>2 DEF PaidInv
<1>2. ASSUME NEW p \in Procs, Dispatch(p)
      PROVE  PaidInv'
  <2>1. R!Send(p) /\ Len(released') = Len(released) + 1
    BY <1>0, <1>2 DEF Dispatch, TryTake
  <2>2. \A c \in Reached' : c[1] # p => c \in Reached
    BY <2>1, ReachedStep DEF RetryStep
  <2>. DEFINE n == Len(outcomes[p])
  <2>3. ASSUME NEW c \in Reached', c[1] = p
        PROVE  c \in Reached \cup {<<p, n + 1>>}
    <3>1. outcomes' = outcomes /\ request' = request
      BY <2>1 DEF R!Send
    <3>2. c \in Procs \X (1..R!Attempts) /\ Handled(p)
      BY <2>3, <3>1 DEF Reached, Handled
    <3>3. c[2] = n + 1 \/ (c[2] <= n /\ outcomes[p][c[2]] # R!NoResponse)
      BY <2>3, <3>1 DEF Reached, Arrived
    <3>4. c = <<c[1], c[2]>>
      BY <3>2
    <3>. QED
      BY <2>3, <3>2, <3>3, <3>4 DEF Reached, Arrived
  <2>. DEFINE more == Reached \cup {<<p, n + 1>>}
  <2>4. Reached' \subseteq more
    BY <2>2, <2>3
  <2>5. IsFiniteSet(more) /\ Cardinality(more) <= Cardinality(Reached) + 1
    <3>. HIDE DEF Reached, n
    <3>. QED
      BY OneMore DEF PaidInv
  <2>. HIDE DEF more
  <2>6. IsFiniteSet(Reached') /\ Cardinality(Reached') <= Cardinality(more)
    BY <2>4, <2>5, FS_Subset
  <2>7. Cardinality(Reached) \in Nat /\ Cardinality(Reached') \in Nat /\ Cardinality(more) \in Nat
    BY <2>5, <2>6, FS_CardinalityType DEF PaidInv
  <2>. QED
    BY <1>0, <2>1, <2>5, <2>6, <2>7 DEF PaidInv
<1>3. CASE UNCHANGED <<released, retryVars>>
  BY <1>0, <1>1, <1>3 DEF retryVars, Reached, Arrived, Handled
<1>4. ASSUME NEW p \in Procs, RetryStep(p), UNCHANGED released, ~R!Send(p) \/ ~Handled(p)
      PROVE  PaidInv'
  <2>1. Reached' \subseteq Reached
    BY <1>4, ReachedStep DEF Spares
  <2>. QED
    BY <1>0, <1>1, <1>4, <2>1
<1>5. ASSUME NEW p \in Procs,
             Refuse(p) \/ Enter(p) \/ Repeat(p) \/ Abandon(p) \/ CallerCancels(p) \/ StartDirect(p)
      PROVE  RetryStep(p) /\ UNCHANGED released /\ ~R!Send(p)
  BY <1>5 DEF Refuse, Enter, Repeat, Abandon, CallerCancels, StartDirect, RetryStep, vars,
    Arrive, R!Reject, R!Start, R!Resume, R!GiveUp, R!CancelRequest, R!Send, RetryInv
<1>6. ASSUME NEW p \in Procs, SendDirect(p)
      PROVE  RetryStep(p) /\ UNCHANGED released /\ ~Handled(p)
  BY <1>6 DEF SendDirect, RetryStep, vars
<1>7. ASSUME NEW p \in Procs, NEW o \in R!Outcome,
             \/ Answer(p, o) \/ AnswerThrottled(p, o) \/ AnswerDirect(p, o)
             \/ LeaveQueue(p) /\ o = R!NoResponse
      PROVE  RetryStep(p) /\ UNCHANGED released /\ ~R!Send(p)
  <2>1. R!Call(p, o) /\ UNCHANGED released
    BY <1>7 DEF Answer, AnswerThrottled, AnswerDirect, LeaveQueue, Finish, Drain, Cancel, vars
  <2>. QED
    BY <2>1 DEF RetryStep, R!Call, R!Send, RetryInv
<1>8. ASSUME NEW p \in Procs, LimiterStep(p) \/ Throttled(p)
      PROVE  UNCHANGED <<released, retryVars>>
  BY <1>8 DEF LimiterStep, Throttled, TryDrained, TryShort, Wake, Throttle
<1>9. ASSUME Time \/ Terminating \/ UNCHANGED pipelineVars
      PROVE  UNCHANGED <<released, retryVars>>
  BY <1>9 DEF Time, Tick, Terminating, pipelineVars, vars
<1>10. ASSUME NEW p \in Procs, LeaveQueue(p)
       PROVE  PaidInv'
  <2>1. R!NoResponse \in R!Outcome
    BY DEF R!Outcome
  <2>. QED
    BY <1>4, <1>7, <1>10, <2>1
<1>. QED
  BY <1>2, <1>3, <1>4, <1>5, <1>6, <1>7, <1>8, <1>9, <1>10 DEF PipelineNext

\* However requests are retried, canceled and throttled, no more attempts reach
\* the upstream than the bucket has given tokens for (ratelimit.go:52-58).
THEOREM Payment == PipelineSpec => []Paid
<1>1. PipelineInit => PaidInv
  <2>. SUFFICES ASSUME PipelineInit PROVE PaidInv
    OBVIOUS
  <2>1. Reached = {}
    BY DEF PipelineInit, R!RetryInit, Reached, Arrived
  <2>2. Len(released) = 0
    BY DEF PipelineInit, Init
  <2>. QED
    BY <2>1, <2>2, FS_EmptySet DEF PaidInv
<1>2. PaidInv => Paid
  BY DEF PaidInv, Paid
<1>3. PipelineSpec => []TypeOK
  BY ChainLimited, Typing, PTL
<1>. QED
  BY <1>1, <1>2, <1>3, PaidStep, RetryInvariant, PTL DEF PipelineSpec

-----------------------------------------------------------------------------
(* Validation.  The definitions by recursion have solutions, since values    *)
(* and schemas end somewhere.                                                *)

LEMMA ValuesEnd == WellFounded(Values, ValueParts)
<1>1. ValueParts \in [Values -> SUBSET Values]
  <2>1. \A v \in Values : ValueParts[v] \subseteq Values
    BY ValidateAssumption
  <2>2. DOMAIN ValueParts = Values /\ ValueParts = [v \in DOMAIN ValueParts |-> ValueParts[v]]
    BY DEF ValueParts
  <2>. QED
    BY <2>1, <2>2
<1>. QED
  BY <1>1, NestingAssumption DEF WellFounded

LEMMA SchemasEnd == WellFounded(Schemas, SchemaParts)
<1>1. SchemaParts \in [Schemas -> SUBSET Schemas]
  <2>1. \A s \in Schemas : SchemaParts[s] \subseteq Schemas
    BY ValidateAssumption
  <2>2. DOMAIN SchemaParts = Schemas /\ SchemaParts = [s \in DOMAIN SchemaParts |-> SchemaParts[s]]
    BY DEF SchemaParts
  <2>. QED
    BY <2>1, <2>2
<1>. QED
  BY <1>1, NestingAssumption DEF WellFounded

\* The parts of a value and of a schema.
LEMMA Parts ==
  ASSUME NEW v \in Values, NEW s \in Schemas
  PROVE  /\ \A i \in DOMAIN v.items : v.items[i] \in ValueParts[v] /\ v.items[i] \in Values
         /\ \A f \in DOMAIN v.fields : v.fields[f] \in ValueParts[v] /\ v.fields[f] \in Values
         /\ \A t \in s.items : t \in SchemaParts[s] /\ t \in Schemas
         /\ \A f \in DOMAIN s.props : s.props[f] \in SchemaParts[s] /\ s.props[f] \in Schemas
<1>1. /\ \A i \in DOMAIN v.items : v.items[i] \in ValueParts[v]
      /\ \A f \in DOMAIN v.fields : v.fields[f] \in ValueParts[v]
  BY DEF ValueParts
<1>2. /\ \A t \in s.items : t \in SchemaParts[s]
      /\ \A f \in DOMAIN s.props : s.props[f] \in SchemaParts[s]
  BY DEF SchemaParts
<1>. QED
  BY <1>1, <1>2, ValidateAssumption

Steps ==
  (UNION {DOMAIN v.items \cup DOMAIN v.fields : v \in Values})
    \cup (UNION {s.required : s \in Schemas})
Found == [path : Seq(Steps), reason : {"type", "enum", "required"}]

LEMMA StepsType ==
  /\ \A v \in Values : DOMAIN v.items \subseteq Steps /\ DOMAIN v.fields \subseteq Steps
  /\ \A s \in Schemas : s.required \subseteq Steps
<1>1. ASSUME NEW v \in Values
      PROVE  DOMAIN v.items \subseteq Steps /\ DOMAIN v.fields \subseteq Steps
  <2>1. DOMAIN v.items \cup DOMAIN v.fields
          \in {DOMAIN w.items \cup DOMAIN w.fields : w \in Values}
    OBVIOUS
  <2>. QED
    BY <2>1 DEF Steps
<1>2. ASSUME NEW s \in Schemas
      PROVE  s.required \subseteq Steps
  <2>1. s.required \in {t.required : t \in Schemas}
    OBVIOUS
  <2>. QED
    BY <2>1 DEF Steps
<1>. QED
  BY <1>1, <1>2

LEMMA BelowType ==
  ASSUME NEW step \in Steps, NEW x \in SUBSET Found
  PROVE  Below(step, x) \subseteq Found
<1>. SUFFICES ASSUME NEW y \in x
              PROVE  [y EXCEPT !.path = <<step>> \o @] \in Found
  BY DEF Below
<1>1. y \in Found /\ y.path \in Seq(Steps)
  BY DEF Found
<1>2. <<step>> \o y.path \in Seq(Steps)
  BY <1>1
<1>. QED
  BY <1>1, <1>2 DEF Found

\* What Check finds, given what is found below.
LEMMA CheckType ==
  ASSUME NEW found \in [Values -> [Schemas -> SUBSET Found]],
         NEW v \in Values, NEW s \in Schemas
  PROVE  Check(found, v, s) \subseteq Found
<1>1. << >> \in Seq(Steps)
  OBVIOUS
<1>2. {[path |-> << >>, reason |-> "type"]} \subseteq Found
  BY <1>1 DEF Found
<1>3. {[path |-> << >>, reason |-> "enum"]} \subseteq Found
  BY <1>1 DEF Found
<1>4. Missing(v, s) \subseteq Found
  <2>. SUFFICES ASSUME NEW f \in s.required
                PROVE  [path |-> <<f>>, reason |-> "required"] \in Found
    BY DEF Missing
  <2>1. f \in Steps
    BY StepsType
  <2>2. <<f>> \in Seq(Steps)
    BY <2>1
  <2>. QED
    BY <2>2 DEF Found
<1>5. ASSUME NEW f \in DOMAIN s.props \cap DOMAIN v.fields
      PROVE  Below(f, found[v.fields[f]][s.props[f]]) \subseteq Found
  <2>1. found[v.fields[f]][s.props[f]] \in SUBSET Found
    BY Parts
  <2>2. f \in Steps
    BY StepsType
  <2>. QED
    BY <2>1, <2>2, BelowType
<1>6. ASSUME NEW i \in DOMAIN v.items, NEW t \in s.items
      PROVE  Below(i, found[v.items[i]][t]) \subseteq Found
  <2>1. found[v.items[i]][t] \in SUBSET Found
    BY Parts
  <2>2. i \in Steps
    BY StepsType
  <2>. QED
    BY <2>1, <2>2, BelowType
<1>7. UNION {Below(f, found[v.fields[f]][s.props[f]]) : f \in DOMAIN s.props \cap DOMAIN v.fields}
        \subseteq Found
  BY <1>5
<1>8. UNION {UNION {Below(i, found[v.items[i]][t]) : t \in s.items} : i \in DOMAIN v.items}
        \subseteq Found
  BY <1>6
<1>. QED
  BY <1>2, <1>3, <1>4, <1>7, <1>8, Zenon DEF Check

\* Check looks at the parts of the value only.
LEMMA CheckLocal ==
  ASSUME NEW v \in Values, NEW s \in Schemas, NEW f, NEW g,
         AgreeOn(ValueParts[v], f, g)
  PROVE  Check(f, v, s) = Check(g, v, s)
<1>1. \A x \in DOMAIN s.props \cap DOMAIN v.fields : f[v.fields[x]] = g[v.fields[x]]
  BY Parts DEF AgreeOn
<1>2. \A i \in DOMAIN v.items : f[v.items[i]] = g[v.items[i]]
  BY Parts DEF AgreeOn
<1>3. {Below(x, f[v.fields[x]][s.props[x]]) : x \in DOMAIN s.props \cap DOMAIN v.fields}
        = {Below(x, g[v.fields[x]][s.props[x]]) : x \in DOMAIN s.props \cap DOMAIN v.fields}
  BY <1>1
<1>4. {UNION {Below(i, f[v.items[i]][t]) : t \in s.items} : i \in DOMAIN v.items}
        = {UNION {Below(i, g[v.items[i]][t]) : t \in s.items} : i \in DOMAIN v.items}
  BY <1>2
<1>. QED
  BY <1>3, <1>4 DEF Check

LEMMA ViolationsEquation ==
  \A v \in Values, s \in Schemas : Violations[v][s] = Check(Violations, v, s)
<1>. DEFINE T == [Schemas -> SUBSET Found]
            G == [f \in [Values -> T] |-> [v \in Values |-> [s \in Schemas |-> Check(f, v, s)]]]
<1>1. T # {}
  <2>1. [s \in Schemas |-> {}] \in T
    OBVIOUS
  <2>. QED
    BY <2>1
<1>2. Body(Values, T, ValueParts, G)
  <2>1. G \in [[Values -> T] -> [Values -> T]]
    BY CheckType
  <2>2. ASSUME NEW v \in Values, NEW f \in [Values -> T], NEW g \in [Values -> T],
               AgreeOn(ValueParts[v], f, g)
        PROVE  G[f][v] = G[g][v]
    <3>1. \A s \in Schemas : Check(f, v, s) = Check(g, v, s)
      BY <2>2, CheckLocal
    <3>2. G[f][v] = [s \in Schemas |-> Check(f, v, s)] /\ G[g][v] = [s \in Schemas |-> Check(g, v, s)]
      OBVIOUS
    <3>. QED
      BY <3>1, <3>2
  <2>. QED
    BY <2>1, <2>2 DEF Body
<1>3. HasFixpoint(Values, T, G)
  <2>. HIDE DEF T, G
  <2>. QED
    BY <1>1, <1>2, ValuesEnd, Recursion
<1>4. PICK f \in [Values -> T] : \A v \in Values : f[v] = G[f][v]
  BY <1>3 DEF HasFixpoint
<1>5. f = [v \in Values |-> [s \in Schemas |-> Check(f, v, s)]]
  BY <1>4
<1>6. Violations = [v \in Values |-> [s \in Schemas |-> Check(Violations, v, s)]]
  BY <1>5 DEF Violations
<1>7. \A v \in Values : Violations[v] = [s \in Schemas |-> Check(Violations, v, s)]
  BY <1>6
<1>. QED
  BY <1>7

LEMMA AdmitsEquation ==
  \A v \in Values, s \in Schemas : Admits[v][s] = AdmitsGiven(Admits, v, s)
<1>. DEFINE T == [Schemas -> BOOLEAN]
            G == [f \in [Values -> T] |->
                    [v \in Values |-> [s \in Schemas |-> AdmitsGiven(f, v, s)]]]
<1>1. T # {}
  <2>1. [s \in Schemas |-> TRUE] \in T
    OBVIOUS
  <2>. QED
    BY <2>1
<1>2. Body(Values, T, ValueParts, G)
  <2>0. \A f, v, s : AdmitsGiven(f, v, s) \in BOOLEAN
    BY Zenon DEF AdmitsGiven
  <2>1. G \in [[Values -> T] -> [Values -> T]]
    BY <2>0
  <2>2. ASSUME NEW v \in Values, NEW f \in [Values -> T], NEW g \in [Values -> T],
               AgreeOn(ValueParts[v], f, g)
        PROVE  G[f][v] = G[g][v]
    <3>1. \A s \in Schemas : AdmitsGiven(f, v, s) = AdmitsGiven(g, v, s)
      <4>. SUFFICES ASSUME NEW s \in Schemas
                    PROVE  AdmitsGiven(f, v, s) = AdmitsGiven(g, v, s)
        OBVIOUS
      <4>1. \A x \in DOMAIN v.fields : f[v.fields[x]] = g[v.fields[x]]
        BY <2>2, Parts DEF AgreeOn
      <4>2. \A i \in DOMAIN v.items : f[v.items[i]] = g[v.items[i]]
        BY <2>2, Parts DEF AgreeOn
      <4>. QED
        BY <4>1, <4>2 DEF AdmitsGiven
    <3>2. G[f][v] = [s \in Schemas |-> AdmitsGiven(f, v, s)]
          /\ G[g][v] = [s \in Schemas |-> AdmitsGiven(g, v, s)]
      OBVIOUS
    <3>. QED
      BY <3>1, <3>2
  <2>. QED
    BY <2>1, <2>2 DEF Body
<1>3. HasFixpoint(Values, T, G)
  <2>. HIDE DEF T, G
  <2>. QED
    BY <1>1, <1>2, ValuesEnd, Recursion
<1>4. PICK f \in [Values -> T] : \A v \in Values : f[v] = G[f][v]
  BY <1>3 DEF HasFixpoint
<1>5. f = [v \in Values |-> [s \in Schemas |-> AdmitsGiven(f, v, s)]]
  BY <1>4
<1>6. Admits = [v \in Values |-> [s \in Schemas |-> AdmitsGiven(Admits, v, s)]]
  BY <1>5 DEF Admits
<1>7. \A v \in Values : Admits[v] = [s \in Schemas |-> AdmitsGiven(Admits, v, s)]
  BY <1>6
<1>. QED
  BY <1>7
LEMMA UnambiguousEquation ==
  \A s \in Schemas :
    /\ Unambiguous[s] \in BOOLEAN
    /\ Unambiguous[s] <=> Plain(s) /\ \A t \in SchemaParts[s] : Unambiguous[t]
<1>. DEFINE G == [f \in [Schemas -> BOOLEAN] |->
                    [s \in Schemas |-> Plain(s) /\ \A t \in SchemaParts[s] : f[t]]]
<1>1. Body(Schemas, BOOLEAN, SchemaParts, G)
  <2>1. G \in [[Schemas -> BOOLEAN] -> [Schemas -> BOOLEAN]]
    OBVIOUS
  <2>2. ASSUME NEW s \in Schemas, NEW f \in [Schemas -> BOOLEAN],
               NEW g \in [Schemas -> BOOLEAN], AgreeOn(SchemaParts[s], f, g)
        PROVE  G[f][s] = G[g][s]
    BY <2>2 DEF AgreeOn
  <2>. QED
    BY <2>1, <2>2 DEF Body
<1>2. HasFixpoint(Schemas, BOOLEAN, G)
  <2>. HIDE DEF G
  <2>. QED
    BY <1>1, SchemasEnd, Recursion
<1>3. PICK f \in [Schemas -> BOOLEAN] : \A s \in Schemas : f[s] = G[f][s]
  BY <1>2 DEF HasFixpoint
<1>4. f = [s \in Schemas |-> Plain(s) /\ \A t \in SchemaParts[s] : f[t]]
  BY <1>3
<1>5. Unambiguous = [s \in Schemas |-> Plain(s) /\ \A t \in SchemaParts[s] : Unambiguous[t]]
  BY <1>4 DEF Unambiguous
<1>. QED
  BY <1>5, Zenon

LEMMA CheckedEquation ==
  \A s \in Schemas :
    /\ Checked[s] \in BOOLEAN
    /\ Checked[s] <=> Exact(s) /\ \A t \in SchemaParts[s] : Checked[t]
<1>. DEFINE G == [f \in [Schemas -> BOOLEAN] |->
                    [s \in Schemas |-> Exact(s) /\ \A t \in SchemaParts[s] : f[t]]]
<1>1. Body(Schemas, BOOLEAN, SchemaParts, G)
  <2>1. G \in [[Schemas -> BOOLEAN] -> [Schemas -> BOOLEAN]]
    OBVIOUS
  <2>2. ASSUME NEW s \in Schemas, NEW f \in [Schemas -> BOOLEAN],
               NEW g \in [Schemas -> BOOLEAN], AgreeOn(SchemaParts[s], f, g)
        PROVE  G[f][s] = G[g][s]
    BY <2>2 DEF AgreeOn
  <2>. QED
    BY <2>1, <2>2 DEF Body
<1>2. HasFixpoint(Schemas, BOOLEAN, G)
  <2>. HIDE DEF G
  <2>. QED
    BY <1>1, SchemasEnd, Recursion
<1>3. PICK f \in [Schemas -> BOOLEAN] : \A s \in Schemas : f[s] = G[f][s]
  BY <1>2 DEF HasFixpoint
<1>4. f = [s \in Schemas |-> Exact(s) /\ \A t \in SchemaParts[s] : f[t]]
  BY <1>3
<1>5. Checked = [s \in Schemas |-> Exact(s) /\ \A t \in SchemaParts[s] : Checked[t]]
  BY <1>4 DEF Checked
<1>. QED
  BY <1>5, Zenon

LEMMA TypesType ==
  ASSUME NEW s \in Schemas
  PROVE  /\ Len(s.types) \in Nat /\ DOMAIN s.types = 1..Len(s.types)
         /\ s.types = << >> <=> Len(s.types) = 0
BY ValidateAssumption

\* A value that fits every type it is given fits the one the code looks at.
LEMMA FitsType ==
  ASSUME NEW v \in Values, NEW s \in Schemas, Len(s.types) <= 1,
         s.types # << >> => \E i \in DOMAIN s.types : OfType(v, s.types[i])
  PROVE  TypeFits(v, TypeOf(s))
<1>1. CASE s.types = << >>
  BY <1>1 DEF TypeOf, TypeFits
<1>2. CASE s.types # << >>
  <2>1. DOMAIN s.types = {1}
    BY <1>2, TypesType
  <2>2. OfType(v, s.types[1]) /\ TypeOf(s) = s.types[1] /\ v.kind \in Kinds
    BY <1>2, <2>1, ValidateAssumption DEF TypeOf
  <2>. QED
    BY <2>2 DEF OfType, TypeFits, Kinds, Scalars
<1>. QED
  BY <1>1, <1>2

\* A value the schema admits has no violation.
LEMMA AdmittedPasses ==
  \A v \in Values, s \in Schemas : Unambiguous[s] /\ Admits[v][s] => Violations[v][s] = {}
<1>. DEFINE S == {v \in Values : \A s \in Schemas :
                    Unambiguous[s] /\ Admits[v][s] => Violations[v][s] = {}}
<1>1. ASSUME NEW v \in Values, ValueParts[v] \subseteq S
      PROVE  v \in S
  <2>. SUFFICES ASSUME NEW s \in Schemas, Unambiguous[s], Admits[v][s]
                PROVE  Violations[v][s] = {}
    OBVIOUS
  <2>1. Plain(s) /\ \A t \in SchemaParts[s] : Unambiguous[t]
    BY UnambiguousEquation
  <2>2. AdmitsGiven(Admits, v, s)
    BY AdmitsEquation
  <2>3. TypeFits(v, TypeOf(s))
    BY <2>1, <2>2, FitsType DEF Plain, AdmitsGiven
  <2>4. s.enum # {} => InEnum(v, s)
    <3>. SUFFICES ASSUME s.enum # {} PROVE InEnum(v, s)
      OBVIOUS
    <3>1. PICK e \in s.enum : e.denotes = v
      BY <2>2 DEF AdmitsGiven
    <3>2. e.text = e.denotes.text
      BY <2>1 DEF Plain
    <3>. QED
      BY <3>1, <3>2 DEF InEnum
  <2>5. ASSUME v.kind = "object"
        PROVE  /\ Missing(v, s) = {}
               /\ \A f \in DOMAIN s.props \cap DOMAIN v.fields :
                    Violations[v.fields[f]][s.props[f]] = {}
    <3>1. s.required \subseteq DOMAIN v.fields
      BY <2>2, <2>5 DEF AdmitsGiven
    <3>2. ASSUME NEW f \in DOMAIN s.props \cap DOMAIN v.fields
          PROVE  Violations[v.fields[f]][s.props[f]] = {}
      <4>1. Admits[v.fields[f]][s.props[f]]
        BY <2>2, <2>5 DEF AdmitsGiven
      <4>2. v.fields[f] \in S /\ s.props[f] \in Schemas /\ Unambiguous[s.props[f]]
        BY <1>1, <2>1, Parts
      <4>. QED
        BY <4>1, <4>2
    <3>. QED
      BY <3>1, <3>2 DEF Missing
  <2>6. ASSUME TypeOf(s) = "array", NEW i \in DOMAIN v.items, NEW t \in s.items
        PROVE  Violations[v.items[i]][t] = {}
    <3>1. v.kind = "array"
      BY <2>3, <2>6 DEF TypeFits
    <3>2. Admits[v.items[i]][t]
      BY <2>2, <2>6, <3>1 DEF AdmitsGiven
    <3>3. v.items[i] \in S /\ t \in Schemas /\ Unambiguous[t]
      BY <1>1, <2>1, <2>6, Parts
    <3>. QED
      BY <3>2, <3>3
  <2>. HIDE DEF S
  <2>7. v.kind = "object" =>
          UNION {Below(f, Violations[v.fields[f]][s.props[f]]) :
                   f \in DOMAIN s.props \cap DOMAIN v.fields} = {}
    BY <2>5 DEF Below
  <2>8. TypeOf(s) = "array" =>
          UNION {UNION {Below(i, Violations[v.items[i]][t]) : t \in s.items} : i \in DOMAIN v.items} = {}
    <3>1. ASSUME TypeOf(s) = "array", NEW i \in DOMAIN v.items
          PROVE  UNION {Below(i, Violations[v.items[i]][t]) : t \in s.items} = {}
      BY <2>6, <3>1 DEF Below
    <3>. QED
      BY <3>1
  <2>9. Check(Violations, v, s) = {}
    BY <2>3, <2>4, <2>5, <2>7, <2>8 DEF Check
  <2>. QED
    BY <2>9, ViolationsEquation
<1>. HIDE DEF S
<1>2. Values \subseteq S
  BY <1>1, ValuesEnd, InductionBelow
<1>. QED
  BY <1>2 DEF S

\* A value without a violation is one the schema admits.
LEMMA PassedAdmitted ==
  \A v \in Values, s \in Schemas : Checked[s] /\ Violations[v][s] = {} => Admits[v][s]
<1>. DEFINE S == {v \in Values : \A s \in Schemas :
                    Checked[s] /\ Violations[v][s] = {} => Admits[v][s]}
<1>1. ASSUME NEW v \in Values, ValueParts[v] \subseteq S
      PROVE  v \in S
  <2>. SUFFICES ASSUME NEW s \in Schemas, Checked[s], Violations[v][s] = {}
                PROVE  Admits[v][s]
    OBVIOUS
  <2>1. Exact(s) /\ \A t \in SchemaParts[s] : Checked[t]
    BY CheckedEquation
  <2>2. Check(Violations, v, s) = {}
    BY ViolationsEquation
  <2>3. TypeFits(v, TypeOf(s))
    BY <2>2 DEF Check
  <2>4. v.kind = TypeOf(s) /\ DOMAIN s.types = {1} /\ s.types[1] = TypeOf(s)
    <3>1. TypeOf(s) \in Scalars \cup {"array", "object"} /\ Len(s.types) = 1
      BY <2>1 DEF Exact
    <3>2. v.kind = TypeOf(s)
      BY <2>3, <3>1 DEF Scalars, TypeFits
    <3>3. DOMAIN s.types = {1} /\ s.types # << >>
      BY <3>1, TypesType
    <3>. QED
      BY <3>2, <3>3 DEF TypeOf
  <2>5. s.enum # {} => \E e \in s.enum : e.denotes = v
    <3>. SUFFICES ASSUME s.enum # {} PROVE \E e \in s.enum : e.denotes = v
      OBVIOUS
    <3>1. InEnum(v, s)
      BY <2>2, <2>3 DEF Check
    <3>2. PICK e \in s.enum : e.text = v.text
      BY <3>1 DEF InEnum
    <3>3. e.denotes.kind = v.kind /\ v.kind \in Scalars
      BY <2>1, <2>4 DEF Exact
    <3>. QED
      BY <3>2, <3>3, TextAssumption
  <2>6. ASSUME v.kind = "object"
        PROVE  /\ s.required \subseteq DOMAIN v.fields
               /\ \A f \in DOMAIN s.props \cap DOMAIN v.fields :
                    Admits[v.fields[f]][s.props[f]]
    <3>1. /\ Missing(v, s) = {}
          /\ UNION {Below(f, Violations[v.fields[f]][s.props[f]]) :
                      f \in DOMAIN s.props \cap DOMAIN v.fields} = {}
      BY <2>2, <2>3, <2>4, <2>6 DEF Check
    <3>2. s.required \subseteq DOMAIN v.fields
      BY <3>1 DEF Missing
    <3>3. ASSUME NEW f \in DOMAIN s.props \cap DOMAIN v.fields
          PROVE  Admits[v.fields[f]][s.props[f]]
      <4>1. Below(f, Violations[v.fields[f]][s.props[f]]) = {}
        BY <3>1
      <4>2. Violations[v.fields[f]][s.props[f]] = {}
        BY <4>1 DEF Below
      <4>3. v.fields[f] \in S /\ s.props[f] \in Schemas /\ Checked[s.props[f]]
        BY <1>1, <2>1, Parts
      <4>. QED
        BY <4>2, <4>3
    <3>. QED
      BY <3>2, <3>3
  <2>7. ASSUME v.kind = "array", NEW i \in DOMAIN v.items, NEW t \in s.items
        PROVE  Admits[v.items[i]][t]
    <3>1. UNION {UNION {Below(j, Violations[v.items[j]][u]) : u \in s.items} : j \in DOMAIN v.items} = {}
      BY <2>2, <2>3, <2>4, <2>7 DEF Check
    <3>2. Below(i, Violations[v.items[i]][t]) = {}
      BY <2>7, <3>1
    <3>3. Violations[v.items[i]][t] = {}
      BY <3>2 DEF Below
    <3>4. v.items[i] \in S /\ t \in Schemas /\ Checked[t]
      BY <1>1, <2>1, <2>7, Parts
    <3>. QED
      BY <3>3, <3>4
  <2>8. s.types # << >> => \E i \in DOMAIN s.types : OfType(v, s.types[i])
    BY <2>4 DEF OfType
  <2>. HIDE DEF S
  <2>9. AdmitsGiven(Admits, v, s)
    BY <2>5, <2>6, <2>7, <2>8 DEF AdmitsGiven
  <2>. QED
    BY <2>9, AdmitsEquation
<1>. HIDE DEF S
<1>2. Values \subseteq S
  BY <1>1, ValuesEnd, InductionBelow
<1>. QED
  BY <1>2 DEF S
\* A request of the chain that is no longer at its start was refused by the
\* validation if and only if it is done without a call.
TurnedAway(p) == Refused(request[p].schemas, request[p].body)
JudgedRight(p) ==
  Handled(p) /\ stage[p] # "ready" =>
    (TurnedAway(p) <=> stage[p] = "done" /\ outcomes[p] = << >>)
Judged == request \in Workloads /\ \A p \in Procs : JudgedRight(p)

LEMMA JudgedStep ==
  ASSUME RetryInv, Judged, [PipelineNext]_pipelineVars
  PROVE  Judged'
<1>1. CASE UNCHANGED retryVars
  BY <1>1 DEF retryVars, Judged, JudgedRight, TurnedAway, Handled
<1>2. ASSUME NEW p \in Procs, RetryStep(p), JudgedRight(p)'
      PROVE  Judged'
  <2>1. request' = request
    BY <1>2 DEF RetryStep, R!Start, R!Send, R!Reject, R!Resume, R!GiveUp, R!CancelRequest,
      R!Call
  <2>2. \A q \in Procs \ {p} : stage'[q] = stage[q] /\ outcomes'[q] = outcomes[q]
    BY <1>2 DEF RetryStep, R!Start, R!Send, R!Reject, R!Resume, R!GiveUp, R!CancelRequest,
      R!Call, RetryInv
  <2>3. \A q \in Procs \ {p} : JudgedRight(q)'
    BY <2>1, <2>2 DEF Judged, JudgedRight, TurnedAway, Handled
  <2>. QED
    BY <1>2, <2>1, <2>3 DEF Judged
<1>3. ASSUME NEW p \in Procs, Refuse(p)
      PROVE  RetryStep(p) /\ JudgedRight(p)'
  <2>1. R!Reject(p) /\ TurnedAway(p)
    BY <1>3 DEF Refuse, TurnedAway
  <2>2. stage'[p] = "done" /\ outcomes'[p] = << >> /\ request' = request
    BY <2>1 DEF R!Reject, RetryInv, Running
  <2>. QED
    BY <2>1, <2>2 DEF RetryStep, JudgedRight, TurnedAway
<1>4. ASSUME NEW p \in Procs, Enter(p)
      PROVE  RetryStep(p) /\ JudgedRight(p)'
  <2>1. R!Start(p) /\ ~TurnedAway(p)
    BY <1>4 DEF Enter, TurnedAway
  <2>2. stage'[p] = "calling" /\ request' = request
    BY <2>1 DEF R!Start, RetryInv
  <2>. QED
    BY <2>1, <2>2 DEF RetryStep, JudgedRight, TurnedAway
<1>5. ASSUME NEW p \in Procs,
             R!Resume(p) \/ R!GiveUp(p) \/ R!CancelRequest(p) \/ R!Send(p)
      PROVE  RetryStep(p) /\ JudgedRight(p)'
  <2>1. RetryStep(p) /\ request' = request /\ outcomes' = outcomes
    BY <1>5 DEF RetryStep, R!Resume, R!GiveUp, R!CancelRequest, R!Send
  <2>2. \/ /\ stage[p] \in {"backoff", "calling"}
           /\ stage'[p] # "done" \/ outcomes[p] # << >>
        \/ stage' = stage
    BY <1>5 DEF R!Resume, R!GiveUp, R!CancelRequest, R!Send, RetryInv
  <2>. QED
    BY <2>1, <2>2 DEF Judged, JudgedRight, TurnedAway, Handled
<1>6. ASSUME NEW p \in Procs, NEW o \in R!Outcome, R!Call(p, o)
      PROVE  RetryStep(p) /\ JudgedRight(p)'
  <2>1. RetryStep(p) /\ request' = request
    BY <1>6 DEF RetryStep, R!Call
  <2>2. stage[p] \in {"sent", "calling", "void"} /\ stage'[p] \in {"backoff", "done"}
    BY <1>6, CallStep DEF R!Call
  <2>3. outcomes'[p] # << >>
    <3>1. outcomes[p] \in Seq(R!Outcome) /\ outcomes'[p] = Append(outcomes[p], o)
      BY <1>6 DEF R!Call, RetryInv
    <3>. QED
      BY <3>1
  <2>. QED
    BY <2>1, <2>2, <2>3 DEF Judged, JudgedRight, TurnedAway, Handled
<1>7. ASSUME NEW p \in Procs, StartDirect(p)
      PROVE  RetryStep(p) /\ JudgedRight(p)'
  BY <1>7 DEF StartDirect, R!Start, RetryStep, JudgedRight, Handled
<1>8. ASSUME NEW p \in Procs,
             \/ Repeat(p) \/ Abandon(p) \/ CallerCancels(p) \/ Dispatch(p) \/ SendDirect(p)
      PROVE  R!Resume(p) \/ R!GiveUp(p) \/ R!CancelRequest(p) \/ R!Send(p)
  BY <1>8 DEF Repeat, Abandon, CallerCancels, Dispatch, SendDirect
<1>9. ASSUME NEW p \in Procs, LeaveQueue(p)
      PROVE  \E o \in R!Outcome : R!Call(p, o)
  BY <1>9 DEF LeaveQueue, R!Outcome
<1>10. ASSUME NEW p \in Procs, NEW o \in R!Outcome,
              Answer(p, o) \/ AnswerThrottled(p, o) \/ AnswerDirect(p, o)
       PROVE  R!Call(p, o)
  BY <1>10 DEF Answer, AnswerThrottled, AnswerDirect
<1>11. ASSUME NEW p \in Procs, LimiterStep(p) \/ Throttled(p)
       PROVE  UNCHANGED retryVars
  BY <1>11 DEF LimiterStep, Throttled
<1>12. ASSUME Time \/ Terminating \/ UNCHANGED pipelineVars
       PROVE  UNCHANGED retryVars
  BY <1>12 DEF Time, Terminating, pipelineVars
<1>. QED
  BY <1>1, <1>2, <1>3, <1>4, <1>5, <1>6, <1>7, <1>8, <1>9, <1>10, <1>11, <1>12
  DEF PipelineNext

\* The validation sends back no body that an unambiguous schema admits, and lets
\* none through that a checked schema does not (validate.go:40-76, 83-144).
THEOREM RightVerdict == PipelineSpec => []Verdict
<1>1. PipelineInit => Judged
  BY DEF PipelineInit, R!RetryInit, Judged, JudgedRight
<1>2. Judged => Verdict
  <2>. SUFFICES ASSUME Judged, NEW p \in Procs, Handled(p), request[p].body # Empty,
                       stage[p] # "ready", NEW s \in request[p].schemas
                PROVE  IF stage[p] = "done" /\ outcomes[p] = << >>
                         THEN Unambiguous[s] =>
                                ~(request[p].body # Malformed /\ Admits[request[p].body][s])
                         ELSE Checked[s] =>
                                request[p].body # Malformed /\ Admits[request[p].body][s]
    BY DEF Verdict
  <2>. DEFINE b == request[p].body
  <2>1. /\ s \in Schemas /\ b \in Values \cup {Malformed} /\ Malformed \notin Values
        /\ \A t \in request[p].schemas : t = s
    BY PipelineAssumption, ValidateAssumption DEF Judged
  <2>2. TurnedAway(p) <=> stage[p] = "done" /\ outcomes[p] = << >>
    BY DEF Judged, JudgedRight
  <2>3. TurnedAway(p) <=>
          /\ TypeOf(s) # "" \/ DOMAIN s.props # {}
          /\ b \in Values => Violations[b][s] # {}
    BY <2>1 DEF TurnedAway, Refused
  <2>4. ASSUME TurnedAway(p), Unambiguous[s], b # Malformed, Admits[b][s]
        PROVE  FALSE
    BY <2>1, <2>3, <2>4, AdmittedPasses
  <2>5. ASSUME ~TurnedAway(p), Checked[s]
        PROVE  b # Malformed /\ Admits[b][s]
    <3>1. TypeOf(s) # ""
      BY <2>1, <2>5, CheckedEquation DEF Exact, Scalars
    <3>2. b \in Values /\ Violations[b][s] = {}
      BY <2>3, <2>5, <3>1
    <3>. QED
      BY <2>1, <2>5, <3>2, PassedAdmitted
  <2>. QED
    BY <2>2, <2>4, <2>5
<1>. QED
  BY <1>1, <1>2, JudgedStep, RetryInvariant, PTL DEF PipelineSpec
=============================================================================
