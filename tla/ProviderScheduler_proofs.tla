----------------------- MODULE ProviderScheduler_proofs -----------------------
(***************************************************************************)
(* The gates of ProviderScheduler keep the promise of RateLimit, for any   *)
(* providers, threads and pauses, and however far the clock runs.          *)
(***************************************************************************)
EXTENDS ProviderScheduler, TLAPS

\* A step of the backoff is at least the first one.
LEMMA ProductGrows ==
    ASSUME NEW b \in Nat, NEW n \in Nat, n >= 1
    PROVE  b * n \in Nat /\ b * n >= b * 1
<1>1. PICK m \in Nat : n = m + 1
  <2>1. n - 1 \in Nat /\ n = (n - 1) + 1
    OBVIOUS
  <2> QED
    BY <2>1
<1>2. b * n = b * m + b
  BY <1>1
<1>3. b * m \in Nat
  OBVIOUS
<1> QED
  BY <1>2, <1>3

\* A provider's pause never falls below the one after its first rate limit.
LEMMA RequiredGrows ==
    ASSUME NEW p \in Providers, NEW n \in Nat, n >= 1
    PROVE  Required(p, n) \in Nat /\ Required(p, n) >= Required(p, 1)
<1>1. BackoffStep * n \in Nat /\ BackoffStep * n >= BackoffStep * 1
  BY ProductGrows, GateAssumption
<1>2. BackoffStep * 1 = BackoffStep
  BY GateAssumption
<1> QED
  BY <1>1, <1>2, GateAssumption DEF Required, Smaller

\* A pause that an answer asks for is one of the known ones, or none.
LEMMA AskedType ==
    ASSUME NEW a \in Answers
    PROVE  Asked(a) \in RetryAfters \cup {NoPause}
BY DEF Asked, Answers

\* What an answer makes of a gate.
LEMMA EvaluatedType ==
    ASSUME NEW g \in Gate, NEW p \in Providers, NEW a \in Answers, NEW now \in Nat
    PROVE  /\ Evaluated(g, p, a, now) \in Gate
           /\ Evaluated(g, p, a, now).holder = None
<1>1. g.strikes + 1 \in Nat /\ g.strikes + 1 >= 1
  BY DEF Gate
<1>2. Required(p, g.strikes + 1) \in Nat
  BY <1>1, RequiredGrows
<1>3. a.retryAfter \in Nat
  BY GateAssumption DEF Answers
<1>4. now + Larger(a.retryAfter, Required(p, g.strikes + 1)) \in Nat
  BY <1>2, <1>3 DEF Larger
<1>5. CASE a.error = "rateLimited"
  BY <1>1, <1>4, <1>5, AskedType DEF Evaluated, Gate
<1>6. CASE a.error \in {"none", "notModified"}
  BY <1>6, AskedType DEF Evaluated, Gate
<1>7. CASE a.error \notin {"rateLimited", "none", "notModified"}
  BY <1>7, AskedType DEF Evaluated, Gate
<1> QED
  BY <1>5, <1>6, <1>7

\* A rate limit puts the next request off by the provider's least pause and by
\* the pause it asked for.
LEMMA RateLimitPutsOff ==
    ASSUME NEW g \in Gate, NEW p \in Providers, NEW a \in Answers, NEW now \in Nat,
           a.error = "rateLimited"
    PROVE  /\ Evaluated(g, p, a, now).holder = None
           /\ Evaluated(g, p, a, now).asked = a.retryAfter
           /\ Evaluated(g, p, a, now).blockedUntil >= now + Required(p, 1)
           /\ Evaluated(g, p, a, now).blockedUntil >= now + a.retryAfter
<1>1. g.strikes + 1 \in Nat /\ g.strikes + 1 >= 1
  BY DEF Gate
<1>2. /\ Required(p, g.strikes + 1) \in Nat
      /\ Required(p, 1) \in Nat
      /\ Required(p, g.strikes + 1) >= Required(p, 1)
  BY <1>1, RequiredGrows
<1>3. a.retryAfter \in Nat
  BY GateAssumption DEF Answers
<1>4. Evaluated(g, p, a, now) =
        [g EXCEPT !.holder = None, !.asked = a.retryAfter, !.strikes = g.strikes + 1,
                  !.blockedUntil =
                    now + Larger(a.retryAfter, Required(p, g.strikes + 1))]
  BY DEF Evaluated, Asked
<1> QED
  BY <1>2, <1>3, <1>4 DEF Gate, Larger

\* Any other answer leaves the time of the next request alone.
LEMMA OtherAnswersLeave ==
    ASSUME NEW g \in Gate, NEW p \in Providers, NEW a \in Answers, NEW now \in Nat,
           a.error # "rateLimited"
    PROVE  /\ Evaluated(g, p, a, now).holder = None
           /\ Evaluated(g, p, a, now).asked = NoPause
           /\ Evaluated(g, p, a, now).blockedUntil = g.blockedUntil
<1>1. CASE a.error \in {"none", "notModified"}
  BY <1>1 DEF Evaluated, Asked, Gate
<1>2. CASE a.error \notin {"rateLimited", "none", "notModified"}
  BY <1>2 DEF Evaluated, Asked, Gate
<1> QED
  BY <1>1, <1>2

------------------------------------------------------------------------------
\* Gates that were never used are typed ...
LEMMA InitTyped == GateInit => GateTypeOK
BY GateAssumption DEF GateInit, GateTypeOK, Gate

\* Every step of the gates keeps their types.
LEMMA StepTyped == GateTypeOK /\ [GateNext]_<<clock, gate>> => GateTypeOK'
<1> SUFFICES ASSUME GateTypeOK, [GateNext]_<<clock, gate>>
             PROVE  GateTypeOK'
  OBVIOUS
<1>1. CASE Tick
  BY <1>1 DEF Tick, GateTypeOK
<1>2. ASSUME NEW c \in Callers, NEW p \in Providers, Send(c, p)
      PROVE  GateTypeOK'
  BY <1>2 DEF Send, GateTypeOK, Gate
<1>3. ASSUME NEW c \in Callers, NEW p \in Providers, NEW a \in Answers, Receive(c, p, a)
      PROVE  GateTypeOK'
  <2>1. Evaluated(gate[p], p, a, clock) \in Gate
    BY EvaluatedType DEF GateTypeOK
  <2> QED
    BY <1>3, <2>1 DEF Receive, GateTypeOK
<1>4. CASE UNCHANGED <<clock, gate>>
  BY <1>4 DEF GateTypeOK
<1> QED
  BY <1>1, <1>2, <1>3, <1>4 DEF GateNext

\* Type correctness of the gates (provider_request_scheduler.cpp:23-59).
THEOREM GatesTyped == GateSpec => []GateTypeOK
BY InitTyped, StepTyped, PTL DEF GateSpec

------------------------------------------------------------------------------
\* ... and have promised nothing yet.
LEMMA InitPromised == GateInit => Promise!Init
<1> SUFFICES ASSUME GateInit
             PROVE  Promise!Init
  OBVIOUS
<1>1. /\ clock = 0
      /\ \A p \in Providers : /\ gate[p].holder = None
                              /\ gate[p].blockedUntil = 0
                              /\ gate[p].asked = NoPause
  BY DEF GateInit
<1>2. [p \in Providers |-> gate[p].holder # None] = [p \in Providers |-> FALSE]
  BY <1>1, Zenon
<1>3. /\ [p \in Providers |-> gate[p].blockedUntil] = [p \in Providers |-> 0]
      /\ [p \in Providers |-> gate[p].asked] = [p \in Providers |-> NoPause]
  BY <1>1
<1> QED
  BY <1>1, <1>2, <1>3 DEF Promise!Init, NoPause, Promise!NoPause

\* Each step of the gates is a step of the promise, or none.
LEMMA StepPromised ==
    GateTypeOK /\ [GateNext]_<<clock, gate>> => [Promise!Next]_Promise!vars
<1> SUFFICES ASSUME GateTypeOK, [GateNext]_<<clock, gate>>
             PROVE  [Promise!Next]_Promise!vars
  OBVIOUS
<1> DEFINE busy == [p \in Providers |-> gate[p].holder # None]
           notBefore == [p \in Providers |-> gate[p].blockedUntil]
           asked == [p \in Providers |-> gate[p].asked]
<1>1. CASE Tick
  <2>1. Promise!Pass
    BY <1>1 DEF Tick, Promise!Pass, GateTypeOK
  <2> QED
    BY <2>1 DEF Promise!Next
<1>2. ASSUME NEW c \in Callers, NEW p \in Providers, Send(c, p)
      PROVE  Promise!Begin(p)
  <2>1. clock >= gate[p].blockedUntil
    BY <1>2 DEF Send, Blocked, GateTypeOK, Gate
  <2>2. /\ ~busy[p]
        /\ clock >= notBefore[p]
    BY <1>2, <2>1 DEF Send
  <2>3. /\ gate'[p].holder = c /\ c # None
        /\ gate'[p].blockedUntil = gate[p].blockedUntil
        /\ gate'[p].asked = gate[p].asked
        /\ \A q \in Providers \ {p} : gate'[q] = gate[q]
    BY <1>2, GateAssumption DEF Send, GateTypeOK, Gate
  <2>4. busy' = [busy EXCEPT ![p] = TRUE]
    BY <2>3
  <2>5. notBefore' = notBefore /\ asked' = asked
    BY <2>3
  <2> QED
    BY <1>2, <2>2, <2>4, <2>5 DEF Promise!Begin, Send
<1>3. ASSUME NEW c \in Callers, NEW p \in Providers, NEW a \in Answers, Receive(c, p, a)
      PROVE  Promise!Answered(p) \/ Promise!Limited(p)
  <2> DEFINE g == Evaluated(gate[p], p, a, clock)
  <2>1. gate[p] \in Gate /\ clock \in Nat /\ gate[p].holder = c /\ c # None /\ clock' = clock
    BY <1>3, GateAssumption DEF Receive, GateTypeOK
  <2>2. gate'[p] = g /\ \A q \in Providers \ {p} : gate'[q] = gate[q]
    BY <1>3 DEF Receive, GateTypeOK
  <2>3. busy[p]
    BY <2>1
  <2>4. g.holder = None
    BY <2>1, RateLimitPutsOff, OtherAnswersLeave
  <2>5. busy' = [busy EXCEPT ![p] = FALSE]
    BY <2>2, <2>4
  <2>6. CASE a.error = "rateLimited"
    <3>1. /\ g.asked = a.retryAfter
          /\ g.blockedUntil >= clock + Required(p, 1)
          /\ g.blockedUntil >= clock + a.retryAfter
      BY <2>1, <2>6, RateLimitPutsOff
    <3>2. a.retryAfter \in RetryAfters
      BY DEF Answers
    <3>3. asked' = [asked EXCEPT ![p] = a.retryAfter]
      BY <2>2, <3>1
    <3>4. notBefore'[p] = g.blockedUntil /\ asked'[p] = a.retryAfter
      BY <2>2, <3>1
    <3>5. notBefore' = [notBefore EXCEPT ![p] = notBefore'[p]]
      BY <2>2
    <3>6. Promise!Limited(p)
      BY <2>1, <2>3, <2>5, <3>1, <3>2, <3>3, <3>4, <3>5 DEF Promise!Limited
    <3> QED
      BY <3>6
  <2>7. CASE a.error # "rateLimited"
    <3>1. g.asked = NoPause /\ g.blockedUntil = gate[p].blockedUntil
      BY <2>1, <2>7, OtherAnswersLeave
    <3>2. asked' = [asked EXCEPT ![p] = NoPause]
      BY <2>2, <3>1
    <3>3. notBefore' = notBefore
      BY <2>2, <3>1
    <3>4. Promise!Answered(p)
      BY <2>1, <2>3, <2>5, <3>2, <3>3 DEF Promise!Answered, NoPause, Promise!NoPause
    <3> QED
      BY <3>4
  <2> QED
    BY <2>6, <2>7
<1>4. CASE UNCHANGED <<clock, gate>>
  BY <1>4 DEF Promise!vars
<1> QED
  BY <1>1, <1>2, <1>3, <1>4 DEF GateNext, Promise!Next

\* The gates implement the promise: requests of a provider are serialised, and
\* after a rate limit none is sent before both pauses are over
\* (provider_request_scheduler.cpp:23-59).
THEOREM GatesKeepPromise == GateSpec => KeepsPromise
<1>1. GateSpec => []GateTypeOK
  BY GatesTyped
<1> QED
  BY <1>1, InitPromised, StepPromised, PTL DEF GateSpec, KeepsPromise, Promise!Spec
================================================================================
