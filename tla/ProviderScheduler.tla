-------------------------- MODULE ProviderScheduler --------------------------
(***************************************************************************)
(* ProviderRequestScheduler: one gate per provider that serialises its     *)
(* HTTP requests and keeps a cooldown after a rate limit                   *)
(* (native/src/providers/provider_request_scheduler.cpp).  A gate's mutex  *)
(* is held from the look at the cooldown to the evaluation of the answer,  *)
(* so a request in flight is a gate with a holder.  The clock is the       *)
(* steady clock in units of the shortest pause's divisor; it only matters  *)
(* which of two times is later.                                            *)
(***************************************************************************)
EXTENDS Integers

CONSTANTS
    Providers,       \* the online providers
    Lichess,         \* those among them that are Lichess
    Callers,         \* threads that send requests
    None,            \* no caller
    BackoffStep,     \* 30 s in the code: Chess.com's pause per rate limit in a row
    BackoffCap,      \* 300 s in the code: the longest such pause
    LichessMinimum,  \* 60 s in the code
    RetryAfters,     \* values of the Retry-After header; 0 for none or not a number
    MaxClock         \* bound: how far the clock runs

ASSUME GateAssumption ==
    /\ Lichess \subseteq Providers
    /\ None \notin Callers
    /\ BackoffStep \in Nat /\ BackoffCap \in Nat /\ LichessMinimum \in Nat
    /\ BackoffStep <= BackoffCap
    /\ RetryAfters \subseteq Nat /\ 0 \in RetryAfters
    /\ MaxClock \in Nat

VARIABLES
    clock,   \* std::chrono::steady_clock
    gate     \* gate[p]: the State of p, and what its last answer asked for

(* HttpError, as far as the gate and the jobs tell the answers apart:       *)
(* "failed" is offline, timeout, DNS, TLS, gone, server or invalid          *)
(* response; "notModified" is status 304 with no error.                     *)
Errors == {"none", "notModified", "notFound", "rateLimited", "failed", "cancelled"}

Answers == [error : Errors, retryAfter : RetryAfters]

(* The pause a rate limit asked for; a history variable for the promise.    *)
NoPause == -1
Asked(a) == IF a.error = "rateLimited" THEN a.retryAfter ELSE NoPause

Gate == [holder : Callers \cup {None},
         blockedUntil : Nat,
         strikes : Nat,
         asked : RetryAfters \cup {NoPause}]

GateTypeOK ==
    /\ clock \in Nat
    /\ gate \in [Providers -> Gate]

GateInit ==
    /\ clock = 0
    /\ gate = [p \in Providers |->
                [holder |-> None, blockedUntil |-> 0, strikes |-> 0,
                 asked |-> NoPause]]

Smaller(a, b) == IF a < b THEN a ELSE b
Larger(a, b) == IF a > b THEN a ELSE b

(* The pause that the code requires after the n-th rate limit in a row.     *)
Required(p, n) ==
    IF p \in Lichess THEN LichessMinimum ELSE Smaller(BackoffCap, BackoffStep * n)

Blocked(p) == clock < gate[p].blockedUntil

(* get() finds the mutex free and the cooldown active: it makes up an       *)
(* answer 429 without a request, and counts nothing.                        *)
Refused(p) ==
    /\ gate[p].holder = None
    /\ Blocked(p)

Send(c, p) ==
    /\ gate[p].holder = None
    /\ ~Blocked(p)
    /\ gate' = [gate EXCEPT ![p].holder = c]
    /\ UNCHANGED clock

(* A rate limit that only takes the provider's own pause.                   *)
Evaluated_IgnoresHeader(g, p, a, now) ==
    IF a.error = "rateLimited"
    THEN [g EXCEPT !.holder = None, !.asked = Asked(a), !.strikes = @ + 1,
                   !.blockedUntil = now + Required(p, g.strikes + 1)]
    ELSE [g EXCEPT !.holder = None, !.asked = Asked(a), !.strikes = 0]

(* A gate that stays locked after a request that failed.                    *)
Evaluated_StaysLocked(g, p, a, now) ==
    IF a.error = "failed" THEN g
    ELSE [g EXCEPT !.holder = None, !.asked = Asked(a)]

(* The rest of get(): the answer is there, the gate is released.            *)
Evaluated(g, p, a, now) ==
    CASE a.error = "rateLimited" ->
            LET n == g.strikes + 1
            IN  [g EXCEPT !.holder = None, !.asked = Asked(a), !.strikes = n,
                          !.blockedUntil = now + Larger(a.retryAfter, Required(p, n))]
      [] a.error \in {"none", "notModified"} ->
            [g EXCEPT !.holder = None, !.asked = Asked(a), !.strikes = 0]
      [] OTHER -> [g EXCEPT !.holder = None, !.asked = Asked(a)]

Receive(c, p, a) ==
    /\ gate[p].holder = c
    /\ gate' = [gate EXCEPT ![p] = Evaluated(@, p, a, clock)]
    /\ UNCHANGED clock

(* retry_after_seconds() takes the same mutex: it waits out a request.      *)
MayAsk(p) == gate[p].holder = None

Tick ==
    /\ clock < MaxClock
    /\ clock' = clock + 1
    /\ UNCHANGED gate

GateNext ==
    \/ Tick
    \/ \E c \in Callers, p \in Providers :
        \/ Send(c, p)
        \/ \E a \in Answers : Receive(c, p, a)

GateSpec == GateInit /\ [][GateNext]_<<clock, gate>>

------------------------------------------------------------------------------
(* The gate as a rate limit: the cooldown is the promise not to send.       *)
Promise == INSTANCE RateLimit WITH
    Minimum <- [p \in Providers |-> Required(p, 1)],
    Pauses <- RetryAfters,
    busy <- [p \in Providers |-> gate[p].holder # None],
    notBefore <- [p \in Providers |-> gate[p].blockedUntil],
    asked <- [p \in Providers |-> gate[p].asked]

(* Requests of a provider are serialised and pauses are kept, whatever the  *)
(* threads do: the gate implements the promise.  It is about the whole of   *)
(* get(): a lock released around the request, or a pause counted from its   *)
(* start, would break it.                                                   *)
KeepsPromise == Promise!Spec
==============================================================================
