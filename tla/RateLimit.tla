------------------------------ MODULE RateLimit ------------------------------
(***************************************************************************)
(* What the application promises the providers it fetches from, as the     *)
(* architecture notes state it (docs/ARCHITECTURE.md:163-167): the         *)
(* requests of a provider are serialised, and after an answer "too many    *)
(* requests" none is sent before both the provider's minimum pause and the *)
(* pause its answer asked for have passed.  How the pause is computed is   *)
(* left open.                                                              *)
(***************************************************************************)
EXTENDS Integers

CONSTANTS
    Providers,      \* the online providers
    Minimum,        \* Minimum[p]: the least pause after a rate limit
    Pauses          \* pauses a rate limit can ask for

NoPause == -1

VARIABLES
    clock,          \* the steady clock
    busy,           \* busy[p]: a request to p is on its way
    notBefore,      \* notBefore[p]: no request to p is sent earlier
    asked           \* asked[p]: the pause p's last answer asked for

vars == <<clock, busy, notBefore, asked>>

Init ==
    /\ clock = 0
    /\ busy = [p \in Providers |-> FALSE]
    /\ notBefore = [p \in Providers |-> 0]
    /\ asked = [p \in Providers |-> NoPause]

Pass ==
    /\ clock' > clock
    /\ UNCHANGED <<busy, notBefore, asked>>

Begin(p) ==
    /\ ~busy[p]
    /\ clock >= notBefore[p]
    /\ busy' = [busy EXCEPT ![p] = TRUE]
    /\ UNCHANGED <<clock, notBefore, asked>>

\* An answer that is no rate limit leaves the time of the next request as it was.
Answered(p) ==
    /\ busy[p]
    /\ busy' = [busy EXCEPT ![p] = FALSE]
    /\ asked' = [asked EXCEPT ![p] = NoPause]
    /\ UNCHANGED <<clock, notBefore>>

Limited(p) ==
    /\ busy[p]
    /\ busy' = [busy EXCEPT ![p] = FALSE]
    /\ \E pause \in Pauses : asked' = [asked EXCEPT ![p] = pause]
    /\ notBefore' = [notBefore EXCEPT ![p] = notBefore'[p]]
    /\ notBefore'[p] >= clock + Minimum[p]
    /\ notBefore'[p] >= clock + asked'[p]
    /\ UNCHANGED clock

Next == Pass \/ \E p \in Providers : Begin(p) \/ Answered(p) \/ Limited(p)

Spec == Init /\ [][Next]_vars
==============================================================================
