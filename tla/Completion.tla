----------------------------- MODULE Completion -----------------------------
(***************************************************************************)
(* One completion by the language model: the remote client alone, or a      *)
(* local model in front of it (HybridCompleter).  CompleteWithRetry tries   *)
(* again by kind of error, each side by its own policy; CompleteWithTools   *)
(* does not.  The deadline of the caller may pass at any time.              *)
(***************************************************************************)
EXTENDS Naturals

CONSTANTS
    maxNetworkRetries, maxRateLimitRetries, maxMalformedRetries,    \* of the remote client
    maxRetries                                                      \* of the local one

ASSUME CompletionAssumption ==
    {maxNetworkRetries, maxRateLimitRetries, maxMalformedRetries, maxRetries} \subseteq Nat

VARIABLES
    hybrid,         \* whether there is a local model in front of the remote one
    side,           \* the one being asked
    call,           \* where the completion is
    retrying,       \* CompleteWithRetry, or CompleteWithTools
    attempts,       \* per kind of error, how often it was met on this side
    expired,        \* whether the caller's deadline has passed
    lastUsedLocal,  \* the flag of the HybridCompleter
    asked           \* history: requests sent in this completion, per side

completionVars == <<hybrid, side, call, retrying, attempts, expired, lastUsedLocal, asked>>

Sides == {"local", "remote"}
Kinds == {"network", "rate_limit", "malformed", "other"}
NoAttempts == [k \in Kinds |-> 0]

\* How often an error of a kind is retried.
Policy(s) ==
    IF s = "remote" THEN [network |-> maxNetworkRetries, rate_limit |-> maxRateLimitRetries,
                          malformed |-> maxMalformedRetries, other |-> 0]
                    ELSE [NoAttempts EXCEPT !["network"] = maxRetries]
Limit(s, k) == IF retrying THEN Policy(s)[k] ELSE 0

\* The errors a request may meet: the local server's 429 is like any other
\* status, and past the deadline a request ends without a response.
ErrorsOf(s) ==
    (IF expired THEN {"network", "other"} ELSE Kinds)
        \ (IF s = "remote" THEN {} ELSE IF expired THEN {"other"} ELSE {"rate_limit"})

CompletionInit ==
    /\ hybrid \in BOOLEAN /\ lastUsedLocal = FALSE /\ expired = FALSE
    /\ side = (IF hybrid THEN "local" ELSE "remote") /\ call = "asking" /\ retrying = TRUE
    /\ attempts = NoAttempts /\ asked = [s \in Sides |-> 0]

Begin(r) ==
    /\ side' = IF hybrid THEN "local" ELSE "remote"
    /\ call' = "asking" /\ retrying' = r
    /\ attempts' = NoAttempts
    /\ asked' = [s \in Sides |-> 0]

\* One side returns an error: the hybrid goes on to the remote one.
\* A fallback that gives up when the deadline has passed.
MutGiveUp ==
    IF side = "local" /\ ~expired
    THEN side' = "remote" /\ call' = "asking" /\ attempts' = NoAttempts /\ lastUsedLocal' = FALSE
    ELSE call' = "failed" /\ UNCHANGED <<side, attempts, lastUsedLocal>>

GiveUp ==
    IF side = "local"
    THEN side' = "remote" /\ call' = "asking" /\ attempts' = NoAttempts /\ lastUsedLocal' = FALSE
    ELSE call' = "failed" /\ UNCHANGED <<side, attempts, lastUsedLocal>>

Sent == asked' = [asked EXCEPT ![side] = @ + 1]

AskAnswered ==
    /\ call = "asking" /\ ~expired
    /\ call' = "answered" /\ Sent
    /\ lastUsedLocal' = (lastUsedLocal \/ side = "local")
    /\ UNCHANGED <<hybrid, side, retrying, attempts, expired>>

\* A retry policy that forgets the other kinds of error when it meets one.
MutRetry(k) ==
    /\ attempts' = [NoAttempts EXCEPT ![k] = attempts[k] + 1]
    /\ call' = IF k = "malformed" THEN "asking" ELSE "waiting"
    /\ UNCHANGED <<side, lastUsedLocal>>

\* The next attempt after an error of this kind: at once, or after a wait.
Retry(k) ==
    /\ attempts' = [attempts EXCEPT ![k] = @ + 1]
    /\ call' = IF k = "malformed" THEN "asking" ELSE "waiting"
    /\ UNCHANGED <<side, lastUsedLocal>>

AskFails(k) ==
    /\ call = "asking" /\ k \in ErrorsOf(side)
    /\ Sent
    /\ IF attempts[k] < Limit(side, k) THEN Retry(k) ELSE GiveUp
    /\ UNCHANGED <<hybrid, retrying, expired>>

\* A wait that nothing ends but the deadline.
MutWaitEnds ==
    /\ call = "waiting" /\ expired /\ call' = "asking"
    /\ UNCHANGED <<hybrid, side, retrying, attempts, expired, lastUsedLocal, asked>>

\* The wait before a retry ends, or the deadline cuts it short.
WaitEnds ==
    /\ call = "waiting" /\ call' = "asking"
    /\ UNCHANGED <<hybrid, side, retrying, attempts, expired, lastUsedLocal, asked>>

WaitCut ==
    /\ call = "waiting" /\ expired
    /\ GiveUp
    /\ UNCHANGED <<hybrid, retrying, expired, asked>>

Completing == AskAnswered \/ (\E k \in Kinds : AskFails(k)) \/ WaitEnds \/ WaitCut

CompletionTypeOK ==
    /\ hybrid \in BOOLEAN /\ retrying \in BOOLEAN /\ expired \in BOOLEAN /\ lastUsedLocal \in BOOLEAN
    /\ side \in Sides /\ call \in {"asking", "waiting", "answered", "failed"}
    /\ attempts \in [Kinds -> Nat] /\ asked \in [Sides -> Nat]

\* Local first: the remote model, which is paid for, is asked only when there
\* is no local one or the local one was asked first; and a completion fails
\* only when the remote one was asked too (HybridCompleter: "a single
\* flaky/unavailable local call shouldn't fail the whole goal").
LocalFirst ==
    /\ (hybrid /\ asked["remote"] > 0) => asked["local"] > 0
    /\ call = "failed" => asked["remote"] > 0

\* However the kinds of error alternate, the requests of one completion are
\* bounded by the policies together: kinds are counted apart and the counts are
\* never taken back while one side is asked.
RequestsBounded ==
    /\ asked["local"] <= 1 + maxRetries
    /\ asked["remote"] <= 1 + maxNetworkRetries + maxRateLimitRetries + maxMalformedRetries
=============================================================================
