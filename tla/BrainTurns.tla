----------------------------- MODULE BrainTurns -----------------------------
(***************************************************************************)
(* run_brain_loop of packages/core/brain_loop.py over one Gemini client     *)
(* (gemini.py) and the shared context cache: the turns of several sessions  *)
(* in one process.  The history of a turn is reduced to the tool calls at   *)
(* its end that nothing has answered: those of edit_slides, and those of    *)
(* other names beside them.                                                 *)
(***************************************************************************)
EXTENDS Naturals, Sequences, FiniteSets

-----------------------------------------------------------------------------
(***************************************************************************)
(* BrainContextCache of packages/core/gemini_cache.py: one explicit        *)
(* context cache for every brain turn of the process, created on first use *)
(* under a lock, renewed a margin before the server drops it, given up for *)
(* good when a create fails.                                               *)
(***************************************************************************)
CONSTANTS
    Turns,              \* brain turns of one process
    Ttl,                \* DEFAULT_BRAIN_CACHE_TTL_SECONDS
    Margin,             \* CACHE_EXPIRY_MARGIN_SECONDS
    CreateTimeout,      \* CACHE_CREATE_TIMEOUT_SECONDS
    MaxClock,           \* bound: how long is watched
    Nobody

\* 3600, 120 and 30 seconds in the code.
ASSUME CacheAssumption ==
    /\ Margin \in Nat /\ CreateTimeout \in Nat /\ MaxClock \in Nat
    /\ Ttl \in Nat /\ Margin + CreateTimeout < Ttl
    /\ Nobody \notin Turns

VARIABLES
    clock,
    dies,               \* the server: when it drops the k-th cache it made
    cached,             \* _name: the number of the cache, NoHandle for None
    expiresAt,          \* _expires_at
    disabled,           \* not enabled, or _failed
    holder,             \* of the lock
    sampled             \* now, in the call that holds it

cacheVars == <<clock, dies, cached, expiresAt, disabled, holder, sampled>>

NoHandle == 0
Handles == 1..Len(dies)

CacheTypeOK ==
    /\ clock \in 0..MaxClock
    /\ dies \in Seq(Nat)
    /\ cached \in Handles \cup {NoHandle}
    /\ expiresAt \in 0..(MaxClock + Ttl) /\ sampled \in 0..MaxClock
    /\ disabled \in BOOLEAN
    /\ holder \in Turns \cup {Nobody}

CacheInit ==
    /\ clock = 0 /\ dies = <<>>
    /\ cached = NoHandle /\ expiresAt = 0 /\ sampled = 0
    /\ disabled = FALSE
    /\ holder = Nobody

Live(h) == clock < dies[h]

\* Read again under the lock.
Usable == ~disabled

\* Mutant: the margin is forgotten.
Fresh_NoMargin == cached # NoHandle /\ clock < expiresAt + Margin

Fresh == cached # NoHandle /\ clock < expiresAt

Lock(t) == holder = Nobody /\ holder' = t
Unlock == holder' = Nobody /\ sampled' = 0

\* caches.create is sent...
CreateStarts == sampled' = clock

\* ... and the server made the cache at some moment since.
CreateReturns ==
    \E at \in sampled..clock :
        /\ dies' = Append(dies, at + Ttl)
        /\ cached' = Len(dies) + 1
        /\ expiresAt' = sampled + Ttl - Margin

\* It raised, or took CreateTimeout: off for the life of the process.
CreateFails ==
    /\ disabled' = TRUE
    /\ cached' = NoHandle

Invalidate == cached' = NoHandle /\ expiresAt' = 0

-----------------------------------------------------------------------------
(***************************************************************************)
(* The turns.                                                              *)
(***************************************************************************)

CONSTANTS
    Conversational,     \* turns with AUTO tools; the others are the critic's
    MaxIterations,      \* BRAIN_LOOP_MAX_ITERATIONS
    MaxRetries,         \* DEFAULT_LLM_MAX_RETRIES
    ThrottleBase, ThrottleCap, ThrottleBudget,
    MaxCalls            \* bound: tool calls in one answer

ASSUME TurnsAssumption ==
    /\ Conversational \subseteq Turns
    /\ {MaxIterations, MaxCalls} \subseteq Nat \ {0}
    /\ {MaxRetries, ThrottleBase, ThrottleCap, ThrottleBudget} \subseteq Nat

VARIABLES
    tpc,
    iterations,         \* attempts of run_brain_loop
    handle,             \* the cache this call rides on, or NoHandle
    bypassed,           \* cache_bypassed
    larger,             \* the larger token budget is in use
    retries,            \* attempt of _generate_with_retry
    throttles, backoff, \* throttle_attempt, throttle_backoff_spent
    open,               \* edit_slides calls of the history without a response part
    strays,             \* calls of other names without one
    calls,              \* tool_call_count
    answers             \* History: what the model has answered in this turn

loopVars == <<iterations, bypassed, larger, open, strays, calls, answers>>
retryVars == <<retries, throttles, backoff>>
turnVars == <<tpc, handle, loopVars, retryVars>>
brainVars == <<cacheVars, turnVars>>

Waiting == {"lock", "create", "call"}
TurnEnds == {"reply", "gave up", "answered", "raised", "broke off"}

TurnsTypeOK ==
    /\ CacheTypeOK
    /\ tpc \in [Turns -> Waiting \cup TurnEnds \cup {"next", "fix"}]
    /\ iterations \in [Turns -> 0..MaxIterations]
    /\ handle \in [Turns -> Handles \cup {NoHandle}]
    /\ bypassed \in [Turns -> BOOLEAN] /\ larger \in [Turns -> BOOLEAN]
    /\ retries \in [Turns -> 0..MaxRetries] /\ throttles \in [Turns -> Nat]
    /\ backoff \in [Turns -> 0..ThrottleBudget]
    /\ \A counter \in {open, strays, calls} : counter \in [Turns -> 0..MaxCalls]
    /\ answers \in [Turns -> 0..MaxIterations]

TurnsInit ==
    /\ CacheInit
    /\ tpc = [t \in Turns |-> "next"]
    /\ iterations = [t \in Turns |-> 0]
    /\ handle = [t \in Turns |-> NoHandle]
    /\ bypassed = [t \in Turns |-> FALSE] /\ larger = [t \in Turns |-> FALSE]
    /\ retries = [t \in Turns |-> 0] /\ throttles = [t \in Turns |-> 0]
    /\ backoff = [t \in Turns |-> 0]
    /\ open = [t \in Turns |-> 0] /\ strays = [t \in Turns |-> 0] /\ calls = [t \in Turns |-> 0]
    /\ answers = [t \in Turns |-> 0]

TurnAt(t, s) == tpc[t] = s
TurnGoto(t, s) == tpc' = [tpc EXCEPT ![t] = s]

\* The loop returns or raises: its local variables are gone.
TurnGoes(t, s) ==
    /\ TurnGoto(t, s)
    /\ iterations' = [iterations EXCEPT ![t] = 0]
    /\ bypassed' = [bypassed EXCEPT ![t] = FALSE]
    /\ larger' = [larger EXCEPT ![t] = FALSE]
    /\ answers' = [answers EXCEPT ![t] = 0]

GoesOn(t) == TurnGoto(t, "next") /\ UNCHANGED <<iterations, bypassed>>

\* A create that is under way cannot outlast its timeout.
Tick ==
    /\ clock < MaxClock
    /\ \A t \in Turns : TurnAt(t, "create") => clock < sampled + CreateTimeout
    /\ clock' = clock + 1
    /\ UNCHANGED <<dies, cached, expiresAt, disabled, holder, sampled, turnVars>>

-----------------------------------------------------------------------------
(***************************************************************************)
(* The next iteration, and its handle                                      *)
(***************************************************************************)

StartCall(t, h) ==
    /\ TurnGoto(t, "call")
    /\ handle' = [handle EXCEPT ![t] = h]
    /\ UNCHANGED retryVars

WantsCache(t) == t \in Conversational /\ ~bypassed[t] /\ ~disabled

Iterate(t) ==
    /\ TurnAt(t, "next") /\ iterations[t] < MaxIterations
    /\ iterations' = [iterations EXCEPT ![t] = @ + 1]
    /\ IF WantsCache(t)
       THEN TurnGoto(t, "lock") /\ UNCHANGED <<handle, retryVars>>
       ELSE StartCall(t, NoHandle)
    /\ UNCHANGED <<cacheVars, bypassed, larger, open, strays, calls, answers>>

GivesUp(t) ==
    /\ TurnAt(t, "next") /\ iterations[t] = MaxIterations
    /\ TurnGoes(t, "gave up")
    /\ UNCHANGED <<cacheVars, handle, open, strays, calls, retryVars>>

\* Under the lock: nothing to use, the cache at hand, or a new one.
TakesHandle(t) ==
    /\ TurnAt(t, "lock") /\ holder = Nobody
    /\ ~Usable \/ Fresh
    /\ StartCall(t, IF Usable THEN cached ELSE NoHandle)
    /\ UNCHANGED <<cacheVars, loopVars>>

Creates(t) ==
    /\ TurnAt(t, "lock") /\ Lock(t)
    /\ Usable /\ ~Fresh
    /\ CreateStarts
    /\ TurnGoto(t, "create")
    /\ UNCHANGED <<clock, dies, cached, expiresAt, disabled, handle, loopVars, retryVars>>

Created(t) ==
    /\ TurnAt(t, "create")
    /\ CreateReturns
    /\ StartCall(t, cached')
    /\ Unlock
    /\ UNCHANGED <<clock, disabled, loopVars>>

NotCreated(t) ==
    /\ TurnAt(t, "create")
    /\ CreateFails
    /\ StartCall(t, NoHandle)
    /\ Unlock
    /\ UNCHANGED <<clock, dies, expiresAt, loopVars>>

-----------------------------------------------------------------------------
(***************************************************************************)
(* One call: _generate_with_retry                                          *)
(***************************************************************************)

\* Mutant: the fallback eats an iteration.
Fallback_Counted(t) ==
    /\ Invalidate
    /\ bypassed' = [bypassed EXCEPT ![t] = TRUE]
    /\ TurnGoto(t, "next")
    /\ UNCHANGED <<iterations, larger, answers>>

\* A cached call is made again without the cache, its iteration given back.
Fallback(t) ==
    /\ Invalidate
    /\ bypassed' = [bypassed EXCEPT ![t] = TRUE]
    /\ iterations' = [iterations EXCEPT ![t] = @ - 1]
    /\ TurnGoto(t, "next")
    /\ UNCHANGED <<larger, answers>>

\* The error reaches the loop.
CallFails(t) ==
    /\ IF handle[t] = NoHandle
       THEN TurnGoes(t, "raised") /\ UNCHANGED <<cached, expiresAt>>
       ELSE Fallback(t)
    /\ handle' = [handle EXCEPT ![t] = NoHandle]

Retries == UNCHANGED <<tpc, handle, iterations, bypassed, larger, answers, cached, expiresAt>>

CallKeeps == UNCHANGED <<clock, dies, disabled, holder, sampled, open, strays, calls>>

\* The counters are local to the call.
CallOver(t) ==
    /\ retries' = [retries EXCEPT ![t] = 0]
    /\ throttles' = [throttles EXCEPT ![t] = 0]
    /\ backoff' = [backoff EXCEPT ![t] = 0]

\* A timeout, or an error that is neither 429 nor an auth error: also what a
\* handle the server has dropped gets.
Transient(t) ==
    /\ TurnAt(t, "call")
    /\ IF retries[t] < MaxRetries
       THEN /\ retries' = [retries EXCEPT ![t] = @ + 1]
            /\ UNCHANGED <<throttles, backoff>>
            /\ Retries
       ELSE CallFails(t) /\ CallOver(t)
    /\ CallKeeps

\* The base, doubled for every throttling before, up to the cap.
NextBackoff(t) ==
    LET doubled[n \in 0..throttles[t]] ==
            IF n = 0 THEN ThrottleBase ELSE 2 * doubled[n - 1]
        b == doubled[throttles[t]]
    IN  IF b < ThrottleCap THEN b ELSE ThrottleCap

\* A 429 without a metric, on a budget of its own.
Throttled(t) ==
    /\ TurnAt(t, "call")
    /\ IF backoff[t] + NextBackoff(t) <= ThrottleBudget
       THEN /\ throttles' = [throttles EXCEPT ![t] = @ + 1]
            /\ backoff' = [backoff EXCEPT ![t] = @ + NextBackoff(t)]
            /\ UNCHANGED retries
            /\ Retries
       ELSE CallFails(t) /\ CallOver(t)
    /\ CallKeeps

\* 401, 403 and a 429 that names its metric are not retried.
Terminal(t) ==
    /\ TurnAt(t, "call")
    /\ CallFails(t) /\ CallOver(t)
    /\ CallKeeps

\* A broken connection is neither a timeout nor an APIError: nothing retries it or
\* makes the call again without the cache.
Unreachable(t) ==
    /\ TurnAt(t, "call")
    /\ TurnGoes(t, "broke off") /\ CallOver(t)
    /\ handle' = [handle EXCEPT ![t] = NoHandle]
    /\ UNCHANGED <<cached, expiresAt>>
    /\ CallKeeps

-----------------------------------------------------------------------------
(***************************************************************************)
(* One answer                                                              *)
(***************************************************************************)

\* The server refuses a dropped cache.
ServerAnswers(t) ==
    /\ TurnAt(t, "call")
    /\ handle[t] # NoHandle => Live(handle[t])
    /\ handle' = [handle EXCEPT ![t] = NoHandle]
    /\ CallOver(t)
    /\ UNCHANGED cacheVars

CountAnswer(t) == answers' = [answers EXCEPT ![t] = @ + 1]

\* GeminiToolCallError: blocked, truncated or malformed; once more with more
\* tokens.
Degraded(t) ==
    /\ ServerAnswers(t)
    /\ IF larger[t] THEN TurnGoes(t, "gave up")
       ELSE /\ larger' = [larger EXCEPT ![t] = TRUE]
            /\ CountAnswer(t) /\ GoesOn(t)
    /\ UNCHANGED <<open, strays, calls>>

Reply(t) ==
    /\ ServerAnswers(t)
    /\ TurnGoes(t, "reply")
    /\ UNCHANGED <<open, strays, calls>>

\* _tool_error_responses: one for each call.
ErrorResponses(n) == n

\* Calls whose arguments are no fixes, or that are all of other names, are answered
\* at once, whatever their names, and asked for again.
BadCalls(t) ==
    /\ ServerAnswers(t)
    /\ \E n \in 1..MaxCalls : open' = [open EXCEPT ![t] = n - ErrorResponses(n)]
    /\ CountAnswer(t) /\ GoesOn(t)
    /\ UNCHANGED <<larger, strays, calls>>

\* Only the edit_slides calls are read, and counted.
Fix(t) ==
    /\ ServerAnswers(t)
    /\ \E n \in 1..MaxCalls :
        /\ open' = [open EXCEPT ![t] = n]
        /\ calls' = [calls EXCEPT ![t] = n]
        /\ \E others \in 0..(MaxCalls - n) : strays' = [strays EXCEPT ![t] = others]
    /\ TurnGoes(t, "fix")

\* _append_fix_result, however the fix went: delivered, refused, or failed.
AnswersCalls(t) ==
    /\ TurnAt(t, "fix")
    /\ open' = [open EXCEPT ![t] = @ - calls[t]]
    /\ calls' = [calls EXCEPT ![t] = 0]
    /\ TurnGoto(t, "answered")
    /\ UNCHANGED <<cacheVars, handle, iterations, bypassed, larger, strays, answers, retryVars>>

-----------------------------------------------------------------------------
TurnStep(t) ==
    \/ Iterate(t) \/ GivesUp(t)
    \/ TakesHandle(t) \/ Creates(t) \/ Created(t) \/ NotCreated(t)
    \/ Transient(t) \/ Throttled(t) \/ Terminal(t) \/ Unreachable(t)
    \/ Degraded(t) \/ Reply(t) \/ BadCalls(t) \/ Fix(t) \/ AnswersCalls(t)

TurnOver(t) == tpc[t] \in TurnEnds

TurnsRest == (\A t \in Turns : TurnOver(t)) /\ UNCHANGED brainVars

TurnsNext == Tick \/ (\E t \in Turns : TurnStep(t)) \/ TurnsRest

-----------------------------------------------------------------------------
(***************************************************************************)
(* Properties                                                              *)
(***************************************************************************)

\* Of "a turn never starts against a cache that dies mid-call": a handle is given
\* out with its whole margin to live, whoever made it, however long the caller waited
\* for the lock and the server for the create; a call that outlasts the margin, as one
\* attempt may, can still meet a dropped cache, and is made again without it.  Creates
\* are rationed: one at a time, none while a cache is good, none at all once one has
\* failed, also by a turn that was waiting for the lock when it did.  For all that it
\* is "a cost optimisation, never a correctness dependency": a timeout or an error of
\* the API fails a turn only on a call made without it (a connection that breaks fails
\* any turn), and one gives up only after as many answers of the model as it has
\* iterations, or two degraded ones.  And Gemini refuses a history with an unanswered
\* call: whenever a request is about to be sent every call has its response, and once
\* the fix is settled every edit_slides call has (those of other names stay open).
EveryTurnIsServed ==
    [][\A t \in Turns :
        /\ handle[t] = NoHandle /\ handle'[t] # NoHandle =>
                clock + Margin < dies'[handle'[t]]
        /\ ~TurnAt(t, "create") /\ TurnAt(t, "create")' =>
                /\ ~disabled
                /\ \A u \in Turns : ~TurnAt(u, "create")
                /\ cached # NoHandle => clock >= expiresAt
        /\ ~TurnAt(t, "raised") /\ TurnAt(t, "raised")' => handle[t] = NoHandle
        /\ ~TurnAt(t, "gave up") /\ TurnAt(t, "gave up")' =>
                answers[t] = MaxIterations \/ larger[t]
        /\ (tpc[t] \in Waiting \cup {"answered", "reply", "gave up"} => open[t] = 0)'
        /\ (tpc[t] \in Waiting \cup {"reply", "gave up"} => strays[t] = 0)']_brainVars
=============================================================================
