-------------------------------- MODULE Totp --------------------------------
(* The TOTP middleware (middleware/totp_middleware.go, middleware/totp): each *)
(* instance has a session store and a limiter of its own, while the cookie is *)
(* the browser's one "torii-otp-id" for all instances of a host.              *)
(*                                                                            *)
(* Time passes in steps of the period; the code of a step is the step.        *)
(* Sessions are kept by scs, which loads them when a request starts and saves *)
(* them when it ends.                                                         *)
EXTENDS Integers, FiniteSets

CONSTANTS
    Browsers,    \* clients with a cookie jar
    AddressOf,   \* browser |-> client address
    Scopes,      \* instances of the middleware, by ConnectionName
    Attempts,    \* goroutines serving requests
    Configured,  \* scope |-> code-window, period, limit and sessions
    Codes,       \* codes that browsers send
    GuessBurst,  \* burst of the verification limiter
    MaxSteps,    \* bound on time, in periods, each worth one token
    MaxTokens    \* bound on the session tokens issued

ClientAddresses == {AddressOf[b] : b \in Browsers}

ASSUME TotpAssumption == GuessBurst \in Nat \ {0} /\ MaxSteps \in Nat /\ MaxTokens \in Nat

VARIABLES
    now,         \* time in steps
    jar,         \* browser |-> session token, 0 for none
    store,       \* scope |-> tokens of verified sessions
    issued,      \* tokens issued so far
    budget,      \* scope |-> address |-> tokens of its bucket
    attempt,     \* the request of each goroutine
    owner,       \* history: token |-> who verified where
    guesses,     \* history: scope |-> address |-> codes compared, where they are limited
    refills      \* history: scope |-> address |-> buckets the address has had, beyond the first

totpVars == <<now, jar, store, issued, budget, attempt, owner, guesses, refills>>

\* NewTOTPManager: 0 stands for the default
codeWindow(s) == IF Configured[s].window = 0 THEN 1 ELSE Configured[s].window

parseTOTPRateLimitConfig(s) == Configured[s].limit # "invalid"
parseTOTPConfig(s) == Configured[s].period # "unreadable" /\ parseTOTPRateLimitConfig(s)
parseTOTPSessionConfig(s) == Configured[s].sessions = "readable"
NewTOTPManager(s) == Configured[s].window >= 0 /\ Configured[s].period # "negative"

\* buildTOTPManager; the middleware fails closed
Serving(s) == parseTOTPConfig(s) /\ parseTOTPSessionConfig(s) /\ NewTOTPManager(s)

\* newVerificationRateLimiter: without one, codes are not counted
limited(s) == Configured[s].limit # "disabled"

AtRest == [step |-> "idle"]

TotpInit ==
    /\ now = 1 /\ jar = [b \in Browsers |-> 0] /\ store = [s \in Scopes |-> {}] /\ issued = 0
    /\ budget = [s \in Scopes |-> [a \in ClientAddresses |-> GuessBurst]]
    /\ attempt = [q \in Attempts |-> AtRest] /\ owner = [t \in {} |-> 0]
    /\ guesses = [s \in Scopes |-> [a \in ClientAddresses |-> 0]]
    /\ refills = [s \in Scopes |-> [a \in ClientAddresses |-> 0]]

\* Mutant: any cookie will do.
HasCookie(b, s) == jar[b] # 0

\* HasValidSession: the cookie names a session of this instance's store
HasValidSession(b, s) == jar[b] \in store[s]

Becomes(q, r) == attempt' = [attempt EXCEPT ![q] = r]

\* a request with a code, for a browser without a session; one without a code
\* gets the challenge and changes nothing
Request(q, b, s, code) ==
    /\ attempt[q] = AtRest /\ Serving(s)
    /\ Becomes(q, [step |-> IF HasValidSession(b, s) THEN "next" ELSE "limit",
                   browser |-> b, scope |-> s, code |-> code,
                   loaded |-> IF jar[b] \in store[s] THEN jar[b] ELSE 0])
    /\ UNCHANGED <<now, jar, store, issued, budget, owner, guesses, refills>>

\* ValidateAndStartSession: verificationLimiter.Allow
Limit(q) ==
    /\ attempt[q].step = "limit"
    /\ LET s == attempt[q].scope
           a == AddressOf[attempt[q].browser]
       IN  IF limited(s) /\ budget[s][a] = 0
           THEN Becomes(q, AtRest) /\ UNCHANGED <<budget, guesses>>
           ELSE /\ Becomes(q, [attempt[q] EXCEPT !.step = "validate"])
                /\ IF limited(s)
                   THEN budget' = [budget EXCEPT ![s][a] = @ - 1] /\ guesses' = [guesses EXCEPT ![s][a] = @ + 1]
                   ELSE UNCHANGED <<budget, guesses>>
    /\ UNCHANGED <<now, jar, store, issued, owner, refills>>

\* ValidateCode; a period below a second divides by zero, and the request is
\* aborted
ValidateCode(s, code) ==
    Configured[s].period = "seconds" /\ code \in now - codeWindow(s) .. now + codeWindow(s)

\* ValidateCode, and with a right code verificationLimiter.Reset
Validate(q) ==
    /\ attempt[q].step = "validate"
    /\ LET s == attempt[q].scope
           a == AddressOf[attempt[q].browser]
       IN  IF ValidateCode(s, attempt[q].code)
           THEN /\ Becomes(q, [attempt[q] EXCEPT !.step = "start"])
                /\ IF limited(s)
                   THEN budget' = [budget EXCEPT ![s][a] = GuessBurst] /\ refills' = [refills EXCEPT ![s][a] = @ + 1]
                   ELSE UNCHANGED <<budget, refills>>
           ELSE Becomes(q, AtRest) /\ UNCHANGED <<budget, refills>>
    /\ UNCHANGED <<now, jar, store, issued, owner, guesses>>

\* Mutant: the tokens of all other sessions of the store are dropped.
StartAlone(q) ==
    /\ attempt[q].step = "start" /\ issued < MaxTokens
    /\ issued' = issued + 1
    /\ store' = [store EXCEPT ![attempt[q].scope] = {issued + 1}]
    /\ owner' = [t \in 1 .. issued + 1 |->
                    IF t = issued + 1 THEN <<attempt[q].browser, attempt[q].scope>> ELSE owner[t]]
    /\ Becomes(q, [attempt[q] EXCEPT !.step = "done", !.loaded = issued + 1])
    /\ UNCHANGED <<now, jar, budget, guesses, refills>>

\* NewSession: RenewToken drops the token that was loaded; the save at the end
\* of the request stores the new one
StartSession(q) ==
    /\ attempt[q].step = "start" /\ issued < MaxTokens
    /\ issued' = issued + 1
    /\ store' = [store EXCEPT ![attempt[q].scope] = (@ \ {attempt[q].loaded}) \union {issued + 1}]
    /\ owner' = [t \in 1 .. issued + 1 |->
                    IF t = issued + 1 THEN <<attempt[q].browser, attempt[q].scope>> ELSE owner[t]]
    /\ Becomes(q, [attempt[q] EXCEPT !.step = "done", !.loaded = issued + 1])
    /\ UNCHANGED <<now, jar, budget, guesses, refills>>

\* the answer reaches the browser, which keeps one cookie
Answer(q) ==
    /\ attempt[q].step = "done"
    /\ jar' = [jar EXCEPT ![attempt[q].browser] = attempt[q].loaded]
    /\ Becomes(q, AtRest)
    /\ UNCHANGED <<now, store, issued, budget, owner, guesses, refills>>

Pass(q) ==
    /\ attempt[q].step = "next" /\ Becomes(q, AtRest)
    /\ UNCHANGED <<now, jar, store, issued, budget, owner, guesses, refills>>

\* session-lifetime or session-idle-timeout
Expire(s, t) ==
    /\ t \in store[s] /\ store' = [store EXCEPT ![s] = @ \ {t}]
    /\ UNCHANGED <<now, jar, issued, budget, attempt, owner, guesses, refills>>

\* a period later every bucket has one token more, up to its burst
TimePasses ==
    /\ now <= MaxSteps /\ now' = now + 1
    /\ budget' = [s \in Scopes |-> [a \in ClientAddresses |->
                    IF budget[s][a] < GuessBurst THEN budget[s][a] + 1 ELSE GuessBurst]]
    /\ UNCHANGED <<jar, store, issued, attempt, owner, guesses, refills>>

TotpNext ==
    \/ \E q \in Attempts :
        \/ \E b \in Browsers, s \in Scopes, code \in Codes : Request(q, b, s, code)
        \/ Limit(q) \/ Validate(q) \/ StartSession(q) \/ Answer(q) \/ Pass(q)
    \/ \E s \in Scopes : \E t \in store[s] : Expire(s, t)
    \/ TimePasses

TotpSpec == TotpInit /\ [][TotpNext]_totpVars

----------------------------------------------------------------------------
\* The parts of the middleware have their types, and a token belongs to one
\* store: the one of the instance that issued it (NewRegistry).
TotpTypeOK ==
    /\ now \in 1 .. MaxSteps + 1 /\ issued \in 0 .. MaxTokens
    /\ \A s \in Scopes : \A t \in store[s] : owner[t][2] = s
    /\ \A s \in Scopes, a \in ClientAddresses : budget[s][a] \in 0 .. GuessBurst

\* Only a browser that itself gave a right code to this instance gets past it:
\* the shared cookie never carries a verification over to another instance, or
\* to another browser, and a period below a second lets nobody in.
PassedWasVerified ==
    \A q \in Attempts :
        attempt[q].step = "next" =>
            /\ <<attempt[q].browser, attempt[q].scope>> \in {owner[t] : t \in 1 .. issued}
            /\ Configured[attempt[q].scope].period = "seconds"

\* The codes that are compared for an address are bounded: a burst at the
\* start and at every right code given from it, and one more each period.
GuessesBounded ==
    \A s \in Scopes, a \in ClientAddresses :
        limited(s) => guesses[s][a] <= GuessBurst * (1 + refills[s][a]) + now - 1

\* A session ends only when it expires or when the browser gets the cookie of
\* another one, started at an instance that shares the cookie: no session that
\* is started takes one away from the store.
SessionEndsForAReason ==
    [][\A b \in Browsers, s \in Scopes :
           HasValidSession(b, s) /\ ~HasValidSession(b, s)' =>
               \/ \E t \in store[s] : Expire(s, t)
               \/ \E q \in Attempts : attempt[q] # AtRest /\ attempt[q].browser = b /\ Answer(q)]_totpVars

\* The second factor: nobody passes without a right code, and codes cannot be
\* tried without bound.
SecondFactorHolds == TotpTypeOK /\ PassedWasVerified /\ GuessesBounded
=============================================================================
