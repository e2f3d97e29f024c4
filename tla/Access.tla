------------------------------- MODULE Access -------------------------------
(***************************************************************************)
(* A request on its way to a handler: the bearer token is authenticated    *)
(* (security/tokens.py, identity.py, dependencies.py), the permission is   *)
(* required, and then an execution passes the sliding-window rate limiter  *)
(* of the process (core/rate_limit.py), a collection query is constrained  *)
(* to the caller's scope and a record is checked once it is loaded.        *)
(*                                                                         *)
(* Each of these runs without suspending, so one request is one action;    *)
(* between two requests time passes, an operator clears counters and the   *)
(* process restarts, which forgets them.                                   *)
(***************************************************************************)
EXTENDS Scope, Integers, Sequences

CONSTANTS Tokens,        \* records [signed, sub, tenant, roles, iat, exp]
          Asked,         \* the permissions that queries and records need
          Rows,          \* the ownership of the rows of a table
          MaxRequests,   \* RateLimitPolicy.max_requests
          Window,        \* RateLimitPolicy.window_seconds
          Leeway,        \* of the token validator
          PartsOf,       \* the text of a tenant's or a subject's id, cut at each ':',
                         \* and "anonymous" for an empty one
          MaxTime        \* bound: the clock stops there

ASSUME LimitAssumption ==
    MaxRequests \in Nat \ {0} /\ Window \in Nat \ {0} /\ MaxTime \in Nat

ASSUME TokenAssumption ==
    \A token \in Tokens :
        /\ token.sub \in Subjects
        /\ token.tenant \in Tenants \union {None}
        /\ token.roles \subseteq Entry

ASSUME RowAssumption == Rows \subseteq Ownership

Callers == Tenants \X Subjects

\* A limiter key is the two ids joined by ':', none of which is escaped, and the
\* route, which is the same for all.
Joined(caller) == PartsOf[caller[1]] \o PartsOf[caller[2]]

\* Ids that themselves hold a ':' may join to one key, "a" with "b:c" as "a:b"
\* with "c"; their owners would share a counter.  Here no two callers do.
ASSUME KeyAssumption ==
    \A c \in Callers : \A d \in Callers : Joined(c) = Joined(d) => c = d

VARIABLES now,      \* the clock
          hits,     \* InMemoryRateLimiter._hits, per key
          granted,  \* history: when each caller was admitted since its counter was cleared
          told,     \* history: the instant a refused caller was told to come back at, or None
          answer    \* the response to the last request, forgotten once it is out

vars == <<now, hits, granted, told, answer>>

Keys == {Joined(c) : c \in Callers}

NoAnswer == [kind |-> "none"]

TypeOK ==
    /\ now \in Nat
    /\ hits \in [Keys -> Seq(Nat)]
    /\ granted \in [Callers -> Seq(Nat)]
    /\ told \in [Callers -> Nat \union {None}]

Init ==
    /\ now = 0
    /\ hits = [k \in Keys |-> <<>>]
    /\ granted = [c \in Callers |-> <<>>]
    /\ told = [c \in Callers |-> None]
    /\ answer = NoAnswer

-----------------------------------------------------------------------------
(* Authentication and the endpoint's guard.                                 *)

\* The signature and a token of the future first, then expiry, then the tenant.
TokenFault(token) ==
    IF ~token.signed \/ token.iat > now + Leeway THEN "invalid_token"
    ELSE IF token.exp <= now - Leeway THEN "token_expired"
    ELSE IF token.tenant = None THEN "invalid_token"
    ELSE "none"

PrincipalOf(token) ==
    [subject |-> token.sub, tenant |-> token.tenant,
     assignments |-> Assignments(token.roles, token.tenant)]

Authorized(token, permission) ==
    TokenFault(token) = "none" /\ HasPermission(PrincipalOf(token), permission)

Refuse(token, permission) ==
    /\ ~Authorized(token, permission)
    /\ answer' = [kind |-> "denied",
                  status |-> IF TokenFault(token) # "none" THEN "401" ELSE "403"]
    /\ UNCHANGED <<now, hits, granted, told>>

-----------------------------------------------------------------------------
(* POST /ai/execute: RateLimiter.check(key, policy).                        *)

CallerOf(token) == <<token.tenant, token.sub>>

RateLimitKeyOfSubject(token) == Joined(<<CHOOSE t \in Tenants : TRUE, token.sub>>)

RateLimitKey(token) == Joined(CallerOf(token))

\* Everything outside the window is dropped from the left end: a hit exactly
\* one window old no longer counts.
Outside(hit) == hit <= now - Window

\* The counter starts afresh once its oldest hit is outside.
PopsAll(queue, n) ==
    n = IF Len(queue) > 0 /\ Outside(queue[1]) THEN Len(queue) ELSE 0

\* n hits are popped: those outside the window, up to the first that is not.
Pops(queue, n) ==
    /\ \A i \in 1..n : Outside(queue[i])
    /\ n < Len(queue) => ~Outside(queue[n + 1])

\* A refused attempt is not recorded; an admitted one is.
ExecuteRecordingEveryAttempt(token) ==
    /\ Authorized(token, "ai:execute")
    /\ LET key == RateLimitKey(token)
           caller == CallerOf(token)
       IN \E n \in 0..Len(hits[key]) :
            /\ Pops(hits[key], n)
            /\ LET recent == SubSeq(hits[key], n + 1, Len(hits[key]))
               IN /\ hits' = [hits EXCEPT ![key] = Append(recent, now)]
                  /\ IF Len(recent) >= MaxRequests
                     THEN /\ told' = [told EXCEPT ![caller] = recent[1] + Window]
                          /\ answer' = [kind |-> "limited", caller |-> caller,
                                        retryAfter |-> recent[1] + Window - now]
                          /\ UNCHANGED granted
                     ELSE /\ granted' = [granted EXCEPT ![caller] = Append(@, now)]
                          /\ told' = [told EXCEPT ![caller] = None]
                          /\ answer' = [kind |-> "admitted", caller |-> caller]
    /\ UNCHANGED now

Execute(token) ==
    /\ Authorized(token, "ai:execute")
    /\ LET key == RateLimitKey(token)
           caller == CallerOf(token)
       IN \E n \in 0..Len(hits[key]) :
            /\ Pops(hits[key], n)
            /\ LET recent == SubSeq(hits[key], n + 1, Len(hits[key]))
               IN IF Len(recent) >= MaxRequests
                  THEN /\ hits' = [hits EXCEPT ![key] = recent]
                       /\ told' = [told EXCEPT ![caller] = recent[1] + Window]
                       /\ answer' = [kind |-> "limited", caller |-> caller,
                                     retryAfter |-> recent[1] + Window - now]
                       /\ UNCHANGED granted
                  ELSE /\ hits' = [hits EXCEPT ![key] = Append(recent, now)]
                       /\ granted' = [granted EXCEPT ![caller] = Append(@, now)]
                       /\ told' = [told EXCEPT ![caller] = None]
                       /\ answer' = [kind |-> "admitted", caller |-> caller]
    /\ UNCHANGED now

\* reset(key), and reset() or a restart of the process for every key.
Clear(keys) ==
    /\ hits' = [k \in Keys |-> IF k \in keys THEN <<>> ELSE hits[k]]
    /\ granted' = [c \in Callers |-> IF Joined(c) \in keys THEN <<>> ELSE granted[c]]
    /\ told' = [c \in Callers |-> IF Joined(c) \in keys THEN None ELSE told[c]]
    /\ UNCHANGED <<now, answer>>

-----------------------------------------------------------------------------
(* A collection query (RequireScope and the repository's predicate) and a   *)
(* handler that must touch one row (authorize_resource_permission).         *)

Query(token, permission, plant, department) ==
    /\ TokenFault(token) = "none"
    /\ LET p == PrincipalOf(token)
           branches == Resolve(p, permission, plant, department)
       IN answer' = [kind |-> "query", token |-> token, permission |-> permission,
                     plant |-> plant, department |-> department,
                     status |-> IF branches = {} THEN "403" ELSE "200",
                     rows |-> IF branches = {} THEN {}
                              ELSE {r \in Rows : Selects(p.tenant, branches, r)}]
    /\ UNCHANGED <<now, hits, granted, told>>

Touch(token, permission, row) ==
    /\ Authorized(token, permission)
    /\ answer' = [kind |-> "record", row |-> row,
                  status |-> RecordStatus(PrincipalOf(token), row, permission)]
    /\ UNCHANGED <<now, hits, granted, told>>

Tick ==
    /\ now < MaxTime
    /\ now' = now + 1
    /\ UNCHANGED <<hits, granted, told, answer>>

\* The response goes out before the next request is taken.
Respond ==
    /\ answer # NoAnswer
    /\ answer' = NoAnswer
    /\ UNCHANGED <<now, hits, granted, told>>

Handle(token) ==
    \/ Execute(token)
    \/ \E permission \in Asked \union {"ai:execute"} : Refuse(token, permission)
    \/ \E permission \in Asked, plant \in Plants \union {None},
          department \in Departments \union {None} :
         Query(token, permission, plant, department)
    \/ \E permission \in Asked, row \in Rows : Touch(token, permission, row)

Next ==
    \/ answer = NoAnswer /\ \E token \in Tokens : Handle(token)
    \/ answer = NoAnswer /\ \E k \in Keys : Clear({k})
    \/ answer = NoAnswer /\ (Clear(Keys) \/ Tick)
    \/ Respond

Spec == Init /\ [][Next]_vars

-----------------------------------------------------------------------------
(* Properties.                                                              *)

\* No caller is admitted more than max_requests times in any stretch of one
\* window, however the window is placed: any MaxRequests + 1 admissions in a
\* row span at least a whole window.
WindowNeverOverfull ==
    \A c \in Callers : \A i \in 1..Len(granted[c]) :
        i + MaxRequests <= Len(granted[c]) => granted[c][i + MaxRequests] - granted[c][i] >= Window

\* A caller, whose key no other caller has, is refused only for admissions of its
\* own that still fill the window, and is told the positive delay after which the
\* oldest of them leaves it.
RefusedOnlyWhenFull ==
    answer.kind = "limited" =>
        LET own == granted[answer.caller]
            oldest == Len(own) - MaxRequests + 1
        IN /\ oldest >= 1
           /\ answer.retryAfter = own[oldest] + Window - now
           /\ answer.retryAfter > 0

\* The instant a refused caller was told to come back at neither moves, however
\* often it asks before, nor is the caller let in before it.
PromisedInstantStands ==
    [][\A k \in Callers : told[k] # None =>
         /\ told'[k] \in {told[k], None}
         /\ granted'[k] \notin {granted[k], <<>>} => now >= told[k]]_vars

\* What a query returns is exactly what the check of each record would let the
\* same caller touch, among the rows of the plant and department asked for.
QuerySeesWhatRecordsAllow ==
    answer.kind = "query" =>
        answer.rows =
            {r \in Rows :
                /\ CanAccess(PrincipalOf(answer.token), r, answer.permission)
                /\ answer.plant \in {None, r.plant}
                /\ answer.department \in {None, r.department}}

\* A query is refused exactly when no row at all, stored or not, could be both
\* within the caller's reach and in the plant and department asked for.
RefusedIsOutOfReach ==
    answer.kind = "query" =>
        (answer.status = "403" <=>
            ~\E r \in Ownership :
                /\ CanAccess(PrincipalOf(answer.token), r, answer.permission)
                /\ answer.plant \in {None, r.plant}
                /\ answer.department \in {None, r.department})
=============================================================================
