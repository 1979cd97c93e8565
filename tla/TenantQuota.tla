------------------------------ MODULE TenantQuota -----------------------------
(***************************************************************************)
(* The quota of one tenant: a budget per fixed period and a rate limit per *)
(* sliding window, asked by any number of goroutines while others register *)
(* or replace the tenant's policy.                                         *)
(*                                                                         *)
(* Budget and rate limiter have locks of their own.  The evaluator's three *)
(* maps have none: Register looks into a map and writes to it in two       *)
(* steps, and registrations overlap, so that a budget or limiter in use    *)
(* can be replaced by an empty one.  A call of Register makes at most one  *)
(* of each, and they are named after the call.                             *)
(*                                                                         *)
(* Of what a race on a map may do, the model has the orders of the reads   *)
(* and writes; that the Go runtime may also end the process on it is left  *)
(* out.  A handler's read of a map and the call of what it found are one   *)
(* step: once replaced, a budget or limiter is read by nobody else, so     *)
(* that later calls on it might as well have come before.                  *)
(*                                                                         *)
(* Tenants are independent, so one is enough.  Time is a counter that      *)
(* stops at MaxTime, and the window of a policy is never the default one.  *)
(***************************************************************************)
EXTENDS Naturals, FiniteSets

CONSTANTS
    Callers,    \* the goroutines that call Authorize
    Registrations,  \* the calls of Register
    Policy,     \* the policy [cap, rate, exempt] each of them is made with
    Window,     \* the length of the budget's period and of the rate window
    MaxTime     \* bound: the clock stops here

ASSUME WindowAssumption == Window \in Nat \ {0}
ASSUME MaxTimeAssumption == MaxTime \in Nat
ASSUME PolicyAssumption ==
    Policy \in [Registrations -> [cap : Nat, rate : Nat, exempt : BOOLEAN]]

VARIABLES
    clock,
    policy,     \* Evaluator.policy: nothing, or whose policy is in force
    budget,     \* Evaluator.budgets: nothing, or whose budget is in force
    limiter,    \* Evaluator.limits: nothing, or whose limiter is in force
    budgets,    \* the Budget each registration makes
    limiters,   \* the RateLimiter each registration makes
    register,   \* where each registration is in Register
    noted,      \* the time it has read, while it may make a budget of it
    stage,      \* where each handler is in Authorize
    at,         \* the time each handler has read
    spent,      \* history: the requests the budgets have let through
    granted,    \* history: the requests the limiters have let through
    lastConsume,    \* history: the latest time each budget was called with
    lastAllow       \* history: the latest time each limiter was called with

maps == <<policy, budget, limiter>>
registration == <<register, noted>>
spending == <<budgets, spent, lastConsume>>
granting == <<limiters, granted, lastAllow>>
authorization == <<stage, at>>
quotaVars == <<clock, maps, registration, spending, granting, authorization>>

Times == 0..MaxTime

Unset == {}
Installed(map) == map # Unset

(* NewBudget and NewRateLimiter, which raises the limit to 1.              *)
NewBudget(p, now) == [limit |-> p.cap, used |-> 0, resetAt |-> now + Window]

NewRateLimiter(p) == [limit |-> IF p.rate < 1 THEN 1 ELSE p.rate, entries |-> {}]

QuotaInit ==
    /\ clock = 0
    /\ policy = Unset /\ budget = Unset /\ limiter = Unset
    /\ budgets = [r \in Registrations |-> [limit |-> 0, used |-> 0, resetAt |-> 0]]
    /\ limiters = [r \in Registrations |-> [limit |-> 0, entries |-> {}]]
    /\ register = [r \in Registrations |-> "idle"]
    /\ noted = [r \in Registrations |-> 0]
    /\ stage = [h \in Callers |-> "idle"]
    /\ at = [h \in Callers |-> 0]
    /\ spent = {} /\ lastConsume = [r \in Registrations |-> 0]
    /\ granted = {} /\ lastAllow = [r \in Registrations |-> 0]

Tick ==
    /\ clock < MaxTime
    /\ clock' = clock + 1
    /\ UNCHANGED <<maps, registration, spending, granting, authorization>>

-------------------------------------------------------------------------------
(* Register                                                                *)

Proceed(r, from, to) ==
    /\ register[r] = from
    /\ register' = [register EXCEPT ![r] = to]

BeginRegister(r) ==
    /\ Proceed(r, "idle", "policy")
    /\ noted' = [noted EXCEPT ![r] = clock]
    /\ UNCHANGED <<clock, maps, spending, granting, authorization>>

RegisterPolicy(r) ==
    /\ Proceed(r, "policy", "find budget")
    /\ policy' = {r}
    /\ UNCHANGED <<clock, budget, limiter, noted, spending, granting, authorization>>

(* A budget or limiter that is found is kept, whatever the policy says.    *)
FindBudget(r) ==
    /\ Proceed(r, "find budget", IF Installed(budget) THEN "find limiter" ELSE "make budget")
    /\ noted' = IF Installed(budget) THEN [noted EXCEPT ![r] = 0] ELSE noted
    /\ UNCHANGED <<clock, maps, spending, granting, authorization>>

RegisterBudget(r) ==
    /\ Proceed(r, "make budget", "find limiter")
    /\ budgets' = [budgets EXCEPT ![r] = NewBudget(Policy[r], noted[r])]
    /\ budget' = {r}
    /\ noted' = [noted EXCEPT ![r] = 0]
    /\ UNCHANGED <<clock, policy, limiter, spent, lastConsume, granting, authorization>>

FindLimiter(r) ==
    /\ Proceed(r, "find limiter", IF Installed(limiter) THEN "done" ELSE "make limiter")
    /\ UNCHANGED <<clock, maps, noted, spending, granting, authorization>>

RegisterLimiter(r) ==
    /\ Proceed(r, "make limiter", "done")
    /\ limiters' = [limiters EXCEPT ![r] = NewRateLimiter(Policy[r])]
    /\ limiter' = {r}
    /\ UNCHANGED <<clock, policy, budget, noted, spending, granted, lastAllow, authorization>>

Register(r) ==
    \/ BeginRegister(r)
    \/ RegisterPolicy(r)
    \/ FindBudget(r)
    \/ RegisterBudget(r)
    \/ FindLimiter(r)
    \/ RegisterLimiter(r)

-------------------------------------------------------------------------------
(* Authorize                                                               *)

Goto(h, place) == stage' = [stage EXCEPT ![h] = place]

(* A request to a tenant without a policy, or an exempt one, is let        *)
(* through and leaves no trace: it makes no step.                          *)
ReadPolicy(h) ==
    /\ stage[h] = "idle"
    /\ \E r \in policy : ~ Policy[r].exempt
    /\ Goto(h, "clock")
    /\ UNCHANGED <<clock, maps, registration, spending, granting, at>>

ReadClock(h) ==
    /\ stage[h] = "clock"
    /\ at' = [at EXCEPT ![h] = clock]
    /\ Goto(h, "consume")
    /\ UNCHANGED <<clock, maps, registration, spending, granting>>

Answer(h) == Goto(h, "idle") /\ at' = [at EXCEPT ![h] = 0]

(* A budget or limiter that no Register has installed yet is a nil         *)
(* pointer, and the request ends in a panic.                               *)
NilPointer(h) ==
    /\ \/ stage[h] = "consume" /\ ~ Installed(budget)
       \/ stage[h] = "allow" /\ ~ Installed(limiter)
    /\ Answer(h)
    /\ UNCHANGED <<clock, maps, registration, spending, granting>>

(* History: the next request r's budget or limiter lets through at a time, *)
(* with a number among those of that time.  It is late if one of a later   *)
(* time was asked about before it.                                         *)
NextPass(requests, r, time, last) ==
    [by |-> r, at |-> time, late |-> time < last,
     nth |-> Cardinality({g \in requests : g.at = time}) + 1]

Later(last, r, time) == [last EXCEPT ![r] = IF @ < time THEN time ELSE @]

(* Fault: a period ends an instant early, and the next lasts an instant.    *)
FaultCurrentEarly(b, time) ==
    IF time + 1 < b.resetAt THEN b ELSE [b EXCEPT !.used = 0, !.resetAt = time + 1]

(* The budget as Consume sees it at a time: a new period if its own ended. *)
Current(b, time) ==
    IF time < b.resetAt THEN b ELSE [b EXCEPT !.used = 0, !.resetAt = time + Window]

Consume(h) ==
    /\ stage[h] = "consume"
    /\ \E r \in budget :
          LET b == Current(budgets[r], at[h]) IN
          /\ IF b.used >= b.limit
             THEN /\ budgets' = [budgets EXCEPT ![r] = b]
                  /\ Answer(h)
                  /\ UNCHANGED spent
             ELSE /\ budgets' = [budgets EXCEPT ![r] = [b EXCEPT !.used = @ + 1]]
                  /\ Goto(h, "allow") /\ UNCHANGED at
                  /\ spent' = spent \union {NextPass(spent, r, at[h], lastConsume[r])}
          /\ lastConsume' = Later(lastConsume, r, at[h])
    /\ UNCHANGED <<clock, maps, registration, granting>>

(* Fault: the cutoff is an instant late.                                    *)
FaultKeptTooFew(entries, time) == {g \in entries : g.at + Window > time + 1}

(* The entries Allow keeps: those after the cutoff.                        *)
Kept(entries, time) == {g \in entries : g.at + Window > time}

(* What a limiter remembers of a request is its time.                      *)
Allow(h) ==
    /\ stage[h] = "allow"
    /\ \E r \in limiter :
          LET kept == Kept(limiters[r].entries, at[h])
              grant == NextPass(granted, r, at[h], lastAllow[r])
          IN
          /\ IF Cardinality(kept) >= limiters[r].limit
             THEN /\ limiters' = [limiters EXCEPT ![r].entries = kept]
                  /\ UNCHANGED granted
             ELSE /\ limiters' = [limiters EXCEPT ![r].entries = kept \union {grant}]
                  /\ granted' = granted \union {grant}
          /\ lastAllow' = Later(lastAllow, r, at[h])
    /\ Answer(h)
    /\ UNCHANGED <<clock, maps, registration, spending>>

Authorize(h) == ReadPolicy(h) \/ ReadClock(h) \/ NilPointer(h) \/ Consume(h) \/ Allow(h)

QuotaNext ==
    \/ Tick
    \/ \E r \in Registrations : Register(r)
    \/ \E h \in Callers : Authorize(h)

QuotaSpec == QuotaInit /\ [][QuotaNext]_quotaVars

-------------------------------------------------------------------------------
(* Properties                                                              *)

Passes == [by : Registrations, at : Times, late : BOOLEAN, nth : Nat \ {0}]
Budgets == [limit : Nat, used : Nat, resetAt : Nat]
Limiters == [limit : Nat, entries : SUBSET granted]

AtMostOne(map) == \A x, y \in map : x = y

QuotaTypeOK ==
    /\ clock \in Times
    /\ policy \subseteq Registrations /\ AtMostOne(policy)
    /\ budget \subseteq Registrations /\ AtMostOne(budget)
    /\ limiter \subseteq Registrations /\ AtMostOne(limiter)
    /\ budgets \in [Registrations -> Budgets]
    /\ \A r \in Registrations : budgets[r].used <= budgets[r].limit
    /\ limiters \in [Registrations -> Limiters]
    /\ \A r \in Registrations : Cardinality(limiters[r].entries) <= limiters[r].limit
    /\ register \in [Registrations -> {"idle", "policy", "find budget", "make budget",
                                       "find limiter", "make limiter", "done"}]
    /\ noted \in [Registrations -> Times]
    /\ stage \in [Callers -> {"idle", "clock", "consume", "allow"}]
    /\ at \in [Callers -> Times]
    /\ spent \subseteq Passes /\ granted \subseteq Passes
    /\ lastConsume \in [Registrations -> Times]
    /\ lastAllow \in [Registrations -> Times]

(* The requests r's budget or limiter let through in the window that ends  *)
(* at a time, without the late ones.                                       *)
InWindow(requests, r, time) ==
    {g \in requests : g.by = r /\ ~ g.late /\ g.at <= time /\ g.at + Window > time}

(* rate_limit.go line 9, "a sliding-window request limiter": in no window  *)
(* does a limiter grant more requests than its limit, but for those that   *)
(* reach it after one of a later time, however many goroutines overtake    *)
(* each other between the clock and the lock, and whatever is registered   *)
(* in the meantime.                                                        *)
WindowWithinLimit ==
    /\ QuotaTypeOK
    /\ \A r \in Registrations : \A time \in Times :
          Cardinality(InWindow(granted, r, time)) <= limiters[r].limit

(* A budget is per fixed period, so a stretch as long as a period can meet *)
(* two of them: but for late requests a budget never lets through more     *)
(* than twice its limit in it, however requests, periods and idle times    *)
(* fall, and also when its first period began after the times of some of   *)
(* the requests.                                                           *)
TwoPeriodsAtMost ==
    \A r \in Registrations : \A time \in Times :
        Cardinality(InWindow(spent, r, time)) <= 2 * budgets[r].limit

===============================================================================
