---------------------------- MODULE RateLimiter ----------------------------
(***************************************************************************)
(* RateLimiter (backend/platform/security/rate_limiter.py): a token bucket *)
(* for each identifier.  is_allowed() reads the time before it takes the   *)
(* lock, so that a bucket may be brought up to date with a time before its *)
(* last update.  Tokens are counted in parts: a request costs Cost of      *)
(* them, and a unit of time brings Refill.                                 *)
(***************************************************************************)
EXTENDS Integers

CONSTANTS Requests,     \* requests to come, each in its own thread
          Identifiers,
          RateLimit,    \* rate_limit
          Cost, Refill,
          MaxClock,     \* bound: times go from 0 to MaxClock
          NoBucket

ASSUME LimiterAssumption ==
    /\ RateLimit \in Nat \ {0} /\ Cost \in Nat \ {0} /\ Refill \in Nat
    /\ MaxClock \in Nat
    /\ NoBucket \notin [tokens : Int, last : 0..MaxClock]

VARIABLES clock,        \* time.time()
          bucket,       \* _buckets
          request,      \* what each request is about: its identifier and its time
          window,       \* history: a window of time to count admissions in
          admitted      \* history: admissions whose time lies in the window

limiterVars == <<clock, bucket, request, window, admitted>>

Times == 0..MaxClock
Least(a, b) == IF a < b THEN a ELSE b

LimiterTypeOK ==
    /\ clock \in Times
    /\ bucket \in [Identifiers -> [tokens : Int, last : Times] \cup {NoBucket}]
    /\ request \in [Requests -> [at : {"new", "over"}] \cup
                                [at : {"timed"}, for : Identifiers, now : Times]]
    /\ window \in [from : Times, to : Times] /\ window.from <= window.to
    /\ admitted \in [Identifiers -> Nat]

LimiterInit ==
    /\ clock = 0
    /\ bucket = [i \in Identifiers |-> NoBucket]
    /\ request = [r \in Requests |-> [at |-> "new"]]
    /\ window \in {w \in [from : Times, to : Times] : w.from <= w.to}
    /\ admitted = [i \in Identifiers |-> 0]

Tick ==
    /\ clock < MaxClock
    /\ clock' = clock + 1
    /\ UNCHANGED <<bucket, request, window, admitted>>

\* is_allowed: now = time.time()
ReadTime(r) ==
    /\ request[r].at = "new"
    /\ \E i \in Identifiers :
          request' = [request EXCEPT ![r] = [at |-> "timed", for |-> i, now |-> clock]]
    /\ UNCHANGED <<clock, bucket, window, admitted>>

\* Faulty variant: no tokens are taken back when the time is before the last update.
RefilledForwards(i, now) ==
    LET elapsed == IF now > bucket[i].last THEN now - bucket[i].last ELSE 0 IN
    Least(RateLimit * Cost, bucket[i].tokens + elapsed * Refill)

\* The tokens of a bucket brought up to date, or back to an earlier date.
Refilled(i, now) == Least(RateLimit * Cost, bucket[i].tokens + (now - bucket[i].last) * Refill)

InWindow(now) == window.from <= now /\ now <= window.to

\* The request is over; n more are counted if its time is in the window.
Answer(r, n) ==
    /\ request' = [request EXCEPT ![r] = [at |-> "over"]]
    /\ admitted' = IF InWindow(request[r].now)
                   THEN [admitted EXCEPT ![request[r].for] = @ + n]
                   ELSE admitted
    /\ UNCHANGED <<clock, window>>

Store(i, tokens, now) == bucket' = [bucket EXCEPT ![i] = [tokens |-> tokens, last |-> now]]

\* is_allowed under the lock: the first request of an identifier
AdmitFirst(r) ==
    /\ request[r].at = "timed"
    /\ bucket[request[r].for] = NoBucket
    /\ Store(request[r].for, (RateLimit - 1) * Cost, request[r].now)
    /\ Answer(r, 1)

\* is_allowed under the lock: there is a token
Admit(r) ==
    /\ request[r].at = "timed"
    /\ bucket[request[r].for] # NoBucket
    /\ LET tokens == Refilled(request[r].for, request[r].now) IN
       /\ tokens >= Cost
       /\ Store(request[r].for, tokens - Cost, request[r].now)
    /\ Answer(r, 1)

\* is_allowed under the lock: there is none
Reject(r) ==
    /\ request[r].at = "timed"
    /\ bucket[request[r].for] # NoBucket
    /\ LET tokens == Refilled(request[r].for, request[r].now) IN
       /\ tokens < Cost
       /\ Store(request[r].for, tokens, request[r].now)
    /\ Answer(r, 0)

LimiterNext == Tick \/ \E r \in Requests : ReadTime(r) \/ AdmitFirst(r) \/ Admit(r) \/ Reject(r)

LimiterSpec == LimiterInit /\ [][LimiterNext]_limiterVars

---------------------------------------------------------------------------
\* In no window of time is an identifier admitted more often than a full
\* bucket and the refill of the window allow, although requests are served
\* in another order than their times and buckets go back in time.
WindowIsBounded ==
    \A i \in Identifiers :
        admitted[i] * Cost <= RateLimit * Cost + (window.to - window.from) * Refill
=============================================================================
