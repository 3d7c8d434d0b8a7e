------------------------------ MODULE RateLimit ------------------------------
(***************************************************************************)
(* RateLimitMiddleware of app/middleware/rate_limit.py: one Redis sorted   *)
(* set of time stamps per key.  A request takes its stamp, and later its   *)
(* pipeline (a MULTI) is executed; requests of several processes           *)
(* interleave between the two.  The key names the client by context        *)
(* variables that other middlewares set.                                   *)
(***************************************************************************)
EXTENDS Integers, FiniteSets, Sequences

CONSTANTS Requests,
          Path,       \* Path[r]
          Client,     \* Client[r]: what get_client_ip returns for the request
          Rules,      \* RATE_LIMIT_RULES: <<[paths, limit]>>
          Window,     \* window_sec, the same for all rules
          MaxDelay,   \* bound: time from the stamp to the pipeline's execution
          MaxClock    \* bound: time

ASSUME LimiterAssumption ==
    /\ DOMAIN Rules \subseteq Nat
    /\ \A i \in DOMAIN Rules : Rules[i].limit \in Nat
    /\ Window \in Nat \ {0} /\ MaxDelay \in 0..Window /\ MaxClock \in Nat

VARIABLES clock,
          zset,       \* zset[k]: the sorted set of key k
          ttl,        \* ttl[k]: when the key expires
          stamp,      \* stamp[r]: time.time() of the request
          passage     \* passage[r]: how the request fared

limiter == <<clock, zset, ttl, stamp, passage>>

Matches(r) == {i \in DOMAIN Rules : Path[r] \in Rules[i].paths}

\* for pattern ... break: only the first rule that matches is looked at
Rule(r) == CHOOSE i \in Matches(r) : \A j \in Matches(r) : i <= j

\* Outermost first: add_middleware puts each one around those added before.
Stack == <<"cors", "auth_context", "rate_limit", "operation_audit", "access_log",
           "security_headers", "trace">>

Outside(a, b) == \E i, j \in DOMAIN Stack : i < j /\ Stack[i] = a /\ Stack[j] = b

\* client_ip_ctx.get() or "unknown": TraceMiddleware sets the variable for what
\* runs inside it and resets it afterwards.
ClientIp(r) == IF Outside("trace", "rate_limit") THEN Client[r] ELSE "unknown"

\* AuthContextMiddleware has just cleared the account, so the "mix" rule uses
\* the address, too.  The rest of a key is the rule's pattern.
Key(r) == <<ClientIp(r), Rule(r)>>
Keys == {Key(r) : r \in {q \in Requests : Matches(q) # {}}}

LimiterInit ==
    /\ clock = 0
    /\ zset = [k \in Keys |-> {}]
    /\ ttl = [k \in Keys |-> 0]
    /\ stamp = [r \in Requests |-> 0]
    /\ passage = [r \in Requests |-> "new"]

\* now = time.time()
TakeStamp(r) ==
    /\ passage[r] = "new" /\ Matches(r) # {}
    /\ stamp' = [stamp EXCEPT ![r] = clock]
    /\ passage' = [passage EXCEPT ![r] = "stamped"]
    /\ UNCHANGED <<clock, zset, ttl>>

MutantNoWindow(r) ==
    LET k == Key(r)
        live == IF clock >= ttl[k] THEN {} ELSE zset[k]
        kept == {s \in live \cup {stamp[r]} : s >= stamp[r]} IN
    /\ passage[r] = "stamped"
    /\ zset' = [zset EXCEPT ![k] = kept]
    /\ ttl' = [ttl EXCEPT ![k] = clock + Window]
    /\ passage' = [passage EXCEPT ![r] =
                      IF Cardinality(kept) > Rules[Rule(r)].limit THEN "rejected" ELSE "admitted"]
    /\ UNCHANGED <<clock, stamp>>

\* zadd, zremrangebyscore (both ends included), zcard, expire; a rejected
\* request is counted, too.  An expired key is an empty set.
Execute(r) ==
    LET k == Key(r)
        live == IF clock >= ttl[k] THEN {} ELSE zset[k]
        kept == {s \in live \cup {stamp[r]} : s > stamp[r] - Window} IN
    /\ passage[r] = "stamped"
    /\ zset' = [zset EXCEPT ![k] = kept]
    /\ ttl' = [ttl EXCEPT ![k] = clock + Window]
    /\ passage' = [passage EXCEPT ![r] =
                      IF Cardinality(kept) > Rules[Rule(r)].limit THEN "rejected" ELSE "admitted"]
    /\ UNCHANGED <<clock, stamp>>

\* no Redis client, no rule, or an exception: the request goes on
LetThrough(r) ==
    /\ passage[r] \in {"new", "stamped"}
    /\ passage' = [passage EXCEPT ![r] = "unchecked"]
    /\ UNCHANGED <<clock, zset, ttl, stamp>>

\* external: time; a pipeline is executed within MaxDelay of its stamp
Tick ==
    /\ clock < MaxClock
    /\ \A r \in Requests : passage[r] = "stamped" => clock - stamp[r] < MaxDelay
    /\ clock' = clock + 1
    /\ UNCHANGED <<zset, ttl, stamp, passage>>

LimiterStep(r) == TakeStamp(r) \/ Execute(r) \/ LetThrough(r)

\* Stamps of the requests admitted under a key in the window that ends at x.
AdmittedStamps(k, x) ==
    {stamp[r] : r \in {q \in Requests : /\ passage[q] = "admitted" /\ Key(q) = k
                                        /\ stamp[q] <= x
                                        /\ stamp[q] > x - (Window - MaxDelay)}}

\* In every window, shorter than the configured one only by the time a request
\* may be under way, a key admits requests of at most limit distinct time
\* stamps, although stamps are taken before they are counted, arrive out of
\* order, trim each other's windows, and the key expires on its own.
SlidingWindow ==
    \A k \in Keys, x \in 0..clock : Cardinality(AdmittedStamps(k, x)) <= Rules[k[2]].limit

\* Requests of r's client that were counted under r's rule.
SameClient(r) ==
    {q \in Requests : /\ Client[q] = Client[r] /\ Matches(q) # {} /\ Rule(q) = Rule(r)
                      /\ passage[q] \in {"admitted", "rejected"}}

\* "sliding-window per IP": a request is refused only if its own client sent
\* more than limit requests under the rule.
LimitedPerClient ==
    \A r \in Requests :
        passage[r] = "rejected" => Cardinality(SameClient(r)) > Rules[Rule(r)].limit
=============================================================================
