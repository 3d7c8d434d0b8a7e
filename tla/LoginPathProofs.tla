--------------------------- MODULE LoginPathProofs ---------------------------
(***************************************************************************)
(* Proofs about LoginPath, for any requests, clients, rules, window, delay *)
(* and clock.  The limiter and the secrets share no variable, so each has  *)
(* an inductive invariant of its own.                                      *)
(***************************************************************************)
EXTENDS LoginPath, FiniteSetTheorems, WellFoundedInduction, NaturalsInduction, TLAPS

(***************************************************************************)
(* The secrets.                                                            *)
(***************************************************************************)
Steps == {"idle", "get", "delete", "passed", "failed"}

SecretsType ==
    /\ alive \subseteq Secrets
    /\ step \in [Users -> Steps]
    /\ using \in [Users -> Secrets \cup {None}]
    /\ raw \in [Users -> BOOLEAN]
    /\ used \in [Secrets -> SUBSET Users]
    /\ burnt \subseteq Secrets
    /\ late \in [Users -> SUBSET Secrets]

\* nobody finds a secret that was deleted
BurntIsGone == alive \cap burnt = {}

\* who is about to use what was found asked for it in time
FoundInTime ==
    \A u \in Users : step[u] = "delete" /\ raw[u] => using[u] \notin late[u]

\* a handler goes through the secrets once, the captcha first
InTurn ==
    \A u \in Users :
        /\ step[u] \in {"get", "delete", "passed"} => using[u] \in Secrets
        /\ step[u] = "idle" => \A s \in Secrets : u \notin used[s]
        /\ using[u] = "captcha" => u \notin used["password_key"]
        /\ late[u] \subseteq burnt

SecretsInv == SecretsType /\ BurntIsGone /\ FoundInTime /\ InTurn /\ OneUse

\* A handler that starts with a secret has not used it before.
LEMMA BeginInv ==
    ASSUME SecretsInv, NEW u \in Users, NEW s \in Secrets, Begin(u, s),
           u \notin used[s], s = "captcha" => u \notin used["password_key"]
    PROVE  SecretsInv'
<1>1. SecretsType'
  BY DEF SecretsInv, SecretsType, Begin, Steps, Secrets
<1>2. BurntIsGone'
  BY DEF SecretsInv, BurntIsGone, Begin
<1>3. FoundInTime'
  BY DEF SecretsInv, SecretsType, FoundInTime, Begin, Steps
<1>4. InTurn'
  BY DEF SecretsInv, SecretsType, InTurn, Begin, Steps, Secrets
<1>5. OneUse'
  BY DEF SecretsInv, SecretsType, OneUse, Begin, Steps
<1>6. QED
  BY <1>1, <1>2, <1>3, <1>4, <1>5 DEF SecretsInv

\* redis.get finds only what nobody has deleted.
LEMMA GetSecretInv ==
    ASSUME SecretsInv, NEW u \in Users, GetSecret(u)
    PROVE  SecretsInv'
<1>1. using[u] \in Secrets
  BY DEF SecretsInv, InTurn, GetSecret
<1>2. SecretsType'
  BY DEF SecretsInv, SecretsType, GetSecret, Steps
<1>3. BurntIsGone'
  BY DEF SecretsInv, BurntIsGone, GetSecret
<1>4. FoundInTime'
  BY <1>1 DEF SecretsInv, SecretsType, BurntIsGone, InTurn, FoundInTime, GetSecret, Steps
<1>5. InTurn'
  BY <1>1 DEF SecretsInv, SecretsType, InTurn, GetSecret, Steps
<1>6. OneUse'
  BY DEF SecretsInv, OneUse, GetSecret
<1>7. QED
  BY <1>2, <1>3, <1>4, <1>5, <1>6 DEF SecretsInv

\* redis.delete uses the secret up, whatever was found and typed.
LEMMA DeleteSecretInv ==
    ASSUME SecretsInv, NEW u \in Users, NEW right \in BOOLEAN, DeleteSecret(u, right)
    PROVE  SecretsInv'
<1>1. using[u] \in Secrets
  BY DEF SecretsInv, InTurn, DeleteSecret
<1>2. SecretsType'
  BY <1>1 DEF SecretsInv, SecretsType, DeleteSecret, Steps
<1>3. BurntIsGone'
  BY <1>1 DEF SecretsInv, SecretsType, BurntIsGone, DeleteSecret
<1>4. FoundInTime'
  BY DEF SecretsInv, SecretsType, FoundInTime, DeleteSecret, Steps
<1>5. InTurn'
  BY <1>1 DEF SecretsInv, SecretsType, InTurn, DeleteSecret, Steps, Secrets
<1>6. OneUse'
  BY <1>1 DEF SecretsInv, SecretsType, FoundInTime, OneUse, DeleteSecret
<1>7. QED
  BY <1>2, <1>3, <1>4, <1>5, <1>6 DEF SecretsInv

\* The TTL only takes secrets away.
LEMMA ExpireSecretInv ==
    ASSUME SecretsInv, NEW s \in Secrets, ExpireSecret(s)
    PROVE  SecretsInv'
BY DEF SecretsInv, SecretsType, BurntIsGone, FoundInTime, InTurn, OneUse, ExpireSecret

LEMMA SecretsInductive == SecretsInv /\ [Next]_vars => SecretsInv'
<1> SUFFICES ASSUME SecretsInv, [Next]_vars PROVE SecretsInv'
  OBVIOUS
<1>1. CASE UNCHANGED secrets
  BY <1>1 DEF SecretsInv, SecretsType, BurntIsGone, FoundInTime, InTurn, OneUse, secrets
<1>2. ASSUME NEW u \in Users, Enter(u) PROVE SecretsInv'
  <2>1. \A s \in Secrets : u \notin used[s]
    BY <1>2 DEF Enter, SecretsInv, InTurn
  <2>2. QED
    BY <1>2, <2>1, BeginInv DEF Enter, Secrets
<1>3. ASSUME NEW u \in Users, GoOn(u) PROVE SecretsInv'
  BY <1>3, BeginInv DEF GoOn, Secrets, SecretsInv, InTurn
<1>4. ASSUME NEW u \in Users, Login(u) PROVE SecretsInv'
  BY <1>2, <1>3, <1>4, GetSecretInv, DeleteSecretInv DEF Login
<1>5. QED
  BY <1>1, <1>4, ExpireSecretInv DEF Next, vars, secrets

\* A captcha or password key serves only requests that asked for it before
\* anyone had finished with it (verify_captcha, decrypt_passwords), however
\* many handlers overlap.
THEOREM SecretsUsedOnce == Spec => []OneUse
<1>1. Init => SecretsInv
  BY DEF Init, SecretsInit, SecretsInv, SecretsType, BurntIsGone, FoundInTime, InTurn,
         OneUse, Steps, Secrets
<1>2. SecretsInv => OneUse
  BY DEF SecretsInv
<1>3. QED
  BY <1>1, <1>2, SecretsInductive, PTL DEF Spec

(***************************************************************************)
(* The limiter.                                                            *)
(***************************************************************************)
Counted(r) == Matches(r) # {} /\ passage[r] \in {"admitted", "rejected"}

LimiterType ==
    /\ clock \in Nat
    /\ zset \in [Keys -> SUBSET Nat]
    /\ ttl \in [Keys -> Nat]
    /\ stamp \in [Requests -> Nat]
    /\ passage \in [Requests -> {"new", "stamped", "admitted", "rejected", "unchecked"}]

\* a request is counted within MaxDelay of its stamp
Timely ==
    \A r \in Requests :
        /\ passage[r] \in {"stamped", "admitted", "rejected"} => Matches(r) # {}
        /\ passage[r] \in {"stamped", "admitted", "rejected"} => stamp[r] <= clock
        /\ passage[r] = "stamped" => clock <= stamp[r] + MaxDelay

\* the sorted sets hold no stamp of the future
NoFuture == \A k \in Keys : \A s \in zset[k] : s <= clock

\* a counted stamp stays in the sorted set, and the key alive, for a window
Remembered ==
    \A r \in Requests : Counted(r) =>
        /\ stamp[r] + Window <= ttl[Key(r)]
        /\ stamp[r] > clock - Window => stamp[r] \in zset[Key(r)]

LimiterInv == LimiterType /\ Timely /\ NoFuture /\ Remembered /\ SlidingWindow

\* A request that matches a rule matches a first one.
LEMMA RuleExists ==
    ASSUME NEW r \in Requests, Matches(r) # {}
    PROVE  Rule(r) \in Matches(r)
<1>1. Matches(r) \in SUBSET Nat
  BY LimiterAssumption DEF Matches
<1>2. \E i \in Matches(r) : \A j \in Matches(r) : ~(<<j, i>> \in OpToRel(<, Nat))
  BY <1>1, NatLessThanWellFounded, WFMin
<1>3. PICK i \in Matches(r) : \A j \in Matches(r) : ~(<<j, i>> \in OpToRel(<, Nat))
  BY <1>2
<1>4. \A j \in Matches(r) : i <= j
  <2>1. ASSUME NEW j \in Matches(r) PROVE i <= j
    <3>1. i \in Nat /\ j \in Nat
      BY <1>1
    <3>2. ~(j < i)
      BY <1>3, <3>1 DEF OpToRel
    <3>3. QED
      BY <3>1, <3>2
  <2>2. QED
    BY <2>1
<1>5. QED
  BY <1>4 DEF Rule

\* The limit of a key is the limit of a rule, a number.
LEMMA KeyLimit ==
    /\ \A k \in Keys : Rules[k[2]].limit \in Nat
    /\ \A r \in Requests : Matches(r) # {} => Key(r) \in Keys /\ Key(r)[2] = Rule(r)
<1>1. ASSUME NEW r \in Requests, Matches(r) # {}
      PROVE  Key(r)[2] = Rule(r) /\ Rules[Rule(r)].limit \in Nat
  <2>1. Rule(r) \in DOMAIN Rules
    BY <1>1, RuleExists DEF Matches
  <2>2. Rules[Rule(r)].limit \in Nat
    BY <2>1, LimiterAssumption
  <2>3. QED
    BY <2>2 DEF Key
<1>2. QED
  BY <1>1 DEF Keys

\* A set of stamps that the clock bounds is finite.
LEMMA StampsFinite ==
    ASSUME NEW S \in SUBSET Nat, NEW n \in Nat, \A s \in S : s <= n
    PROVE  IsFiniteSet(S) /\ Cardinality(S) \in Nat
BY FS_BoundedSetOfNaturals, FS_CardinalityType

\* Fewer stamps are not more.
LEMMA FewerStamps ==
    ASSUME NEW S, NEW T \in SUBSET S, IsFiniteSet(S), NEW n \in Nat, Cardinality(S) <= n
    PROVE  Cardinality(T) <= n
<1>1. IsFiniteSet(T) /\ Cardinality(T) <= Cardinality(S)
  BY FS_Subset
<1>2. Cardinality(T) \in Nat /\ Cardinality(S) \in Nat
  BY <1>1, FS_CardinalityType
<1>3. QED
  BY <1>1, <1>2

\* What the window of a key holds is finite.
LEMMA AdmittedFinite ==
    ASSUME LimiterType, NEW k, NEW x \in Nat
    PROVE  AdmittedStamps(k, x) \in SUBSET Nat /\ IsFiniteSet(AdmittedStamps(k, x))
<1>1. AdmittedStamps(k, x) \in SUBSET Nat /\ \A s \in AdmittedStamps(k, x) : s <= x
  BY DEF LimiterType, AdmittedStamps
<1>2. QED
  BY <1>1, StampsFinite

LEMMA TakeStampInv ==
    ASSUME LimiterInv, NEW r \in Requests, TakeStamp(r)
    PROVE  LimiterInv'
<1>1. LimiterType'
  BY DEF LimiterInv, LimiterType, TakeStamp
<1>2. Timely'
  BY LimiterAssumption DEF LimiterInv, LimiterType, Timely, TakeStamp, Matches
<1>3. NoFuture'
  BY DEF LimiterInv, NoFuture, TakeStamp
<1>4. Remembered'
  BY DEF LimiterInv, LimiterType, Remembered, Counted, TakeStamp, Key, Matches, Rule, ClientIp
<1>5. SlidingWindow'
  <2>1. ASSUME NEW k \in Keys, NEW x \in 0..clock
        PROVE  AdmittedStamps(k, x)' = AdmittedStamps(k, x)
    BY DEF LimiterInv, LimiterType, TakeStamp, AdmittedStamps, Key, Rule, Matches, ClientIp
  <2>2. QED
    BY <2>1 DEF LimiterInv, SlidingWindow, TakeStamp
<1>6. QED
  BY <1>1, <1>2, <1>3, <1>4, <1>5 DEF LimiterInv

LEMMA LetThroughInv ==
    ASSUME LimiterInv, NEW r \in Requests, LetThrough(r)
    PROVE  LimiterInv'
<1>1. LimiterType'
  BY DEF LimiterInv, LimiterType, LetThrough
<1>2. Timely'
  BY DEF LimiterInv, LimiterType, Timely, LetThrough, Matches
<1>3. NoFuture'
  BY DEF LimiterInv, NoFuture, LetThrough
<1>4. Remembered'
  BY DEF LimiterInv, LimiterType, Remembered, Counted, LetThrough, Key, Matches, Rule, ClientIp
<1>5. SlidingWindow'
  <2>1. ASSUME NEW k \in Keys, NEW x \in 0..clock
        PROVE  AdmittedStamps(k, x)' = AdmittedStamps(k, x)
    BY DEF LimiterInv, LimiterType, LetThrough, AdmittedStamps, Key, Rule, Matches, ClientIp
  <2>2. QED
    BY <2>1 DEF LimiterInv, SlidingWindow, LetThrough
<1>6. QED
  BY <1>1, <1>2, <1>3, <1>4, <1>5 DEF LimiterInv

\* At a later instant the window has not more in it than it had.
LEMMA TickInv ==
    ASSUME LimiterInv, Tick
    PROVE  LimiterInv'
<1>0. clock \in Nat /\ clock' = clock + 1 /\ Window \in Nat /\ MaxDelay \in Nat
  BY LimiterAssumption DEF LimiterInv, LimiterType, Tick
<1>1. LimiterType'
  BY DEF LimiterInv, LimiterType, Tick
<1>2. Timely'
  BY <1>0 DEF LimiterInv, LimiterType, Timely, Tick, Matches
<1>3. NoFuture'
  BY <1>0 DEF LimiterInv, LimiterType, NoFuture, Tick
<1>4. Remembered'
  BY <1>0 DEF LimiterInv, LimiterType, Remembered, Counted, Tick, Key, Matches, Rule, ClientIp
<1>5. SlidingWindow'
  <2> SUFFICES ASSUME NEW k \in Keys, NEW x \in 0..(clock + 1)
               PROVE  Cardinality(AdmittedStamps(k, x)') <= Rules[k[2]].limit
    BY <1>0 DEF SlidingWindow, Tick
  <2>1. AdmittedStamps(k, x)' = AdmittedStamps(k, x)
    BY DEF Tick, AdmittedStamps, Key, Rule, Matches, ClientIp
  <2>2. CASE x \in 0..clock
    BY <2>1, <2>2 DEF LimiterInv, SlidingWindow
  <2>3. CASE x = clock + 1
    <3>1. AdmittedStamps(k, x) \subseteq AdmittedStamps(k, clock)
      BY <2>3, <1>0, LimiterAssumption DEF LimiterInv, LimiterType, Timely, AdmittedStamps
    <3>2. Cardinality(AdmittedStamps(k, clock)) <= Rules[k[2]].limit
      BY <1>0 DEF LimiterInv, SlidingWindow
    <3>3. IsFiniteSet(AdmittedStamps(k, clock))
      BY <1>0, AdmittedFinite DEF LimiterInv
    <3>4. QED
      BY <2>1, <3>1, <3>2, <3>3, KeyLimit, FewerStamps
  <2>4. QED
    BY <1>0, <2>2, <2>3
<1>6. QED
  BY <1>1, <1>2, <1>3, <1>4, <1>5 DEF LimiterInv

\* The pipeline.  Whatever the request shares a window with is still in the
\* sorted set: nobody's stamp was old enough to trim it, and the key has not
\* expired.  So zcard saw all of it.
LEMMA ExecuteInv ==
    ASSUME LimiterInv, NEW r \in Requests, Execute(r)
    PROVE  LimiterInv'
<1> DEFINE k == Key(r)
           live == IF clock >= ttl[k] THEN {} ELSE zset[k]
           kept == {s \in live \cup {stamp[r]} : s > stamp[r] - Window}
<1>0. /\ clock \in Nat /\ Window \in Nat /\ MaxDelay \in Nat
      /\ stamp[r] \in Nat /\ stamp[r] <= clock /\ clock <= stamp[r] + MaxDelay
      /\ MaxDelay <= Window /\ Window > 0
      /\ Matches(r) # {} /\ k \in Keys
  BY LimiterAssumption, KeyLimit DEF LimiterInv, LimiterType, Timely, Execute
<1>1. /\ passage[r] = "stamped"
      /\ zset' = [zset EXCEPT ![k] = kept]
      /\ ttl' = [ttl EXCEPT ![k] = clock + Window]
      /\ passage' = [passage EXCEPT ![r] =
             IF Cardinality(kept) > Rules[Rule(r)].limit THEN "rejected" ELSE "admitted"]
      /\ UNCHANGED <<clock, stamp>>
  BY DEF Execute
<1>2. kept \in SUBSET Nat /\ \A s \in kept : s <= clock
  BY <1>0 DEF LimiterInv, LimiterType, NoFuture
<1>3. IsFiniteSet(kept) /\ Cardinality(kept) \in Nat
  BY <1>0, <1>2, StampsFinite
<1>4. \A q \in Requests : Key(q)' = Key(q) /\ Matches(q)' = Matches(q)
  BY DEF Key, Matches, Rule, ClientIp
<1> HIDE DEF k, live, kept
<1>5. LimiterType'
  BY <1>0, <1>1, <1>2 DEF LimiterInv, LimiterType
<1>6. Timely'
  BY <1>0, <1>1, <1>4 DEF LimiterInv, LimiterType, Timely
<1>7. NoFuture'
  BY <1>0, <1>1, <1>2 DEF LimiterInv, LimiterType, NoFuture
<1>8. ASSUME NEW q \in Requests, Counted(q), Key(q) = k, stamp[q] > clock - Window
      PROVE  stamp[q] \in kept
  <2>1. stamp[q] \in Nat /\ ttl[k] \in Nat
    BY <1>0 DEF LimiterInv, LimiterType
  <2>2. stamp[q] \in zset[k] /\ stamp[q] + Window <= ttl[k]
    BY <1>8 DEF LimiterInv, Remembered
  <2>3. ~(clock >= ttl[k])
    BY <1>0, <1>8, <2>1, <2>2
  <2>4. stamp[q] > stamp[r] - Window
    BY <1>0, <1>8, <2>1
  <2>5. QED
    BY <2>2, <2>3, <2>4 DEF kept, live
<1>9. Remembered'
  <2> SUFFICES ASSUME NEW q \in Requests, Counted(q)'
               PROVE  /\ stamp[q] + Window <= ttl'[Key(q)]
                      /\ stamp[q] > clock - Window => stamp[q] \in zset'[Key(q)]
    BY <1>1, <1>4 DEF Remembered
  <2>1. Key(q) \in Keys /\ stamp[q] \in Nat /\ stamp[q] <= clock
    BY <1>1, <1>4, <1>5, <1>6, KeyLimit DEF Counted, LimiterType, Timely
  <2>2. CASE q = r
    <3>1. stamp[r] \in kept
      BY <1>0 DEF kept
    <3>2. QED
      BY <1>0, <1>1, <2>1, <2>2, <3>1 DEF LimiterInv, LimiterType, k
  <2>3. CASE q # r
    <3>1. Counted(q)
      BY <1>1, <1>4, <2>3 DEF Counted, LimiterInv, LimiterType
    <3>2. stamp[q] + Window <= ttl[Key(q)] /\
          (stamp[q] > clock - Window => stamp[q] \in zset[Key(q)])
      BY <3>1 DEF LimiterInv, Remembered
    <3>3. CASE Key(q) # k
      BY <1>1, <2>1, <3>2, <3>3 DEF LimiterInv, LimiterType
    <3>4. CASE Key(q) = k
      BY <1>0, <1>1, <1>8, <2>1, <3>1, <3>4 DEF LimiterInv, LimiterType
    <3>5. QED
      BY <3>3, <3>4
  <2>4. QED
    BY <2>2, <2>3
<1>10. SlidingWindow'
  <2> SUFFICES ASSUME NEW j \in Keys, NEW x \in 0..clock
               PROVE  Cardinality(AdmittedStamps(j, x)') <= Rules[j[2]].limit
    BY <1>1 DEF SlidingWindow
  <2>0. Rules[j[2]].limit \in Nat /\ x \in Nat
    BY <1>0, KeyLimit
  <2>1. CASE j = k /\ passage'[r] = "admitted" /\ stamp[r] <= x /\ stamp[r] > x - (Window - MaxDelay)
    <3>1. AdmittedStamps(j, x)' \subseteq kept
      <4> SUFFICES ASSUME NEW q \in Requests, passage'[q] = "admitted", Key(q) = j,
                          stamp[q] <= x, stamp[q] > x - (Window - MaxDelay)
                   PROVE  stamp[q] \in kept
        BY <1>1, <1>4 DEF AdmittedStamps
      <4>1. CASE q = r
        BY <1>0, <4>1 DEF kept
      <4>2. CASE q # r
        <5>1. Counted(q)
          BY <1>1, <4>2 DEF Counted, LimiterInv, LimiterType, Timely
        <5>2. stamp[q] > clock - Window
          BY <1>0, <2>0, <2>1 DEF LimiterInv, LimiterType
        <5>3. QED
          BY <1>8, <2>1, <5>1, <5>2
      <4>3. QED
        BY <4>1, <4>2
    <3>2. ~(Cardinality(kept) > Rules[Rule(r)].limit)
      BY <1>1, <2>1 DEF LimiterInv, LimiterType
    <3>3. Rules[j[2]].limit = Rules[Rule(r)].limit
      BY <1>0, <2>1, KeyLimit DEF k
    <3>4. Cardinality(kept) <= Rules[j[2]].limit
      BY <1>3, <2>0, <3>2, <3>3
    <3>5. QED
      BY <1>3, <2>0, <3>1, <3>4, FewerStamps
  <2>2. CASE ~(j = k /\ passage'[r] = "admitted" /\ stamp[r] <= x /\ stamp[r] > x - (Window - MaxDelay))
    <3>1. AdmittedStamps(j, x)' \subseteq AdmittedStamps(j, x)
      BY <1>1, <1>4, <2>2 DEF AdmittedStamps, LimiterInv, LimiterType, k
    <3>2. Cardinality(AdmittedStamps(j, x)) <= Rules[j[2]].limit
      BY DEF LimiterInv, SlidingWindow
    <3>3. IsFiniteSet(AdmittedStamps(j, x))
      BY <2>0, AdmittedFinite DEF LimiterInv
    <3>4. QED
      BY <2>0, <3>1, <3>2, <3>3, FewerStamps
  <2>3. QED
    BY <2>1, <2>2
<1>11. QED
  BY <1>5, <1>6, <1>7, <1>9, <1>10 DEF LimiterInv

LEMMA LimiterInitInv == Init => LimiterInv
<1> SUFFICES ASSUME Init PROVE LimiterInv
  OBVIOUS
<1>1. LimiterType
  BY DEF Init, LimiterInit, LimiterType
<1>2. Timely /\ NoFuture /\ Remembered
  BY DEF Init, LimiterInit, Timely, NoFuture, Remembered, Counted
<1>3. SlidingWindow
  <2>1. ASSUME NEW k \in Keys, NEW x \in 0..clock PROVE AdmittedStamps(k, x) = {}
    BY DEF Init, LimiterInit, AdmittedStamps
  <2>2. QED
    BY <2>1, KeyLimit, FS_EmptySet DEF SlidingWindow
<1>4. QED
  BY <1>1, <1>2, <1>3 DEF LimiterInv

LEMMA LimiterInductive == LimiterInv /\ [Next]_vars => LimiterInv'
<1> SUFFICES ASSUME LimiterInv, [Next]_vars PROVE LimiterInv'
  OBVIOUS
<1>1. CASE UNCHANGED limiter
  <2>1. LimiterType' /\ Timely' /\ NoFuture' /\ Remembered'
    BY <1>1 DEF LimiterInv, LimiterType, Timely, NoFuture, Remembered, Counted, limiter,
                Key, Matches, Rule, ClientIp
  <2>2. ASSUME NEW k \in Keys, NEW x \in 0..clock
        PROVE  AdmittedStamps(k, x)' = AdmittedStamps(k, x)
    BY <1>1 DEF limiter, AdmittedStamps, Key, Rule, Matches, ClientIp
  <2>3. SlidingWindow'
    BY <1>1, <2>2 DEF limiter, LimiterInv, SlidingWindow
  <2>4. QED
    BY <2>1, <2>3 DEF LimiterInv
<1>2. QED
  BY <1>1, TickInv, TakeStampInv, ExecuteInv, LetThroughInv DEF Next, vars, limiter, LimiterStep

\* RateLimitMiddleware: in every window, shorter than the configured one only
\* by the time a request may be under way, a key admits requests of at most
\* limit distinct stamps, for any number of requests, processes and keys.
THEOREM WindowRespected == Spec => []SlidingWindow
<1>1. LimiterInv => SlidingWindow
  BY DEF LimiterInv
<1>2. QED
  BY <1>1, LimiterInitInv, LimiterInductive, PTL DEF Spec
=============================================================================
