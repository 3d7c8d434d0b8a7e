------------------------- MODULE SessionStoreProofs -------------------------
(***************************************************************************)
(* Proofs about SessionStore, for any number of handlers in flight, of     *)
(* logins, of allowed sessions and of permission changes.                  *)
(***************************************************************************)
EXTENDS SessionStore, FiniteSetTheorems, WellFoundedInduction, NaturalsInduction, TLAPS

\* most handlers are about a token; a payload is rebuilt from one that was read
Sound(c) ==
    /\ c.op \in {"login", "delete", "touch"} => c.tok # 0
    /\ c.op = "refresh" /\ c.pc = "factory" => \A t \in c.todo : c.has[t] # None

TypeInv ==
    /\ store \in [Tokens -> Payloads \cup {None}]
    /\ account \subseteq Tokens /\ all \subseteq Tokens
    /\ call \in [Procs -> Calls \cup {None}]
    /\ logins \in 0..MaxLogins /\ perms \in Nat /\ refresh_due \in BOOLEAN
    /\ opened \subseteq Tokens /\ revoked \subseteq Tokens /\ raced \subseteq Tokens
    /\ \A p \in Procs : call[p] # None => Sound(call[p])

Login(p, pcs) == call[p] # None /\ call[p].op = "login" /\ call[p].pc \in pcs

\* a handler that will write back what it has read
Writer(p) == call[p] # None /\ call[p].op \in {"touch", "refresh"}

(***************************************************************************)
(* The inductive invariants.                                               *)
(***************************************************************************)
\* tokens that have reached Redis: nothing else is known by then
Seen(t) == t \in 1..logins /\ \A p \in Procs : Login(p, {"setex"}) => call[p].tok # t

SeenBy(p) ==
    /\ \A t \in call[p].todo \cup call[p].known : Seen(t)
    /\ Writer(p) => \A t \in Tokens : call[p].has[t] # None => Seen(t)
    /\ ~Login(p, {"setex"}) /\ call[p].tok # 0 => Seen(call[p].tok)

SeenInv ==
    /\ \A t \in account \cup opened \cup revoked : Seen(t)
    /\ \A t \in Tokens : store[t] # None => Seen(t)
    /\ \A p \in Procs : call[p] # None => SeenBy(p)

\* two logins never have one token, and it is open when it is fully indexed
Entering == {"setex", "sadd", "sadd_all"}
Pending == Entering \cup {"prune"}

EnterInv ==
    /\ \A p \in Procs : Login(p, Pending) => call[p].tok \in 1..logins
    /\ \A p, q \in Procs :
          Login(p, Pending) /\ Login(q, Pending) /\ call[p].tok = call[q].tok => p = q
    /\ \A p \in Procs : Login(p, Entering) => call[p].tok \notin opened

\* what a writer has read is what Redis holds, unless it has been marked stale
Fresh(p) ==
    \A t \in Tokens : call[p].has[t] # None /\ t \notin call[p].stale =>
        /\ store[t] # None
        /\ call[p].has[t].idle = store[t].idle
        /\ call[p].op = "touch" => call[p].has[t].perms = store[t].perms

FreshInv ==
    /\ \A p \in Procs : Writer(p) => Fresh(p)
    /\ \A p \in Procs : At(p, {"touch"}, "get") => \A t \in Tokens : call[p].has[t] = None

\* an account-wide delete misses no session but a raced one, and an index
\* entry is removed only after its session
DeadInv ==
    /\ RevokedStaysDead
    /\ \A p \in Procs : At(p, {"delete_account"}, "da_del") =>
          \A t \in call[p].known \ call[p].todo : store[t] # None => t \in raced
    /\ \A p \in Procs :
          call[p] # None /\ call[p].pc \in {"d_srem", "d_srem_account"} => call[p].tok \in revoked

\* a session is in its account's index, or its login is about to put it there
IndexInv ==
    \A t \in Tokens \ raced : store[t] # None =>
        t \in account \/ \E p \in Procs : Login(p, {"sadd"}) /\ call[p].tok = t

\* refresh p will still write t, or is bound to race
Covers(p, t) ==
    /\ call[p] # None /\ call[p].op = "refresh"
    /\ \/ call[p].pc = "mget" /\ t \in call[p].todo
       \/ /\ call[p].pc = "factory" /\ call[p].has[t] # None
          /\ t \in call[p].stale \cup call[p].todo \/ call[p].has[t].perms = perms

Covered(t) == refresh_due \/ \E p \in Procs : Covers(p, t)

PermInv ==
    /\ \A t \in Tokens \ raced : store[t] # None => store[t].perms = perms \/ Covered(t)
    /\ \A p \in Procs : At(p, {"refresh"}, "factory") =>
          \A t \in Tokens \ (raced \cup call[p].stale \cup call[p].todo) :
              call[p].has[t] # None => call[p].has[t].perms = perms \/ Covered(t)
    /\ \A p \in Procs : Login(p, {"setex"}) =>
          \/ refresh_due \/ call[p].tok \in raced
          \/ call[p].has[call[p].tok].perms = perms

\* usable sessions whose login has begun to prune, and the ones a login is
\* about to delete
Settled == {t \in Tokens \ raced :
               Get(t) # None /\ \A p \in Procs : Login(p, Pending) => call[p].tok # t}
Dooms(p, t) ==
    \/ Login(p, {"d_get", "d_del"}) /\ (t = call[p].tok \/ t \in call[p].todo)
    \/ Login(p, {"d_srem", "d_srem_account"}) /\ t \in call[p].todo
Kept == {t \in Settled : \A p \in Procs : ~Dooms(p, t)}

\* a login that has the settled sessions in view
Watches(p) ==
    /\ Login(p, {"list"})
    /\ Settled \subseteq call[p].known
    /\ \A t \in Settled \ call[p].todo : call[p].has[t] # None

LimitInv == Cardinality(Kept) <= MaxSessions \/ \E p \in Procs : Watches(p)

(***************************************************************************)
(* What a step does to the handlers: the one that takes it, field by       *)
(* field, and the others, which at most learn that they are out of date.   *)
(***************************************************************************)
Same(q) ==
    /\ call'[q] = None <=> call[q] = None
    /\ call[q] # None =>
          /\ call'[q].op = call[q].op /\ call'[q].pc = call[q].pc /\ call'[q].tok = call[q].tok
          /\ call'[q].todo = call[q].todo /\ call'[q].has = call[q].has
          /\ call'[q].known = call[q].known /\ call[q].stale \subseteq call'[q].stale

Marked(q, T) == Writer(q) => \A t \in T : call[q].has[t] # None => t \in call'[q].stale

Others(p, T) == \A q \in Procs \ {p} : Same(q) /\ Marked(q, T)

Becomes(p, op, pc, tok, todo, has, known, stale) ==
    /\ call'[p] # None
    /\ call'[p].op = op /\ call'[p].pc = pc /\ call'[p].tok = tok /\ call'[p].todo = todo
    /\ call'[p].has = has /\ call'[p].known = known /\ call'[p].stale = stale

CallTypes == call' \in [Procs -> Calls \cup {None}]

LEMMA GoesStep ==
    ASSUME TypeInv, NEW p \in Procs, NEW c \in Calls \cup {None}, Goes(p, c)
    PROVE  CallTypes /\ Others(p, {}) /\ call'[p] = c /\ \A q \in Procs \ {p} : call'[q] = call[q]
<1>1. call' = [call EXCEPT ![p] = c]
  BY DEF Goes
<1>2. CallTypes
  BY <1>1 DEF TypeInv, CallTypes
<1>3. call'[p] = c /\ \A q \in Procs \ {p} : call'[q] = call[q]
  BY <1>1 DEF TypeInv
<1>4. QED
  BY <1>2, <1>3 DEF Others, Same, Marked

LEMMA OutdatedStep ==
    ASSUME TypeInv, NEW p, NEW T \in SUBSET Tokens, NEW q \in Procs
    PROVE  LET d == Outdated(p, T)[q] IN
           /\ d \in Calls \cup {None}
           /\ d = None <=> call[q] = None
           /\ call[q] # None =>
                 /\ d.op = call[q].op /\ d.pc = call[q].pc /\ d.tok = call[q].tok
                 /\ d.todo = call[q].todo /\ d.has = call[q].has
                 /\ d.known = call[q].known /\ call[q].stale \subseteq d.stale
           /\ q # p /\ Writer(q) => \A t \in T : call[q].has[t] # None => t \in d.stale
<1> DEFINE S == {t \in T : call[q].has[t] # None}
           d == Outdated(p, T)[q]
<1>1. call[q] \in Calls \cup {None}
  BY DEF TypeInv
<1>2. CASE q = p \/ call[q] = None
  <2>1. d = call[q]
    BY <1>2 DEF Outdated
  <2>2. QED
    BY <1>1, <1>2, <2>1 DEF Writer
<1>3. CASE q # p /\ call[q] # None /\ call[q].op \notin {"touch", "refresh"}
  <2>1. d = call[q]
    BY <1>3 DEF Outdated
  <2>2. QED
    BY <1>1, <1>3, <2>1 DEF Writer
<1>4. CASE q # p /\ call[q] # None /\ call[q].op \in {"touch", "refresh"}
  <2>1. d = [call[q] EXCEPT !.stale = @ \cup S]
    BY <1>4 DEF Outdated
  <2>2. S \subseteq Tokens /\ call[q] \in Calls
    BY <1>1, <1>4
  <2> HIDE DEF S
  <2>3. /\ d \in Calls
        /\ d.op = call[q].op /\ d.pc = call[q].pc /\ d.tok = call[q].tok
        /\ d.todo = call[q].todo /\ d.has = call[q].has
        /\ d.known = call[q].known /\ d.stale = call[q].stale \cup S
    BY <2>1, <2>2 DEF Calls
  <2>4. d # None
    BY <2>3, NoneAssumption
  <2>5. QED
    BY <1>4, <2>3, <2>4 DEF S
<1>5. QED
  BY <1>2, <1>3, <1>4

LEMMA WritingStep ==
    ASSUME TypeInv, NEW p \in Procs, NEW T \in SUBSET Tokens, NEW c \in Calls \cup {None},
           GoesWriting(p, T, c)
    PROVE  CallTypes /\ Others(p, T) /\ call'[p] = c
<1>1. call' = [Outdated(p, T) EXCEPT ![p] = c]
  BY DEF GoesWriting
<1>2. DOMAIN Outdated(p, T) = Procs /\ Outdated(p, T) = [q \in Procs |-> Outdated(p, T)[q]]
  BY DEF Outdated
<1>3. \A q \in Procs : Outdated(p, T)[q] \in Calls \cup {None}
  BY OutdatedStep
<1>4. call'[p] = c /\ \A q \in Procs \ {p} : call'[q] = Outdated(p, T)[q]
  BY <1>1, <1>2
<1>5. CallTypes
  BY <1>1, <1>2, <1>3 DEF CallTypes
<1>6. ASSUME NEW q \in Procs \ {p} PROVE Same(q) /\ Marked(q, T)
  BY <1>4, OutdatedStep DEF Same, Marked
<1>7. QED
  BY <1>4, <1>5, <1>6 DEF Others

\* Nobody's step: a session expires or falls idle.
LEMMA NobodyStep ==
    ASSUME TypeInv, NEW T \in SUBSET Tokens, call' = Outdated(None, T)
    PROVE  CallTypes /\ Others(None, T) /\ \A q \in Procs : Same(q) /\ Marked(q, T)
<1>1. None \notin Procs
  BY NoneAssumption
<1>2. DOMAIN Outdated(None, T) = Procs /\ Outdated(None, T) = [q \in Procs |-> Outdated(None, T)[q]]
  BY DEF Outdated
<1>3. CallTypes
  BY <1>2, OutdatedStep DEF CallTypes
<1>4. ASSUME NEW q \in Procs PROVE Same(q) /\ Marked(q, T)
  BY <1>1, OutdatedStep DEF Same, Marked
<1>5. QED
  BY <1>3, <1>4 DEF Others

\* Parts of a handler's record that change together.
LEMMA PcUpdate ==
    ASSUME NEW c \in Calls, NEW pc \in Awaits, NEW k, k = [c EXCEPT !.pc = pc]
    PROVE  /\ k \in Calls /\ k # None
           /\ k.op = c.op /\ k.pc = pc /\ k.tok = c.tok /\ k.todo = c.todo /\ k.has = c.has
           /\ k.known = c.known /\ k.stale = c.stale
BY NoneAssumption DEF Calls

LEMMA NewCall ==
    ASSUME NEW op \in Handlers, NEW pc \in Awaits, NEW tok \in 0..MaxLogins, NEW k, k = Call(op, pc, tok)
    PROVE  /\ k \in Calls /\ k # None
           /\ k.op = op /\ k.pc = pc /\ k.tok = tok /\ k.todo = {} /\ k.has = NoPayloads
           /\ k.known = {} /\ k.stale = {}
BY NoneAssumption DEF Calls, Call, NoPayloads

\* Min of the library is a minimum of any set of tokens.
LEMMA MinToken ==
    ASSUME NEW S \in SUBSET Tokens, S # {}
    PROVE  Min(S) \in S /\ \A t \in S : Min(S) <= t
<1>1. S \subseteq Nat
  BY SessionAssumption DEF Tokens
<1>W. \E m \in S : \A t \in S : ~(<<t, m>> \in OpToRel(<, Nat))
  BY <1>1, NatLessThanWellFounded, WFMin
<1>2. PICK m \in S : \A t \in S : ~(<<t, m>> \in OpToRel(<, Nat))
  BY <1>W
<1>3. ASSUME NEW t \in S PROVE m <= t
  <2>1. m \in Nat /\ t \in Nat
    BY <1>1
  <2>2. ~(t < m)
    BY <1>2, <2>1 DEF OpToRel
  <2>3. QED
    BY <2>1, <2>2
<1>4. QED
  BY <1>3 DEF Min

LEMMA RestUpdate ==
    ASSUME NEW c \in Calls, NEW rest \in SUBSET Tokens, NEW k, k = DeleteRest(c, rest)
    PROVE  \/ rest = {} /\ k = None
           \/ /\ rest # {} /\ k \in Calls /\ k # None
              /\ k.op = c.op /\ k.pc = "d_get" /\ k.tok = Min(rest) /\ k.todo = rest \ {Min(rest)}
              /\ k.has = c.has /\ k.known = c.known /\ k.stale = c.stale
<1>1. CASE rest = {}
  BY <1>1 DEF DeleteRest
<1>2. CASE rest # {}
  <2>1. k = [c EXCEPT !.pc = "d_get", !.tok = Min(rest), !.todo = rest \ {Min(rest)}]
    BY <1>2 DEF DeleteRest
  <2>2. Min(rest) \in rest
    BY <1>2, MinToken, Zenon
  <2>M. Min(rest) \in 0..MaxLogins /\ rest \ {Min(rest)} \in SUBSET Tokens
    <3>1. Min(rest) \in Tokens
      BY <2>2
    <3>2. Min(rest) \in 0..MaxLogins
      BY <3>1, SessionAssumption DEF Tokens
    <3>3. QED
      BY <3>2
  <2>3. k \in Calls /\ k.op = c.op /\ k.pc = "d_get" /\ k.tok = Min(rest)
        /\ k.todo = rest \ {Min(rest)} /\ k.has = c.has /\ k.known = c.known /\ k.stale = c.stale
    BY <2>1, <2>M DEF Calls, Awaits
  <2>4. QED
    BY <1>2, <2>3, NoneAssumption
<1>3. QED
  BY <1>1, <1>2

\* A handler in flight, and where it is.
LEMMA InFlight ==
    ASSUME TypeInv, NEW p \in Procs, NEW ops, NEW pc, At(p, ops, pc)
    PROVE  /\ call[p] \in Calls /\ call[p] # None /\ call[p].op \in ops /\ call[p].pc = pc
           /\ call[p].tok \in 0..MaxLogins /\ call[p].todo \subseteq Tokens
           /\ call[p].known \subseteq Tokens /\ call[p].stale \subseteq Tokens
           /\ call[p].has \in [Tokens -> Payloads \cup {None}]
           /\ call[p].op \in {"login", "delete", "touch"} => call[p].tok \in Tokens
<1>1. call[p] \in Calls /\ call[p] # None /\ call[p].op \in ops /\ call[p].pc = pc
  BY DEF TypeInv, At
<1>2. /\ call[p].tok \in 0..MaxLogins /\ call[p].todo \subseteq Tokens
      /\ call[p].known \subseteq Tokens /\ call[p].stale \subseteq Tokens
      /\ call[p].has \in [Tokens -> Payloads \cup {None}]
  BY <1>1 DEF Calls
<1>3. call[p].op \in {"login", "delete", "touch"} => call[p].tok # 0
  BY <1>1 DEF TypeInv, Sound
<1>4. QED
  BY <1>1, <1>2, <1>3, SessionAssumption DEF Tokens

\* What get returns.
LEMMA GetType ==
    ASSUME TypeInv, NEW t \in Tokens
    PROVE  /\ Get(t) \in Payloads \cup {None}
           /\ Get(t) # None <=> store[t] # None /\ store[t].idle = FALSE
           /\ store[t] \in Payloads \cup {None}
<1>1. store[t] \in Payloads \cup {None}
  BY DEF TypeInv
<1>2. store[t] # None => store[t].idle \in BOOLEAN
  BY <1>1 DEF Payloads
<1>3. CASE store[t] = None
  BY <1>1, <1>3 DEF Get
<1>4. CASE store[t] # None /\ store[t].idle = TRUE
  BY <1>1, <1>4 DEF Get, IdleTimeout
<1>5. CASE store[t] # None /\ store[t].idle = FALSE
  BY <1>1, <1>5 DEF Get, IdleTimeout
<1>6. QED
  BY <1>2, <1>3, <1>4, <1>5

(***************************************************************************)
(* The steps of each handler.                                              *)
(***************************************************************************)
LEMMA BeginLoginStep ==
    ASSUME TypeInv, NEW p \in Procs, BeginLogin(p)
    PROVE  /\ CallTypes /\ Others(p, {}) /\ call[p] = None
           /\ logins + 1 \in Tokens /\ logins' = logins + 1
           /\ \E has : /\ Becomes(p, "login", "setex", logins + 1, {}, has, {}, {})
                       /\ has \in [Tokens -> Payloads \cup {None}]
                       /\ has[logins + 1] = Payload(perms)
<1> DEFINE c == Call("login", "setex", logins + 1)
           k == [c EXCEPT !.has[logins + 1] = Payload(perms)]
           has == [c.has EXCEPT ![logins + 1] = Payload(perms)]
<1>1. logins + 1 \in Tokens /\ logins + 1 \in 0..MaxLogins
  BY SessionAssumption DEF BeginLogin, Tokens, TypeInv
<1>2. /\ c \in Calls /\ c.op = "login" /\ c.pc = "setex" /\ c.tok = logins + 1 /\ c.todo = {}
      /\ c.has = NoPayloads /\ c.known = {} /\ c.stale = {}
  BY <1>1, NewCall DEF Handlers, Awaits
<1>3. Payload(perms) \in Payloads
  BY DEF Payload, Payloads, TypeInv
<1>4. NoPayloads \in [Tokens -> Payloads \cup {None}]
  BY DEF NoPayloads
<1>5. has \in [Tokens -> Payloads \cup {None}] /\ has[logins + 1] = Payload(perms)
  BY <1>1, <1>2, <1>3, <1>4
<1>6. k = [c EXCEPT !.has = has]
  OBVIOUS
<1> HIDE DEF c, has
<1>7. /\ k \in Calls /\ k.op = "login" /\ k.pc = "setex" /\ k.tok = logins + 1 /\ k.todo = {}
      /\ k.has = has /\ k.known = {} /\ k.stale = {}
  BY <1>2, <1>5, <1>6 DEF Calls
<1>8. Goes(p, k) /\ call[p] = None /\ logins' = logins + 1
  BY DEF BeginLogin, Free, c
<1> HIDE DEF k
<1>9. CallTypes /\ Others(p, {}) /\ call'[p] = k
  BY <1>7, <1>8, GoesStep
<1>10. k # None
  BY <1>7, NoneAssumption
<1>11. QED
  BY <1>1, <1>5, <1>7, <1>8, <1>9, <1>10 DEF Becomes

\* A step of p that only moves it on, from one await to the next.
LEMMA MoveStep ==
    ASSUME TypeInv, NEW p \in Procs, NEW ops, NEW from, NEW pc \in Awaits, At(p, ops, from),
           Goes(p, [call[p] EXCEPT !.pc = pc])
    PROVE  /\ CallTypes /\ Others(p, {})
           /\ Becomes(p, call[p].op, pc, call[p].tok, call[p].todo, call[p].has, call[p].known, call[p].stale)
<1> DEFINE k == [call[p] EXCEPT !.pc = pc]
<1>1. call[p] \in Calls
  BY InFlight
<1>2. /\ k \in Calls /\ k # None
      /\ k.op = call[p].op /\ k.pc = pc /\ k.tok = call[p].tok /\ k.todo = call[p].todo
      /\ k.has = call[p].has /\ k.known = call[p].known /\ k.stale = call[p].stale
  BY <1>1, PcUpdate
<1>3. Goes(p, k)
  OBVIOUS
<1> HIDE DEF k
<1>4. CallTypes /\ Others(p, {}) /\ call'[p] = k
  BY <1>2, <1>3, GoesStep
<1>5. QED
  BY <1>2, <1>4 DEF Becomes

LEMMA WriteMoveStep ==
    ASSUME TypeInv, NEW p \in Procs, NEW ops, NEW from, NEW pc \in Awaits, At(p, ops, from),
           NEW T \in SUBSET Tokens, GoesWriting(p, T, [call[p] EXCEPT !.pc = pc])
    PROVE  /\ CallTypes /\ Others(p, T)
           /\ Becomes(p, call[p].op, pc, call[p].tok, call[p].todo, call[p].has, call[p].known, call[p].stale)
<1> DEFINE k == [call[p] EXCEPT !.pc = pc]
<1>1. call[p] \in Calls
  BY InFlight
<1>2. /\ k \in Calls /\ k # None
      /\ k.op = call[p].op /\ k.pc = pc /\ k.tok = call[p].tok /\ k.todo = call[p].todo
      /\ k.has = call[p].has /\ k.known = call[p].known /\ k.stale = call[p].stale
  BY <1>1, PcUpdate
<1>3. GoesWriting(p, T, k)
  OBVIOUS
<1> HIDE DEF k
<1>4. CallTypes /\ Others(p, T) /\ call'[p] = k
  BY <1>2, <1>3, WritingStep
<1>5. QED
  BY <1>2, <1>4 DEF Becomes

LEMMA SAddAllStep ==
    ASSUME TypeInv, NEW p \in Procs, SAddAll(p)
    PROVE  /\ CallTypes /\ Others(p, {})
           /\ Becomes(p, call[p].op, "prune", call[p].tok, call[p].todo, NoPayloads, call[p].known, call[p].stale)
<1> DEFINE k == [call[p] EXCEPT !.pc = "prune", !.has = NoPayloads]
<1>1. call[p] \in Calls
  BY InFlight DEF SAddAll
<1>2. NoPayloads \in [Tokens -> Payloads \cup {None}]
  BY DEF NoPayloads
<1>3. /\ k \in Calls
      /\ k.op = call[p].op /\ k.pc = "prune" /\ k.tok = call[p].tok /\ k.todo = call[p].todo
      /\ k.has = NoPayloads /\ k.known = call[p].known /\ k.stale = call[p].stale
  BY <1>1, <1>2 DEF Calls, Awaits
<1>4. Goes(p, k)
  BY DEF SAddAll
<1> HIDE DEF k
<1>5. CallTypes /\ Others(p, {}) /\ call'[p] = k
  BY <1>3, <1>4, GoesStep
<1>6. QED
  BY <1>3, <1>5, NoneAssumption DEF Becomes

LEMMA BeginStep ==
    ASSUME TypeInv, NEW p \in Procs, NEW op \in Handlers, NEW pc \in Awaits, NEW tok \in 0..MaxLogins,
           Goes(p, Call(op, pc, tok))
    PROVE  CallTypes /\ Others(p, {}) /\ Becomes(p, op, pc, tok, {}, NoPayloads, {}, {})
<1> DEFINE k == Call(op, pc, tok)
<1>1. /\ k \in Calls /\ k # None
      /\ k.op = op /\ k.pc = pc /\ k.tok = tok /\ k.todo = {} /\ k.has = NoPayloads
      /\ k.known = {} /\ k.stale = {}
  BY NewCall
<1>2. Goes(p, k)
  OBVIOUS
<1> HIDE DEF k
<1>3. CallTypes /\ Others(p, {}) /\ call'[p] = k
  BY <1>1, <1>2, GoesStep
<1>4. QED
  BY <1>1, <1>3 DEF Becomes

LEMMA DeleteGetStep ==
    ASSUME TypeInv, NEW p \in Procs, DeleteGet(p)
    PROVE  /\ CallTypes /\ Others(p, {})
           /\ \E has :
                 /\ Becomes(p, call[p].op, "d_del", call[p].tok, call[p].todo, has, call[p].known, call[p].stale)
                 /\ \A t \in Tokens : has[t] # None => call[p].has[t] # None \/ t = call[p].tok
<1> DEFINE k == [call[p] EXCEPT !.pc = "d_del", !.has[call[p].tok] = Get(call[p].tok)]
           has == [call[p].has EXCEPT ![call[p].tok] = Get(call[p].tok)]
<1>1. /\ call[p] \in Calls /\ call[p].tok \in Tokens
      /\ call[p].has \in [Tokens -> Payloads \cup {None}]
  BY InFlight DEF DeleteGet
<1>2. Get(call[p].tok) \in Payloads \cup {None}
  BY <1>1, GetType
<1>3. /\ has \in [Tokens -> Payloads \cup {None}]
      /\ \A t \in Tokens : has[t] # None => call[p].has[t] # None \/ t = call[p].tok
  BY <1>1, <1>2
<1>4. k = [call[p] EXCEPT !.pc = "d_del", !.has = has]
  OBVIOUS
<1>5. Goes(p, k)
  BY DEF DeleteGet
<1> HIDE DEF has
<1>6. /\ k \in Calls
      /\ k.op = call[p].op /\ k.pc = "d_del" /\ k.tok = call[p].tok /\ k.todo = call[p].todo
      /\ k.has = has /\ k.known = call[p].known /\ k.stale = call[p].stale
  BY <1>1, <1>3, <1>4 DEF Calls, Awaits
<1> HIDE DEF k
<1>7. CallTypes /\ Others(p, {}) /\ call'[p] = k
  BY <1>5, <1>6, GoesStep
<1>8. QED
  BY <1>3, <1>6, <1>7, NoneAssumption DEF Becomes

\* The handler ends, or goes on to delete the rest.
Ends(p, op, rest, has, known, stale) ==
    \/ rest = {} /\ call'[p] = None
    \/ rest # {} /\ Becomes(p, op, "d_get", Min(rest), rest \ {Min(rest)}, has, known, stale)

LEMMA RestStep ==
    ASSUME TypeInv, NEW p \in Procs, NEW c \in Calls, NEW rest \in SUBSET Tokens,
           Goes(p, DeleteRest(c, rest))
    PROVE  CallTypes /\ Others(p, {}) /\ Ends(p, c.op, rest, c.has, c.known, c.stale)
<1> DEFINE k == DeleteRest(c, rest)
<1>1. \/ rest = {} /\ k = None
      \/ /\ rest # {} /\ k \in Calls /\ k # None
         /\ k.op = c.op /\ k.pc = "d_get" /\ k.tok = Min(rest) /\ k.todo = rest \ {Min(rest)}
         /\ k.has = c.has /\ k.known = c.known /\ k.stale = c.stale
  BY RestUpdate
<1>2. Goes(p, k)
  OBVIOUS
<1> HIDE DEF k
<1>3. CallTypes /\ Others(p, {}) /\ call'[p] = k
  BY <1>1, <1>2, GoesStep
<1>4. QED
  BY <1>1, <1>3 DEF Ends, Becomes

LEMMA PruneReadStep ==
    ASSUME TypeInv, NEW p \in Procs, PruneRead(p)
    PROVE  /\ CallTypes /\ Others(p, {})
           /\ Becomes(p, call[p].op, "list", call[p].tok, account, call[p].has, account, call[p].stale)
<1> DEFINE k == [call[p] EXCEPT !.pc = "list", !.todo = account, !.known = account]
<1>1. call[p] \in Calls /\ account \subseteq Tokens
  BY InFlight DEF PruneRead, TypeInv
<1>2. /\ k \in Calls
      /\ k.op = call[p].op /\ k.pc = "list" /\ k.tok = call[p].tok /\ k.todo = account
      /\ k.has = call[p].has /\ k.known = account /\ k.stale = call[p].stale
  BY <1>1 DEF Calls, Awaits
<1>3. Goes(p, k)
  BY DEF PruneRead, AccountTokens
<1> HIDE DEF k
<1>4. CallTypes /\ Others(p, {}) /\ call'[p] = k
  BY <1>2, <1>3, GoesStep
<1>5. QED
  BY <1>2, <1>4, NoneAssumption DEF Becomes

LEMMA ListGetStep ==
    ASSUME TypeInv, NEW p \in Procs, ListGet(p)
    PROVE  /\ CallTypes /\ Others(p, {})
           /\ \E t \in call[p].todo : \E has :
                 /\ Becomes(p, call[p].op, "list", call[p].tok, call[p].todo \ {t}, has, call[p].known, call[p].stale)
                 /\ has[t] = Get(t) /\ \A u \in Tokens \ {t} : has[u] = call[p].has[u]
<1>1. /\ call[p] \in Calls /\ call[p].todo \subseteq Tokens /\ call[p].pc = "list"
      /\ call[p].has \in [Tokens -> Payloads \cup {None}]
  BY InFlight DEF ListGet
<1>2. PICK t \in call[p].todo : Goes(p, [call[p] EXCEPT !.todo = @ \ {t}, !.has[t] = Get(t)])
  BY DEF ListGet
<1> DEFINE k == [call[p] EXCEPT !.todo = @ \ {t}, !.has[t] = Get(t)]
           has == [call[p].has EXCEPT ![t] = Get(t)]
<1>3. t \in Tokens /\ Get(t) \in Payloads \cup {None}
  BY <1>1, GetType
<1>4. /\ has \in [Tokens -> Payloads \cup {None}]
      /\ has[t] = Get(t) /\ \A u \in Tokens \ {t} : has[u] = call[p].has[u]
  BY <1>1, <1>3
<1>5. k = [call[p] EXCEPT !.todo = @ \ {t}, !.has = has]
  OBVIOUS
<1>6. Goes(p, k)
  BY <1>2
<1> HIDE DEF has
<1>7. /\ k \in Calls
      /\ k.op = call[p].op /\ k.pc = "list" /\ k.tok = call[p].tok /\ k.todo = call[p].todo \ {t}
      /\ k.has = has /\ k.known = call[p].known /\ k.stale = call[p].stale
  BY <1>1, <1>4, <1>5 DEF Calls
<1> HIDE DEF k
<1>8. CallTypes /\ Others(p, {}) /\ call'[p] = k
  BY <1>6, <1>7, GoesStep
<1>9. Becomes(p, call[p].op, "list", call[p].tok, call[p].todo \ {t}, has, call[p].known, call[p].stale)
  BY <1>7, <1>8, NoneAssumption DEF Becomes
<1>10. QED
  BY <1>4, <1>8, <1>9

Found(p) == {t \in call[p].known : call[p].has[t] # None}

LEMMA ListEndStep ==
    ASSUME TypeInv, NEW p \in Procs, ListEnd(p)
    PROVE  /\ CallTypes /\ Others(p, {})
           /\ Ends(p, "login", Excess(Found(p)), NoPayloads, {}, call[p].stale)
<1> DEFINE c == [call[p] EXCEPT !.has = NoPayloads, !.known = {}]
<1>1. call[p] \in Calls /\ call[p].op = "login" /\ call[p].known \subseteq Tokens
  BY InFlight DEF ListEnd
<1>2. NoPayloads \in [Tokens -> Payloads \cup {None}]
  BY DEF NoPayloads
<1>3. c \in Calls /\ c.op = "login" /\ c.has = NoPayloads /\ c.known = {} /\ c.stale = call[p].stale
  BY <1>1, <1>2 DEF Calls
<1>4. Excess(Found(p)) \in SUBSET Tokens
  BY <1>1 DEF Excess, Found
<1>5. Goes(p, DeleteRest(c, Excess(Found(p))))
  BY DEF ListEnd, Found
<1> HIDE DEF c
<1>6. QED
  BY <1>3, <1>4, <1>5, RestStep

LEMMA BeginDeleteAccountStep ==
    ASSUME TypeInv, NEW p \in Procs, BeginDeleteAccount(p)
    PROVE  /\ CallTypes /\ Others(p, {})
           /\ Becomes(p, "delete_account", "da_del", 0, account, NoPayloads, opened, {})
<1> DEFINE c == Call("delete_account", "da_del", 0)
           k == [c EXCEPT !.todo = account, !.known = opened]
<1>1. /\ c \in Calls /\ c.op = "delete_account" /\ c.pc = "da_del" /\ c.tok = 0 /\ c.has = NoPayloads
      /\ c.stale = {}
  BY NewCall, SessionAssumption DEF Handlers, Awaits
<1>2. account \subseteq Tokens /\ opened \subseteq Tokens
  BY DEF TypeInv
<1>3. Goes(p, k)
  BY DEF BeginDeleteAccount, AccountTokens
<1> HIDE DEF c
<1>4. /\ k \in Calls
      /\ k.op = "delete_account" /\ k.pc = "da_del" /\ k.tok = 0 /\ k.todo = account
      /\ k.has = NoPayloads /\ k.known = opened /\ k.stale = {}
  BY <1>1, <1>2 DEF Calls
<1> HIDE DEF k
<1>5. CallTypes /\ Others(p, {}) /\ call'[p] = k
  BY <1>3, <1>4, GoesStep
<1>6. QED
  BY <1>4, <1>5, NoneAssumption DEF Becomes

LEMMA BeginRefreshStep ==
    ASSUME TypeInv, NEW p \in Procs, BeginRefresh(p)
    PROVE  /\ CallTypes /\ Others(p, {}) /\ call[p] = None
           /\ \/ account = {} /\ call'[p] = None
              \/ account # {} /\ Becomes(p, "refresh", "mget", 0, account, NoPayloads, {}, {})
<1> DEFINE c == Call("refresh", "mget", 0)
           k == [c EXCEPT !.todo = account]
<1>1. /\ c \in Calls /\ c.op = "refresh" /\ c.pc = "mget" /\ c.tok = 0 /\ c.has = NoPayloads
      /\ c.known = {} /\ c.stale = {}
  BY NewCall, SessionAssumption DEF Handlers, Awaits
<1>2. account \subseteq Tokens /\ call[p] = None
  BY DEF TypeInv, BeginRefresh, Free
<1>3. Goes(p, IF account = {} THEN None ELSE k)
  BY DEF BeginRefresh, AccountTokens
<1> HIDE DEF c
<1>4. /\ k \in Calls
      /\ k.op = "refresh" /\ k.pc = "mget" /\ k.tok = 0 /\ k.todo = account
      /\ k.has = NoPayloads /\ k.known = {} /\ k.stale = {}
  BY <1>1, <1>2 DEF Calls
<1> HIDE DEF k
<1>5. CASE account = {}
  <2>1. Goes(p, None)
    BY <1>3, <1>5
  <2>2. QED
    BY <1>2, <1>5, <2>1, GoesStep
<1>6. CASE account # {}
  <2>1. Goes(p, k)
    BY <1>3, <1>6
  <2>2. CallTypes /\ Others(p, {}) /\ call'[p] = k
    BY <1>4, <2>1, GoesStep
  <2>3. QED
    BY <1>2, <1>4, <1>6, <2>2, NoneAssumption DEF Becomes
<1>7. QED
  BY <1>5, <1>6

LEMMA RefreshReadStep ==
    ASSUME TypeInv, NEW p \in Procs, RefreshRead(p)
    PROVE  LET live == {t \in call[p].todo : store[t] # None} IN
           /\ CallTypes /\ Others(p, {}) /\ live \subseteq Tokens
           /\ \/ live = {} /\ call'[p] = None
              \/ \E has :
                    /\ Becomes(p, "refresh", "factory", call[p].tok, live, has, call[p].known, call[p].stale)
                    /\ \A t \in live : has[t] = store[t]
                    /\ \A t \in Tokens \ live : has[t] = None
<1> DEFINE live == {t \in call[p].todo : store[t] # None}
           has == [t \in Tokens |-> IF t \in call[p].todo THEN store[t] ELSE None]
           k == [call[p] EXCEPT !.pc = "factory", !.todo = live, !.has = has]
<1>1. call[p] \in Calls /\ call[p].todo \subseteq Tokens /\ call[p].op = "refresh"
  BY InFlight DEF RefreshRead
<1>2. live = {t \in Tokens : has[t] # None} /\ live \subseteq Tokens
  BY <1>1
<1>3. /\ has \in [Tokens -> Payloads \cup {None}]
      /\ \A t \in live : has[t] = store[t]
      /\ \A t \in Tokens \ live : has[t] = None
  BY <1>1 DEF TypeInv
<1>4. Goes(p, IF live = {} THEN None ELSE k)
  <2>1. LET there == {t \in Tokens : has[t] # None} IN
        Goes(p, IF there = {} THEN None
                ELSE [call[p] EXCEPT !.pc = "factory", !.todo = there, !.has = has])
    BY DEF RefreshRead
  <2> HIDE DEF live, has
  <2>2. QED
    BY <1>2, <2>1
<1> HIDE DEF live, has
<1>5. /\ k \in Calls
      /\ k.op = "refresh" /\ k.pc = "factory" /\ k.tok = call[p].tok /\ k.todo = live
      /\ k.has = has /\ k.known = call[p].known /\ k.stale = call[p].stale
  BY <1>1, <1>2, <1>3 DEF Calls, Awaits
<1> HIDE DEF k
<1>6. CASE live = {}
  <2>1. Goes(p, None)
    BY <1>4, <1>6
  <2>2. CallTypes /\ Others(p, {}) /\ call'[p] = None
    BY <2>1, GoesStep
  <2>3. QED
    BY <1>2, <1>6, <2>2 DEF live
<1>7. CASE live # {}
  <2>1. Goes(p, k)
    BY <1>4, <1>7
  <2>2. CallTypes /\ Others(p, {}) /\ call'[p] = k
    BY <1>5, <2>1, GoesStep
  <2>3. Becomes(p, "refresh", "factory", call[p].tok, live, has, call[p].known, call[p].stale)
    BY <1>5, <2>2, NoneAssumption DEF Becomes
  <2>4. QED
    BY <1>2, <1>3, <2>2, <2>3 DEF live
<1>8. QED
  BY <1>6, <1>7

LEMMA FactoryStep ==
    ASSUME TypeInv, NEW p \in Procs, Factory(p)
    PROVE  /\ CallTypes /\ Others(p, {})
           /\ \E t \in call[p].todo : \E has :
                 /\ Becomes(p, "refresh", "factory", call[p].tok, call[p].todo \ {t}, has, call[p].known, call[p].stale)
                 /\ \A u \in Tokens \ {t} : has[u] = call[p].has[u]
                 /\ has[t] # None /\ has[t].perms = perms /\ has[t].idle = call[p].has[t].idle
                 /\ call[p].has[t] # None
<1>1. /\ call[p] \in Calls /\ call[p].todo \subseteq Tokens /\ call[p].op = "refresh" /\ call[p].pc = "factory"
      /\ call[p] # None /\ call[p].has \in [Tokens -> Payloads \cup {None}]
  BY InFlight DEF Factory
<1>2. PICK t \in call[p].todo : Goes(p, [call[p] EXCEPT !.todo = @ \ {t}, !.has[t].perms = perms])
  BY DEF Factory
<1> DEFINE old == call[p].has[t]
           new == [old EXCEPT !.perms = perms]
           has == [call[p].has EXCEPT ![t] = new]
           k == [call[p] EXCEPT !.todo = @ \ {t}, !.has[t].perms = perms]
<1>3. t \in Tokens /\ old # None /\ old \in Payloads
  BY <1>1, <1>2 DEF TypeInv, Sound
<1>4. new \in Payloads /\ new.perms = perms /\ new.idle = old.idle
  BY <1>3 DEF TypeInv, Payloads
<1>5. new # None
  BY <1>4, NoneAssumption
<1>6. k = [call[p] EXCEPT !.todo = @ \ {t}, !.has = has]
  OBVIOUS
<1>7. Goes(p, k)
  BY <1>2
<1> HIDE DEF new, k
<1>8. /\ has \in [Tokens -> Payloads \cup {None}]
      /\ has[t] = new /\ \A u \in Tokens \ {t} : has[u] = call[p].has[u]
  BY <1>1, <1>3, <1>4
<1> HIDE DEF has
<1>9. /\ k \in Calls
      /\ k.op = "refresh" /\ k.pc = "factory" /\ k.tok = call[p].tok /\ k.todo = call[p].todo \ {t}
      /\ k.has = has /\ k.known = call[p].known /\ k.stale = call[p].stale
  BY <1>1, <1>6, <1>8 DEF Calls
<1>10. CallTypes /\ Others(p, {}) /\ call'[p] = k
  BY <1>7, <1>9, GoesStep
<1>11. Becomes(p, "refresh", "factory", call[p].tok, call[p].todo \ {t}, has, call[p].known, call[p].stale)
  BY <1>9, <1>10, NoneAssumption DEF Becomes
<1>12. QED
  BY <1>3, <1>4, <1>5, <1>8, <1>10, <1>11

LEMMA TouchReadStep ==
    ASSUME TypeInv, NEW p \in Procs, TouchRead(p)
    PROVE  LET t == call[p].tok IN
           /\ CallTypes /\ Others(p, {})
           /\ \/ store[t] = None /\ call'[p] = None
              \/ /\ store[t] # None
                 /\ Becomes(p, "touch", "setex", t, call[p].todo, call'[p].has, call[p].known,
                            IF store[t].idle THEN {t} ELSE {})
                 /\ \A u \in Tokens \ {t} : call'[p].has[u] = call[p].has[u]
                 /\ call'[p].has[t].idle = FALSE /\ call'[p].has[t].perms = store[t].perms
<1> DEFINE t == call[p].tok
           new == [store[t] EXCEPT !.idle = FALSE]
           has == [call[p].has EXCEPT ![t] = new]
           stale == IF store[t].idle THEN {t} ELSE {}
           k == [call[p] EXCEPT !.pc = "setex", !.has[t] = [store[t] EXCEPT !.idle = FALSE],
                                !.stale = IF store[t].idle THEN {t} ELSE {}]
<1>A. At(p, {"touch"}, "get")
  BY DEF TouchRead
<1>I. /\ call[p] \in Calls /\ call[p].tok \in Tokens /\ call[p].op = "touch"
      /\ call[p].has \in [Tokens -> Payloads \cup {None}]
  BY <1>A, InFlight
<1>1. /\ call[p] \in Calls /\ t \in Tokens /\ call[p].op = "touch"
      /\ call[p].has \in [Tokens -> Payloads \cup {None}] /\ store[t] \in Payloads \cup {None}
  BY <1>I DEF TypeInv
<1>2. Goes(p, IF store[t] = None THEN None ELSE k)
  BY DEF TouchRead
<1>3. CASE store[t] = None
  <2>1. Goes(p, None)
    BY <1>2, <1>3
  <2>2. QED
    BY <1>3, <2>1, GoesStep
<1>4. CASE store[t] # None
  <2>1. Goes(p, k)
    BY <1>2, <1>4
  <2>2. new \in Payloads /\ new.idle = FALSE /\ new.perms = store[t].perms
    BY <1>1, <1>4 DEF Payloads
  <2>3. k = [call[p] EXCEPT !.pc = "setex", !.has = has, !.stale = stale]
    OBVIOUS
  <2>4. stale \subseteq Tokens
    BY <1>1
  <2> HIDE DEF new, k, stale
  <2>5. /\ has \in [Tokens -> Payloads \cup {None}]
        /\ has[t] = new /\ \A u \in Tokens \ {t} : has[u] = call[p].has[u]
    BY <1>1, <2>2
  <2> HIDE DEF has
  <2>6. /\ k \in Calls
        /\ k.op = "touch" /\ k.pc = "setex" /\ k.tok = t /\ k.todo = call[p].todo
        /\ k.has = has /\ k.known = call[p].known /\ k.stale = stale
    BY <1>1, <2>3, <2>4, <2>5 DEF Calls, Awaits
  <2>7. CallTypes /\ Others(p, {}) /\ call'[p] = k
    BY <2>1, <2>6, GoesStep
  <2>8. Becomes(p, "touch", "setex", t, call[p].todo, has, call[p].known, stale)
    BY <2>6, <2>7, NoneAssumption DEF Becomes
  <2>9. call'[p].has = has
    BY <2>8 DEF Becomes
  <2>10. QED
    BY <1>4, <2>2, <2>5, <2>7, <2>8, <2>9 DEF stale
<1>5. QED
  BY <1>3, <1>4

LEMMA SetExStep ==
    ASSUME TypeInv, NEW p \in Procs, SetEx(p)
    PROVE  /\ CallTypes /\ Others(p, {}) /\ Login(p, {"setex"}) /\ call[p].tok \in Tokens
           /\ call[p].has[call[p].tok] \in Payloads \cup {None}
           /\ Becomes(p, "login", "sadd", call[p].tok, call[p].todo, call[p].has, call[p].known, call[p].stale)
<1>1. At(p, {"login"}, "setex")
  BY DEF SetEx
<1>2. /\ call[p] # None /\ call[p].op = "login" /\ call[p].pc = "setex" /\ call[p].tok \in Tokens
      /\ call[p].has \in [Tokens -> Payloads \cup {None}]
  BY <1>1, InFlight
<1>3. /\ CallTypes /\ Others(p, {})
      /\ Becomes(p, call[p].op, "sadd", call[p].tok, call[p].todo, call[p].has, call[p].known, call[p].stale)
  BY <1>1, MoveStep DEF SetEx, Awaits
<1>4. QED
  BY <1>2, <1>3 DEF Login

LEMMA SAddAccountStep ==
    ASSUME TypeInv, NEW p \in Procs, SAddAccount(p)
    PROVE  /\ CallTypes /\ Others(p, {}) /\ Login(p, {"sadd"}) /\ call[p].tok \in Tokens
           /\ Becomes(p, "login", "sadd_all", call[p].tok, call[p].todo, call[p].has, call[p].known, call[p].stale)
<1>1. At(p, {"login"}, "sadd")
  BY DEF SAddAccount
<1>2. call[p] # None /\ call[p].op = "login" /\ call[p].pc = "sadd" /\ call[p].tok \in Tokens
  BY <1>1, InFlight
<1>3. /\ CallTypes /\ Others(p, {})
      /\ Becomes(p, call[p].op, "sadd_all", call[p].tok, call[p].todo, call[p].has, call[p].known, call[p].stale)
  BY <1>1, MoveStep DEF SAddAccount, Awaits
<1>4. QED
  BY <1>2, <1>3 DEF Login

\* A delete of one token, by a log-out or at the end of a login.
Deleting(p) == call[p] # None /\ call[p].op \in {"login", "delete"} /\ call[p].tok \in Tokens
               /\ call[p].todo \subseteq Tokens

LEMMA DeleteKeyStep ==
    ASSUME TypeInv, NEW p \in Procs, DeleteKey(p)
    PROVE  /\ CallTypes /\ Others(p, {call[p].tok}) /\ Deleting(p) /\ call[p].pc = "d_del"
           /\ Becomes(p, call[p].op, "d_srem", call[p].tok, call[p].todo, call[p].has, call[p].known, call[p].stale)
<1>1. At(p, {"login", "delete"}, "d_del")
  BY DEF DeleteKey
<1>2. /\ call[p] # None /\ call[p].op \in {"login", "delete"} /\ call[p].pc = "d_del"
      /\ call[p].tok \in Tokens /\ call[p].todo \subseteq Tokens
  BY <1>1, InFlight
<1>3. {call[p].tok} \in SUBSET Tokens
  BY <1>2
<1>4. /\ CallTypes /\ Others(p, {call[p].tok})
      /\ Becomes(p, call[p].op, "d_srem", call[p].tok, call[p].todo, call[p].has, call[p].known, call[p].stale)
  BY <1>1, <1>3, WriteMoveStep DEF DeleteKey, Awaits
<1>5. QED
  BY <1>2, <1>4 DEF Deleting

LEMMA DeleteSRemStep ==
    ASSUME TypeInv, NEW p \in Procs, DeleteSRem(p)
    PROVE  /\ CallTypes /\ Others(p, {}) /\ Deleting(p) /\ call[p].pc = "d_srem"
           /\ \/ Becomes(p, call[p].op, "d_srem_account", call[p].tok, call[p].todo, call[p].has, call[p].known, call[p].stale)
              \/ Ends(p, call[p].op, call[p].todo, call[p].has, call[p].known, call[p].stale)
<1>1. At(p, {"login", "delete"}, "d_srem")
  BY DEF DeleteSRem
<1>2. /\ call[p] # None /\ call[p].op \in {"login", "delete"} /\ call[p].pc = "d_srem"
      /\ call[p].tok \in Tokens /\ call[p].todo \subseteq Tokens /\ call[p] \in Calls
  BY <1>1, InFlight
<1>3. CASE call[p].has[call[p].tok] # None
  <2>1. Goes(p, [call[p] EXCEPT !.pc = "d_srem_account"])
    BY <1>3 DEF DeleteSRem
  <2>2. /\ CallTypes /\ Others(p, {})
        /\ Becomes(p, call[p].op, "d_srem_account", call[p].tok, call[p].todo, call[p].has, call[p].known, call[p].stale)
    BY <1>1, <2>1, MoveStep DEF Awaits
  <2>3. QED
    BY <1>2, <2>2 DEF Deleting
<1>4. CASE call[p].has[call[p].tok] = None
  <2>1. Goes(p, DeleteRest(call[p], call[p].todo))
    BY <1>4 DEF DeleteSRem
  <2>2. QED
    BY <1>2, <2>1, RestStep DEF Deleting
<1>5. QED
  BY <1>3, <1>4

LEMMA DeleteSRemAccountStep ==
    ASSUME TypeInv, NEW p \in Procs, DeleteSRemAccount(p)
    PROVE  /\ CallTypes /\ Others(p, {}) /\ Deleting(p) /\ call[p].pc = "d_srem_account"
           /\ Ends(p, call[p].op, call[p].todo, call[p].has, call[p].known, call[p].stale)
<1>1. At(p, {"login", "delete"}, "d_srem_account")
  BY DEF DeleteSRemAccount
<1>2. /\ call[p] # None /\ call[p].op \in {"login", "delete"} /\ call[p].pc = "d_srem_account"
      /\ call[p].tok \in Tokens /\ call[p].todo \subseteq Tokens /\ call[p] \in Calls
  BY <1>1, InFlight
<1>3. Goes(p, DeleteRest(call[p], call[p].todo))
  BY DEF DeleteSRemAccount
<1>4. QED
  BY <1>2, <1>3, RestStep DEF Deleting

LEMMA DeleteAccountKeysStep ==
    ASSUME TypeInv, NEW p \in Procs, DeleteAccountKeys(p)
    PROVE  /\ CallTypes /\ Others(p, call[p].todo) /\ At(p, {"delete_account"}, "da_del")
           /\ call[p].todo \subseteq Tokens /\ call[p].known \subseteq Tokens
           /\ Becomes(p, "delete_account", "da_srem", call[p].tok, call[p].todo, call[p].has, call[p].known, call[p].stale)
<1>1. At(p, {"delete_account"}, "da_del")
  BY DEF DeleteAccountKeys
<1>2. call[p].op = "delete_account" /\ call[p].todo \in SUBSET Tokens /\ call[p].known \subseteq Tokens
  BY <1>1, InFlight
<1>3. /\ CallTypes /\ Others(p, call[p].todo)
      /\ Becomes(p, call[p].op, "da_srem", call[p].tok, call[p].todo, call[p].has, call[p].known, call[p].stale)
  BY <1>1, <1>2, WriteMoveStep DEF DeleteAccountKeys, Awaits
<1>4. QED
  BY <1>1, <1>2, <1>3

LEMMA DeleteAccountSRemStep ==
    ASSUME TypeInv, NEW p \in Procs, DeleteAccountSRem(p)
    PROVE  /\ CallTypes /\ Others(p, {}) /\ At(p, {"delete_account"}, "da_srem") /\ call'[p] = None
BY GoesStep DEF DeleteAccountSRem

New(p) == {t \in Tokens : call[p].has[t] # None}

LEMMA RefreshWriteStep ==
    ASSUME TypeInv, NEW p \in Procs, RefreshWrite(p)
    PROVE  /\ CallTypes /\ Others(p, New(p)) /\ At(p, {"refresh"}, "factory") /\ call'[p] = None
           /\ call[p].has \in [Tokens -> Payloads \cup {None}] /\ call[p].stale \subseteq Tokens
           /\ call[p].todo = {}
           /\ \A t \in New(p) : store'[t] = call[p].has[t]
           /\ \A t \in Tokens \ New(p) : store'[t] = store[t]
           /\ store' \in [Tokens -> Payloads \cup {None}]
           /\ account' = account \cup New(p) /\ raced' = raced \cup call[p].stale
<1>1. At(p, {"refresh"}, "factory") /\ call[p].todo = {}
  BY DEF RefreshWrite
<1>2. call[p].has \in [Tokens -> Payloads \cup {None}] /\ call[p].stale \subseteq Tokens
  BY <1>1, InFlight
<1>3. New(p) \in SUBSET Tokens
  BY DEF New
<1>4. GoesWriting(p, New(p), None)
  BY DEF RefreshWrite, New
<1>5. CallTypes /\ Others(p, New(p)) /\ call'[p] = None
  BY <1>3, <1>4, WritingStep
<1>6. store' = [t \in Tokens |-> IF t \in New(p) THEN call[p].has[t] ELSE store[t]]
  BY DEF RefreshWrite, New
<1>7. account' = account \cup New(p) /\ raced' = raced \cup call[p].stale
  BY DEF RefreshWrite, New
<1>8. /\ \A t \in New(p) : store'[t] = call[p].has[t]
      /\ \A t \in Tokens \ New(p) : store'[t] = store[t]
      /\ store' \in [Tokens -> Payloads \cup {None}]
  BY <1>2, <1>3, <1>6 DEF TypeInv
<1>9. QED
  BY <1>1, <1>2, <1>5, <1>7, <1>8

LEMMA TouchWriteStep ==
    ASSUME TypeInv, NEW p \in Procs, TouchWrite(p)
    PROVE  /\ CallTypes /\ Others(p, {call[p].tok}) /\ At(p, {"touch"}, "setex") /\ call'[p] = None
           /\ call[p].tok \in Tokens /\ call[p].stale \subseteq Tokens
           /\ call[p].has[call[p].tok] \in Payloads \cup {None}
<1>1. At(p, {"touch"}, "setex")
  BY DEF TouchWrite
<1>2. /\ call[p].tok \in Tokens /\ call[p].stale \subseteq Tokens
      /\ call[p].has \in [Tokens -> Payloads \cup {None}]
  BY <1>1, InFlight
<1>3. {call[p].tok} \in SUBSET Tokens /\ GoesWriting(p, {call[p].tok}, None)
  BY <1>2 DEF TouchWrite
<1>4. CallTypes /\ Others(p, {call[p].tok}) /\ call'[p] = None
  BY <1>3, WritingStep
<1>5. QED
  BY <1>1, <1>2, <1>4

LEMMA BeginDeleteStep ==
    ASSUME TypeInv, NEW p \in Procs, NEW t \in Tokens, BeginDelete(p, t)
    PROVE  CallTypes /\ Others(p, {}) /\ call[p] = None /\ Becomes(p, "delete", "d_get", t, {}, NoPayloads, {}, {})
<1>1. t \in 0..MaxLogins
  BY SessionAssumption DEF Tokens
<1>2. QED
  BY <1>1, BeginStep DEF BeginDelete, Free, Handlers, Awaits

LEMMA RequestStep ==
    ASSUME TypeInv, NEW p \in Procs, NEW t \in Tokens, Request(p, t)
    PROVE  CallTypes /\ Others(p, {}) /\ call[p] = None /\ Becomes(p, "touch", "get", t, {}, NoPayloads, {}, {})
<1>1. t \in 0..MaxLogins
  BY SessionAssumption DEF Tokens
<1>2. QED
  BY <1>1, BeginStep DEF Request, Free, Handlers, Awaits

(***************************************************************************)
(* Types.                                                                  *)
(***************************************************************************)
LEMMA InitType == Init => TypeInv
<1> SUFFICES ASSUME Init PROVE TypeInv
  OBVIOUS
<1>1. refresh_due \in BOOLEAN
  BY Zenon DEF Init
<1>2. store \in [Tokens -> Payloads \cup {None}]
  BY DEF Init, NoPayloads
<1>3. QED
  BY <1>1, <1>2, SessionAssumption DEF Init, TypeInv

DataTypes ==
    /\ store' \in [Tokens -> Payloads \cup {None}]
    /\ account' \subseteq Tokens /\ all' \subseteq Tokens
    /\ logins' \in 0..MaxLogins /\ perms' \in Nat /\ refresh_due' \in BOOLEAN
    /\ opened' \subseteq Tokens /\ revoked' \subseteq Tokens /\ raced' \subseteq Tokens

LEMMA TypeFromParts ==
    ASSUME TypeInv, DataTypes, CallTypes, NEW p, NEW T, Others(p, T),
           p \in Procs /\ call'[p] # None => Sound(call'[p])
    PROVE  TypeInv'
<1>1. ASSUME NEW q \in Procs, call'[q] # None PROVE Sound(call'[q])
  <2>1. CASE q # p
    <3>1. call[q] # None /\ Sound(call[q])
      BY <1>1, <2>1 DEF Others, Same, TypeInv
    <3>2. /\ call'[q].op = call[q].op /\ call'[q].pc = call[q].pc /\ call'[q].tok = call[q].tok
          /\ call'[q].todo = call[q].todo /\ call'[q].has = call[q].has
      BY <1>1, <2>1, <3>1 DEF Others, Same
    <3>3. QED
      BY <3>1, <3>2 DEF Sound
  <2>2. QED
    BY <1>1, <2>1
<1>2. QED
  BY <1>1 DEF TypeInv, DataTypes, CallTypes

LEMMA TypeSet == ASSUME TypeInv, NEW p \in Procs, Set(p) PROVE TypeInv'
<1>T. \A t \in Tokens : t # 0
  BY DEF Tokens
<1>1. CASE BeginLogin(p)
  <2>1. DataTypes
    BY <1>1, BeginLoginStep, SessionAssumption DEF BeginLogin, redis, history, TypeInv, DataTypes, Tokens
  <2>2. Sound(call'[p])
    BY <1>1, <1>T, BeginLoginStep DEF Becomes, Sound
  <2>3. QED
    BY <1>1, <2>1, <2>2, BeginLoginStep, TypeFromParts
<1>2. CASE SetEx(p)
  <2>1. DataTypes
    BY <1>2, SetExStep DEF SetEx, outside, history, TypeInv, DataTypes
  <2>2. Sound(call'[p])
    BY <1>2, <1>T, SetExStep DEF Becomes, Sound
  <2>3. QED
    BY <1>2, <2>1, <2>2, SetExStep, TypeFromParts
<1>3. CASE SAddAccount(p)
  <2>1. DataTypes
    BY <1>3, SAddAccountStep DEF SAddAccount, outside, history, TypeInv, DataTypes
  <2>2. Sound(call'[p])
    BY <1>3, <1>T, SAddAccountStep DEF Becomes, Sound
  <2>3. QED
    BY <1>3, <2>1, <2>2, SAddAccountStep, TypeFromParts
<1>4. CASE SAddAll(p)
  <2>1. At(p, {"login"}, "sadd_all")
    BY <1>4 DEF SAddAll
  <2>2. call[p].op = "login" /\ call[p].tok \in Tokens
    BY <2>1, InFlight
  <2>3. DataTypes
    BY <1>4, <2>2 DEF SAddAll, outside, TypeInv, DataTypes
  <2>4. Sound(call'[p])
    BY <1>4, <1>T, <2>2, SAddAllStep DEF Becomes, Sound
  <2>5. QED
    BY <1>4, <2>3, <2>4, SAddAllStep, TypeFromParts
<1>5. QED
  BY <1>1, <1>2, <1>3, <1>4 DEF Set

LEMMA TypeDelete == ASSUME TypeInv, NEW p \in Procs, Delete(p) PROVE TypeInv'
<1>T. \A t \in Tokens : t # 0
  BY DEF Tokens
<1>M. \A S \in SUBSET Tokens : S # {} => Min(S) \in Tokens
  BY MinToken
<1>1. ASSUME NEW t \in Tokens, BeginDelete(p, t) PROVE TypeInv'
  <2>1. DataTypes
    BY <1>1 DEF BeginDelete, redis, outside, history, TypeInv, DataTypes
  <2>2. Sound(call'[p])
    BY <1>1, <1>T, BeginDeleteStep DEF Becomes, Sound
  <2>3. QED
    BY <1>1, <2>1, <2>2, BeginDeleteStep, TypeFromParts
<1>2. CASE DeleteGet(p)
  <2>1. At(p, {"login", "delete"}, "d_get")
    BY <1>2 DEF DeleteGet
  <2>2. call[p].op \in {"login", "delete"} /\ call[p].tok \in Tokens
    BY <2>1, InFlight
  <2>3. DataTypes
    BY <1>2 DEF DeleteGet, redis, outside, history, TypeInv, DataTypes
  <2>4. Sound(call'[p])
    BY <1>2, <1>T, <2>2, DeleteGetStep DEF Becomes, Sound
  <2>5. QED
    BY <1>2, <2>3, <2>4, DeleteGetStep, TypeFromParts
<1>3. CASE DeleteKey(p)
  <2>1. DataTypes
    BY <1>3, DeleteKeyStep DEF DeleteKey, Deleting, outside, TypeInv, DataTypes
  <2>2. Sound(call'[p])
    BY <1>3, <1>T, DeleteKeyStep DEF Becomes, Sound, Deleting
  <2>3. QED
    BY <1>3, <2>1, <2>2, DeleteKeyStep, TypeFromParts
<1>4. CASE DeleteSRem(p)
  <2>1. DataTypes
    BY <1>4 DEF DeleteSRem, outside, history, TypeInv, DataTypes
  <2>2. call'[p] # None => Sound(call'[p])
    BY <1>4, <1>T, <1>M, DeleteSRemStep DEF Becomes, Ends, Sound, Deleting
  <2>3. QED
    BY <1>4, <2>1, <2>2, DeleteSRemStep, TypeFromParts
<1>5. CASE DeleteSRemAccount(p)
  <2>1. DataTypes
    BY <1>5 DEF DeleteSRemAccount, outside, history, TypeInv, DataTypes
  <2>2. call'[p] # None => Sound(call'[p])
    BY <1>5, <1>T, <1>M, DeleteSRemAccountStep DEF Becomes, Ends, Sound, Deleting
  <2>3. QED
    BY <1>5, <2>1, <2>2, DeleteSRemAccountStep, TypeFromParts
<1>6. QED
  BY <1>1, <1>2, <1>3, <1>4, <1>5 DEF Delete

LEMMA TypePrune == ASSUME TypeInv, NEW p \in Procs, Prune(p) PROVE TypeInv'
<1>T. \A t \in Tokens : t # 0
  BY DEF Tokens
<1>1. CASE PruneRead(p)
  <2>1. At(p, {"login"}, "prune")
    BY <1>1 DEF PruneRead
  <2>2. call[p].op = "login" /\ call[p].tok \in Tokens
    BY <2>1, InFlight
  <2>3. DataTypes
    BY <1>1 DEF PruneRead, redis, outside, history, TypeInv, DataTypes
  <2>4. Sound(call'[p])
    BY <1>1, <1>T, <2>2, PruneReadStep DEF Becomes, Sound
  <2>5. QED
    BY <1>1, <2>3, <2>4, PruneReadStep, TypeFromParts
<1>2. CASE ListGet(p)
  <2>1. At(p, {"login"}, "list")
    BY <1>2 DEF ListGet
  <2>2. call[p].op = "login" /\ call[p].tok \in Tokens
    BY <2>1, InFlight
  <2>3. DataTypes
    BY <1>2 DEF ListGet, redis, outside, history, TypeInv, DataTypes
  <2>4. Sound(call'[p])
    BY <1>2, <1>T, <2>2, ListGetStep DEF Becomes, Sound
  <2>5. QED
    BY <1>2, <2>3, <2>4, ListGetStep, TypeFromParts
<1>3. CASE ListEnd(p)
  <2>1. At(p, {"login"}, "list")
    BY <1>3 DEF ListEnd
  <2>2. Excess(Found(p)) \in SUBSET Tokens
    BY <2>1, InFlight DEF Excess, Found
  <2>3. DataTypes
    BY <1>3 DEF ListEnd, outside, history, TypeInv, DataTypes
  <2>4. Excess(Found(p)) # {} => Min(Excess(Found(p))) \in Tokens
    BY <2>2, MinToken
  <2>5. call'[p] # None => Sound(call'[p])
    BY <1>3, <1>T, <2>4, ListEndStep DEF Becomes, Ends, Sound
  <2>6. QED
    BY <1>3, <2>3, <2>5, ListEndStep, TypeFromParts
<1>4. QED
  BY <1>1, <1>2, <1>3 DEF Prune

LEMMA TypeDeleteAccount == ASSUME TypeInv, NEW p \in Procs, DeleteAccount(p) PROVE TypeInv'
<1>1. CASE BeginDeleteAccount(p)
  <2>1. DataTypes
    BY <1>1 DEF BeginDeleteAccount, redis, outside, history, TypeInv, DataTypes
  <2>2. Sound(call'[p])
    BY <1>1, BeginDeleteAccountStep DEF Becomes, Sound
  <2>3. QED
    BY <1>1, <2>1, <2>2, BeginDeleteAccountStep, TypeFromParts
<1>2. CASE DeleteAccountKeys(p)
  <2>1. DataTypes
    BY <1>2, DeleteAccountKeysStep DEF DeleteAccountKeys, outside, TypeInv, DataTypes
  <2>2. Sound(call'[p])
    BY <1>2, DeleteAccountKeysStep DEF Becomes, Sound
  <2>3. QED
    BY <1>2, <2>1, <2>2, DeleteAccountKeysStep, TypeFromParts
<1>3. CASE DeleteAccountSRem(p)
  <2>1. DataTypes
    BY <1>3 DEF DeleteAccountSRem, outside, history, TypeInv, DataTypes
  <2>2. QED
    BY <1>3, <2>1, DeleteAccountSRemStep, TypeFromParts
<1>4. QED
  BY <1>1, <1>2, <1>3 DEF DeleteAccount

LEMMA LoggingInType == ASSUME TypeInv PROVE LoggingIn \subseteq Tokens
<1>1. ASSUME NEW p \in Procs, call[p] # None, call[p].op = "login" PROVE call[p].tok \in Tokens
  <2>1. At(p, {"login"}, call[p].pc)
    BY <1>1 DEF At
  <2>2. QED
    BY <1>1, <2>1, InFlight
<1>2. QED
  BY <1>1 DEF LoggingIn

LEMMA TypeRefresh == ASSUME TypeInv, NEW p \in Procs, Refresh(p) PROVE TypeInv'
<1>1. CASE BeginRefresh(p)
  <2>1. refresh_due' \in BOOLEAN
    BY <1>1, Zenon DEF BeginRefresh
  <2>2. DataTypes
    BY <1>1, <2>1, LoggingInType DEF BeginRefresh, redis, TypeInv, DataTypes
  <2>3. call'[p] # None => Sound(call'[p])
    BY <1>1, BeginRefreshStep DEF Becomes, Sound
  <2>4. QED
    BY <1>1, <2>2, <2>3, BeginRefreshStep, TypeFromParts
<1>2. CASE RefreshRead(p)
  <2>1. DataTypes
    BY <1>2 DEF RefreshRead, redis, outside, history, TypeInv, DataTypes
  <2>2. call'[p] # None => Sound(call'[p])
    BY <1>2, RefreshReadStep DEF Becomes, Sound
  <2>3. QED
    BY <1>2, <2>1, <2>2, RefreshReadStep, TypeFromParts
<1>3. CASE Factory(p)
  <2>1. DataTypes
    BY <1>3 DEF Factory, redis, outside, history, TypeInv, DataTypes
  <2>2. At(p, {"refresh"}, "factory")
    BY <1>3 DEF Factory
  <2>3. /\ call[p] # None /\ call[p].op = "refresh" /\ call[p].pc = "factory"
        /\ call[p].todo \subseteq Tokens
    BY <2>2, InFlight
  <2>4. \A t \in call[p].todo : call[p].has[t] # None
    BY <2>3 DEF TypeInv, Sound
  <2>5. Sound(call'[p])
    BY <1>3, <2>3, <2>4, FactoryStep DEF Becomes, Sound
  <2>6. QED
    BY <1>3, <2>1, <2>5, FactoryStep, TypeFromParts
<1>4. CASE RefreshWrite(p)
  <2>1. account' \subseteq Tokens /\ all' \subseteq Tokens
    BY <1>4 DEF RefreshWrite, TypeInv
  <2>2. DataTypes
    BY <1>4, <2>1, RefreshWriteStep DEF RefreshWrite, outside, TypeInv, DataTypes
  <2>3. QED
    BY <1>4, <2>2, RefreshWriteStep, TypeFromParts
<1>5. QED
  BY <1>1, <1>2, <1>3, <1>4 DEF Refresh

LEMMA TypeTouch == ASSUME TypeInv, NEW p \in Procs, Touch(p) PROVE TypeInv'
<1>T. \A t \in Tokens : t # 0
  BY DEF Tokens
<1>1. ASSUME NEW t \in Tokens, Request(p, t) PROVE TypeInv'
  <2>1. DataTypes
    BY <1>1 DEF Request, redis, outside, history, TypeInv, DataTypes
  <2>2. Sound(call'[p])
    BY <1>1, <1>T, RequestStep DEF Becomes, Sound
  <2>3. QED
    BY <1>1, <2>1, <2>2, RequestStep, TypeFromParts
<1>2. CASE TouchRead(p)
  <2>1. DataTypes
    BY <1>2 DEF TouchRead, redis, outside, history, TypeInv, DataTypes
  <2>2. At(p, {"touch"}, "get")
    BY <1>2 DEF TouchRead
  <2>3. call[p].tok \in Tokens
    BY <2>2, InFlight
  <2>4. call'[p] # None => Sound(call'[p])
    BY <1>2, <1>T, <2>3, TouchReadStep DEF Becomes, Sound
  <2>5. QED
    BY <1>2, <2>1, <2>4, TouchReadStep, TypeFromParts
<1>3. CASE TouchWrite(p)
  <2>1. DataTypes
    BY <1>3, TouchWriteStep DEF TouchWrite, outside, TypeInv, DataTypes
  <2>2. QED
    BY <1>3, <2>1, TouchWriteStep, TypeFromParts
<1>4. QED
  BY <1>1, <1>2, <1>3 DEF Touch

\* A session that falls idle keeps its permissions.
LEMMA GrowIdleStep ==
    ASSUME TypeInv, NEW t \in Tokens, GrowIdle(t)
    PROVE  /\ CallTypes /\ Others(None, {t}) /\ \A q \in Procs : Same(q) /\ Marked(q, {t})
           /\ store' \in [Tokens -> Payloads \cup {None}]
           /\ store[t] # None /\ store'[t] # None
           /\ store'[t].perms = store[t].perms /\ store'[t].idle = TRUE
           /\ \A u \in Tokens \ {t} : store'[u] = store[u]
<1>1. store[t] \in Payloads /\ store[t] # None
  BY GetType DEF GrowIdle
<1>2. [store[t] EXCEPT !.idle = TRUE] \in Payloads
  BY <1>1 DEF Payloads
<1>3. store'[t] = [store[t] EXCEPT !.idle = TRUE] /\ \A u \in Tokens \ {t} : store'[u] = store[u]
  BY DEF GrowIdle, TypeInv
<1>4. store' \in [Tokens -> Payloads \cup {None}]
  BY <1>2 DEF GrowIdle, TypeInv
<1>5. store'[t].perms = store[t].perms /\ store'[t].idle = TRUE
  BY <1>1, <1>3 DEF Payloads
<1>6. {t} \in SUBSET Tokens /\ call' = Outdated(None, {t})
  BY DEF GrowIdle
<1>7. CallTypes /\ Others(None, {t}) /\ \A q \in Procs : Same(q) /\ Marked(q, {t})
  BY <1>6, NobodyStep
<1>8. store'[t] # None
  BY <1>2, <1>3, NoneAssumption
<1>9. QED
  BY <1>1, <1>3, <1>4, <1>5, <1>7, <1>8

LEMMA ExpireStep ==
    ASSUME TypeInv, NEW t \in Tokens, Expire(t)
    PROVE  /\ CallTypes /\ Others(None, {t}) /\ \A q \in Procs : Same(q) /\ Marked(q, {t})
           /\ store' \in [Tokens -> Payloads \cup {None}] /\ store'[t] = None
           /\ \A u \in Tokens \ {t} : store'[u] = store[u]
<1>1. {t} \in SUBSET Tokens /\ call' = Outdated(None, {t})
  BY DEF Expire
<1>2. CallTypes /\ Others(None, {t}) /\ \A q \in Procs : Same(q) /\ Marked(q, {t})
  BY <1>1, NobodyStep
<1>3. QED
  BY <1>2 DEF Expire, TypeInv

LEMMA TypeInductive == TypeInv /\ [Next]_vars => TypeInv'
<1> SUFFICES ASSUME TypeInv, [Next]_vars PROVE TypeInv'
  OBVIOUS
<1>1. CASE UNCHANGED vars
  BY <1>1 DEF vars, redis, outside, history, TypeInv
<1>2. ASSUME NEW t \in Tokens, Expire(t) PROVE TypeInv'
  <2>1. DataTypes
    BY <1>2, ExpireStep DEF Expire, outside, history, TypeInv, DataTypes
  <2>2. QED
    BY <1>2, <2>1, ExpireStep, TypeFromParts, NoneAssumption
<1>3. ASSUME NEW t \in Tokens, GrowIdle(t) PROVE TypeInv'
  <2>1. DataTypes
    BY <1>3, GrowIdleStep DEF GrowIdle, outside, history, TypeInv, DataTypes
  <2>2. QED
    BY <1>3, <2>1, GrowIdleStep, TypeFromParts, NoneAssumption
<1>4. CASE ChangePermissions
  <2>1. refresh_due' \in BOOLEAN
    BY <1>4, Zenon DEF ChangePermissions
  <2>2. QED
    BY <1>4, <2>1 DEF ChangePermissions, redis, history, TypeInv
<1>5. QED
  BY <1>1, <1>2, <1>3, <1>4, TypeSet, TypePrune, TypeDelete, TypeDeleteAccount, TypeRefresh, TypeTouch
  DEF Next

(***************************************************************************)
(* Tokens that have reached Redis.                                         *)
(***************************************************************************)
\* A step that begins no login and writes no session of one.
LEMMA SeenMove ==
    ASSUME TypeInv, SeenInv, NEW p, NEW T, Others(p, T), CallTypes, logins' = logins,
           \A t \in account' \cup opened' \cup revoked' : Seen(t),
           \A t \in Tokens : store'[t] # None => Seen(t),
           p \in Procs /\ call'[p] # None =>
              /\ ~(call'[p].op = "login" /\ call'[p].pc = "setex")
              /\ \A t \in call'[p].todo \cup call'[p].known : Seen(t)
              /\ call'[p].op \in {"touch", "refresh"} => \A t \in Tokens : call'[p].has[t] # None => Seen(t)
              /\ call'[p].tok # 0 => Seen(call'[p].tok)
    PROVE  SeenInv'
<1>1. ASSUME NEW t, Seen(t) PROVE Seen(t)'
  <2>1. ASSUME NEW q \in Procs, Login(q, {"setex"})' PROVE call'[q].tok # t
    <3>1. q # p
      BY <2>1 DEF Login
    <3>2. Login(q, {"setex"}) /\ call'[q].tok = call[q].tok
      BY <2>1, <3>1 DEF Login, Others, Same
    <3>3. QED
      BY <1>1, <3>2 DEF Seen
  <2>2. QED
    BY <1>1, <2>1 DEF Seen
<1>2. ASSUME NEW q \in Procs, call'[q] # None PROVE SeenBy(q)'
  <2>1. CASE q = p
    BY <1>1, <1>2, <2>1 DEF SeenBy, Login, Writer
  <2>2. CASE q # p
    <3>1. call[q] # None /\ SeenBy(q)
      BY <1>2, <2>2 DEF SeenInv, Others, Same
    <3>2. /\ call'[q].todo = call[q].todo /\ call'[q].known = call[q].known
          /\ call'[q].has = call[q].has /\ call'[q].tok = call[q].tok
          /\ Login(q, {"setex"})' <=> Login(q, {"setex"})
          /\ Writer(q)' <=> Writer(q)
      BY <1>2, <2>2, <3>1 DEF Others, Same, Login, Writer
    <3>3. QED
      BY <1>1, <3>1, <3>2 DEF SeenBy
  <2>3. QED
    BY <2>1, <2>2
<1>3. QED
  BY <1>1, <1>2 DEF SeenInv

\* A step of p that changes nothing but its own state.
LEMMA SeenKeep ==
    ASSUME TypeInv, SeenInv, NEW p, NEW T, Others(p, T), CallTypes,
           UNCHANGED <<redis, outside, history>>,
           p \in Procs /\ call'[p] # None =>
              /\ ~(call'[p].op = "login" /\ call'[p].pc = "setex")
              /\ \A t \in call'[p].todo \cup call'[p].known : Seen(t)
              /\ call'[p].op \in {"touch", "refresh"} => \A t \in Tokens : call'[p].has[t] # None => Seen(t)
              /\ call'[p].tok # 0 => Seen(call'[p].tok)
    PROVE  SeenInv'
<1>1. /\ \A t \in account' \cup opened' \cup revoked' : Seen(t)
      /\ \A t \in Tokens : store'[t] # None => Seen(t)
      /\ logins' = logins
  BY DEF SeenInv, redis, outside, history
<1>2. QED
  BY <1>1, SeenMove, Zenon

\* What a handler in flight has seen, spelled out.
LEMMA SeenHere ==
    ASSUME SeenInv, NEW p \in Procs, call[p] # None
    PROVE  /\ \A t \in call[p].todo \cup call[p].known : Seen(t)
           /\ Writer(p) => \A t \in Tokens : call[p].has[t] # None => Seen(t)
           /\ ~Login(p, {"setex"}) /\ call[p].tok # 0 => Seen(call[p].tok)
BY DEF SeenInv, SeenBy

LEMMA SeenSet == ASSUME TypeInv, SeenInv, EnterInv, NEW p \in Procs, Set(p) PROVE SeenInv'
<1>T. \A t \in Tokens : t # 0
  BY DEF Tokens
<1>1. CASE BeginLogin(p)
  <2>1. PICK has : Becomes(p, "login", "setex", logins + 1, {}, has, {}, {})
    BY <1>1, BeginLoginStep
  <2>2. logins \in Nat /\ logins' = logins + 1
    BY <1>1, BeginLoginStep DEF TypeInv
  <2>3. ASSUME NEW t, Seen(t) PROVE Seen(t)'
    <3>1. t \in 1..logins' /\ t # logins + 1
      BY <2>2, <2>3 DEF Seen
    <3>2. ASSUME NEW q \in Procs, Login(q, {"setex"})' PROVE call'[q].tok # t
      <4>1. CASE q = p
        BY <2>1, <3>1, <4>1 DEF Becomes
      <4>2. CASE q # p
        BY <1>1, <2>3, <3>2, <4>2, BeginLoginStep DEF Login, Others, Same, Seen
      <4>3. QED
        BY <4>1, <4>2
    <3>3. QED
      BY <3>1, <3>2 DEF Seen
  <2>4. UNCHANGED <<store, account, opened, revoked>>
    BY <1>1 DEF BeginLogin, redis, history
  <2>5. SeenBy(p)'
    BY <2>1 DEF Becomes, SeenBy, Login, Writer
  <2>6. ASSUME NEW q \in Procs \ {p}, call'[q] # None PROVE SeenBy(q)'
    <3>1. call[q] # None /\ SeenBy(q)
      BY <1>1, <2>6, BeginLoginStep DEF SeenInv, Others, Same
    <3>2. /\ call'[q].todo = call[q].todo /\ call'[q].known = call[q].known
          /\ call'[q].has = call[q].has /\ call'[q].tok = call[q].tok
          /\ Login(q, {"setex"})' <=> Login(q, {"setex"})
          /\ Writer(q)' <=> Writer(q)
      BY <1>1, <2>6, <3>1, BeginLoginStep DEF Others, Same, Login, Writer
    <3>3. QED
      BY <2>3, <3>1, <3>2 DEF SeenBy
  <2>7. QED
    BY <2>3, <2>4, <2>5, <2>6 DEF SeenInv
<1>2. CASE SetEx(p)
  <2>1. Login(p, {"setex"}) /\ call[p].tok \in Tokens /\ call[p] # None
    BY <1>2, SetExStep DEF Login
  <2>0. PICK tok \in Tokens : tok = call[p].tok
    BY <2>1
  <2>2. /\ Becomes(p, "login", "sadd", tok, call[p].todo, call[p].has, call[p].known, call[p].stale)
        /\ Others(p, {}) /\ logins' = logins
    BY <1>2, <2>0, SetExStep DEF SetEx, outside
  <2>3. ASSUME NEW q \in Procs, Login(q, {"setex"})' PROVE q # p /\ Login(q, {"setex"}) /\ call'[q].tok = call[q].tok
    <3>1. q # p
      BY <2>2, <2>3 DEF Becomes, Login
    <3>2. QED
      BY <2>2, <2>3, <3>1 DEF Login, Others, Same
  <2>4. ASSUME NEW t, Seen(t) PROVE Seen(t)'
    BY <2>2, <2>3, <2>4 DEF Seen
  <2>5. Seen(tok)'
    <3>1. tok \in 1..logins
      BY <2>0, <2>1 DEF EnterInv, Login, Pending, Entering
    <3>2. ASSUME NEW q \in Procs, Login(q, {"setex"})' PROVE call'[q].tok # tok
      <4>1. q # p /\ Login(q, Pending) /\ call'[q].tok = call[q].tok
        BY <2>3, <3>2 DEF Login, Pending, Entering
      <4>2. Login(p, Pending)
        BY <2>1 DEF Login, Pending, Entering
      <4>3. QED
        BY <2>0, <4>1, <4>2 DEF EnterInv
    <3>3. QED
      BY <2>2, <3>1, <3>2 DEF Seen
  <2>6. \A t \in Tokens : store'[t] # None => Seen(t)'
    BY <1>2, <2>0, <2>4, <2>5 DEF SetEx, SeenInv, TypeInv
  <2>7. \A t \in account' \cup opened' \cup revoked' : Seen(t)'
    BY <1>2, <2>4 DEF SetEx, SeenInv, history
  <2>8. ASSUME NEW q \in Procs \ {p}, call'[q] # None PROVE SeenBy(q)'
    <3>1. call[q] # None /\ SeenBy(q)
      BY <2>2, <2>8 DEF SeenInv, Others, Same
    <3>2. /\ call'[q].todo = call[q].todo /\ call'[q].known = call[q].known
          /\ call'[q].has = call[q].has /\ call'[q].tok = call[q].tok
          /\ Login(q, {"setex"})' <=> Login(q, {"setex"})
          /\ Writer(q)' <=> Writer(q)
      BY <2>2, <2>8, <3>1 DEF Others, Same, Login, Writer
    <3>3. QED
      BY <2>4, <3>1, <3>2 DEF SeenBy
  <2>9. SeenBy(p)'
    <3>1. \A t \in call[p].todo \cup call[p].known : Seen(t)
      BY <2>1, SeenHere
    <3>2. QED
      BY <2>2, <2>4, <2>5, <3>1 DEF Becomes, SeenBy, Writer
  <2>10. QED
    BY <2>6, <2>7, <2>8, <2>9 DEF SeenInv
<1>3. CASE SAddAccount(p)
  <2>1. Login(p, {"sadd"}) /\ call[p].tok \in Tokens /\ call[p] # None
    BY <1>3, SAddAccountStep DEF Login
  <2>2. Seen(call[p].tok) /\ \A t \in call[p].todo \cup call[p].known : Seen(t)
    BY <1>T, <2>1, SeenHere DEF Login
  <2>3. /\ \A t \in account' \cup opened' \cup revoked' : Seen(t)
        /\ \A t \in Tokens : store'[t] # None => Seen(t)
        /\ logins' = logins
    BY <1>3, <2>2 DEF SAddAccount, SeenInv, outside, history
  <2>4. QED
    BY <1>3, <2>2, <2>3, SAddAccountStep, SeenMove DEF Becomes
<1>4. CASE SAddAll(p)
  <2>1. At(p, {"login"}, "sadd_all")
    BY <1>4 DEF SAddAll
  <2>2. call[p] # None /\ call[p].op = "login" /\ call[p].tok \in Tokens /\ call[p].pc = "sadd_all"
    BY <2>1, InFlight
  <2>3. Seen(call[p].tok) /\ \A t \in call[p].todo \cup call[p].known : Seen(t)
    BY <1>T, <2>2, SeenHere DEF Login
  <2>4. /\ \A t \in account' \cup opened' \cup revoked' : Seen(t)
        /\ \A t \in Tokens : store'[t] # None => Seen(t)
        /\ logins' = logins
    BY <1>4, <2>3 DEF SAddAll, SeenInv, outside
  <2>5. QED
    BY <1>4, <2>2, <2>3, <2>4, SAddAllStep, SeenMove DEF Becomes
<1>5. QED
  BY <1>1, <1>2, <1>3, <1>4 DEF Set

LEMMA SeenPrune == ASSUME TypeInv, SeenInv, NEW p \in Procs, Prune(p) PROVE SeenInv'
<1>T. \A t \in Tokens : t # 0
  BY DEF Tokens
<1>A. \A t \in account : Seen(t)
  BY DEF SeenInv
<1>1. CASE PruneRead(p)
  <2>1. At(p, {"login"}, "prune")
    BY <1>1 DEF PruneRead
  <2>2. call[p] # None /\ call[p].op = "login" /\ call[p].tok \in Tokens /\ call[p].pc = "prune"
    BY <2>1, InFlight
  <2>3. Seen(call[p].tok)
    BY <1>T, <2>2, SeenHere DEF Login
  <2>4. UNCHANGED <<redis, outside, history>>
    BY <1>1 DEF PruneRead
  <2>5. QED
    BY <1>1, <1>A, <2>2, <2>3, <2>4, PruneReadStep, SeenKeep DEF Becomes
<1>2. CASE ListGet(p)
  <2>1. At(p, {"login"}, "list")
    BY <1>2 DEF ListGet
  <2>2. call[p] # None /\ call[p].op = "login" /\ call[p].tok \in Tokens /\ call[p].pc = "list"
    BY <2>1, InFlight
  <2>3. Seen(call[p].tok) /\ \A t \in call[p].todo \cup call[p].known : Seen(t)
    BY <1>T, <2>2, SeenHere DEF Login
  <2>4. UNCHANGED <<redis, outside, history>>
    BY <1>2 DEF ListGet
  <2>5. QED
    BY <1>2, <2>2, <2>3, <2>4, ListGetStep, SeenKeep DEF Becomes
<1>3. CASE ListEnd(p)
  <2>1. At(p, {"login"}, "list")
    BY <1>3 DEF ListEnd
  <2>2. call[p] # None /\ call[p].known \subseteq Tokens
    BY <2>1, InFlight
  <2>3. Excess(Found(p)) \subseteq call[p].known
    BY DEF Excess, Found
  <2>4. \A t \in Excess(Found(p)) : Seen(t)
    BY <2>2, <2>3, SeenHere
  <2>5. Excess(Found(p)) # {} => Min(Excess(Found(p))) \in Excess(Found(p))
    BY <2>2, <2>3, MinToken
  <2>6. /\ \A t \in account' \cup opened' \cup revoked' : Seen(t)
        /\ \A t \in Tokens : store'[t] # None => Seen(t)
        /\ logins' = logins
    BY <1>3 DEF ListEnd, SeenInv, outside, history
  <2>7. call'[p] # None =>
           /\ call'[p].op = "login" /\ call'[p].pc = "d_get" /\ call'[p].known = {}
           /\ Seen(call'[p].tok) /\ \A t \in call'[p].todo : Seen(t)
    BY <1>3, <2>4, <2>5, ListEndStep DEF Ends, Becomes
  <2>8. QED
    BY <1>3, <2>6, <2>7, ListEndStep, SeenMove
<1>4. QED
  BY <1>1, <1>2, <1>3 DEF Prune

LEMMA SeenDelete == ASSUME TypeInv, SeenInv, NEW p \in Procs, Delete(p) PROVE SeenInv'
<1>T. \A t \in Tokens : t # 0
  BY DEF Tokens
<1>D. ASSUME Deleting(p), call[p].pc # "setex"
      PROVE  /\ Seen(call[p].tok) /\ \A t \in call[p].todo \cup call[p].known : Seen(t)
             /\ call[p].todo # {} => Min(call[p].todo) \in call[p].todo
  <2>1. call[p].todo # {} => Min(call[p].todo) \in call[p].todo
    BY <1>D, MinToken DEF Deleting
  <2>2. QED
    BY <1>T, <1>D, <2>1, SeenHere DEF Deleting, Login
<1>1. ASSUME NEW t \in Tokens, BeginDelete(p, t) PROVE SeenInv'
  <2>1. Seen(t) /\ UNCHANGED <<redis, outside, history>>
    BY <1>1 DEF BeginDelete, SeenInv
  <2>2. QED
    BY <1>1, <2>1, BeginDeleteStep, SeenKeep DEF Becomes
<1>2. CASE DeleteGet(p)
  <2>1. At(p, {"login", "delete"}, "d_get")
    BY <1>2 DEF DeleteGet
  <2>2. Deleting(p) /\ call[p].pc = "d_get"
    BY <2>1, InFlight DEF Deleting
  <2>3. UNCHANGED <<redis, outside, history>>
    BY <1>2 DEF DeleteGet
  <2>4. QED
    BY <1>2, <1>D, <2>2, <2>3, DeleteGetStep, SeenKeep DEF Becomes, Deleting
<1>3. CASE DeleteKey(p)
  <2>1. Deleting(p) /\ call[p].pc = "d_del"
    BY <1>3, DeleteKeyStep
  <2>2. /\ \A t \in account' \cup opened' \cup revoked' : Seen(t)
        /\ \A t \in Tokens : store'[t] # None => Seen(t)
        /\ logins' = logins
    BY <1>3, <1>D, <2>1 DEF DeleteKey, SeenInv, TypeInv, outside
  <2>3. QED
    BY <1>3, <1>D, <2>1, <2>2, DeleteKeyStep, SeenMove DEF Becomes, Deleting
<1>4. CASE DeleteSRem(p)
  <2>1. Deleting(p) /\ call[p].pc = "d_srem"
    BY <1>4, DeleteSRemStep
  <2>2. /\ \A t \in account' \cup opened' \cup revoked' : Seen(t)
        /\ \A t \in Tokens : store'[t] # None => Seen(t)
        /\ logins' = logins
    BY <1>4 DEF DeleteSRem, SeenInv, outside, history
  <2>3. QED
    BY <1>4, <1>D, <2>1, <2>2, DeleteSRemStep, SeenMove DEF Ends, Becomes, Deleting
<1>5. CASE DeleteSRemAccount(p)
  <2>1. Deleting(p) /\ call[p].pc = "d_srem_account"
    BY <1>5, DeleteSRemAccountStep
  <2>2. /\ \A t \in account' \cup opened' \cup revoked' : Seen(t)
        /\ \A t \in Tokens : store'[t] # None => Seen(t)
        /\ logins' = logins
    BY <1>5 DEF DeleteSRemAccount, SeenInv, outside, history
  <2>3. QED
    BY <1>5, <1>D, <2>1, <2>2, DeleteSRemAccountStep, SeenMove DEF Ends, Becomes, Deleting
<1>6. QED
  BY <1>1, <1>2, <1>3, <1>4, <1>5 DEF Delete

LEMMA SeenDeleteAccount == ASSUME TypeInv, SeenInv, NEW p \in Procs, DeleteAccount(p) PROVE SeenInv'
<1>1. CASE BeginDeleteAccount(p)
  <2>1. (\A t \in account \cup opened : Seen(t)) /\ UNCHANGED <<redis, outside, history>>
    BY <1>1 DEF BeginDeleteAccount, SeenInv
  <2>2. QED
    BY <1>1, <2>1, BeginDeleteAccountStep, SeenKeep DEF Becomes
<1>2. CASE DeleteAccountKeys(p)
  <2>1. /\ call[p] # None /\ call[p].op = "delete_account" /\ call[p].todo \subseteq Tokens
        /\ call[p].known \subseteq Tokens
    BY <1>2, DeleteAccountKeysStep DEF At
  <2>2. /\ \A t \in call[p].todo \cup call[p].known : Seen(t)
        /\ call[p].tok # 0 => Seen(call[p].tok)
    BY <2>1, SeenHere DEF Login
  <2>3. /\ \A t \in account' \cup opened' \cup revoked' : Seen(t)
        /\ \A t \in Tokens : store'[t] # None => Seen(t)
        /\ logins' = logins
    BY <1>2, <2>2 DEF DeleteAccountKeys, SeenInv, outside
  <2>4. QED
    BY <1>2, <2>2, <2>3, DeleteAccountKeysStep, SeenMove DEF Becomes
<1>3. CASE DeleteAccountSRem(p)
  <2>1. /\ \A t \in account' \cup opened' \cup revoked' : Seen(t)
        /\ \A t \in Tokens : store'[t] # None => Seen(t)
        /\ logins' = logins
    BY <1>3 DEF DeleteAccountSRem, SeenInv, outside, history
  <2>2. QED
    BY <1>3, <2>1, DeleteAccountSRemStep, SeenMove
<1>4. QED
  BY <1>1, <1>2, <1>3 DEF DeleteAccount

LEMMA SeenRefresh == ASSUME TypeInv, SeenInv, NEW p \in Procs, Refresh(p) PROVE SeenInv'
<1>N. \A t \in Tokens : NoPayloads[t] = None
  BY DEF NoPayloads
<1>1. CASE BeginRefresh(p)
  <2>1. /\ \A t \in account' \cup opened' \cup revoked' : Seen(t)
        /\ \A t \in Tokens : store'[t] # None => Seen(t)
        /\ logins' = logins
        /\ \A t \in account : Seen(t)
    BY <1>1 DEF BeginRefresh, SeenInv, redis
  <2>2. QED
    BY <1>1, <1>N, <2>1, BeginRefreshStep, SeenMove DEF Becomes
<1>R. ASSUME call[p] # None, call[p].op = "refresh"
      PROVE  /\ \A t \in call[p].todo \cup call[p].known : Seen(t)
             /\ \A t \in Tokens : call[p].has[t] # None => Seen(t)
             /\ call[p].tok # 0 => Seen(call[p].tok)
  BY <1>R, SeenHere DEF Login, Writer
<1>2. CASE RefreshRead(p)
  <2>1. call[p] # None /\ call[p].op = "refresh"
    BY <1>2 DEF RefreshRead, At
  <2>2. UNCHANGED <<redis, outside, history>>
    BY <1>2 DEF RefreshRead
  <2>3. \A t \in Tokens : store[t] # None => Seen(t)
    BY DEF SeenInv
  <2>4. QED
    BY <1>2, <1>R, <2>1, <2>2, <2>3, RefreshReadStep, SeenKeep DEF Becomes
<1>3. CASE Factory(p)
  <2>1. call[p] # None /\ call[p].op = "refresh"
    BY <1>3 DEF Factory, At
  <2>2. UNCHANGED <<redis, outside, history>>
    BY <1>3 DEF Factory
  <2>3. QED
    BY <1>3, <1>R, <2>1, <2>2, FactoryStep, SeenKeep DEF Becomes
<1>4. CASE RefreshWrite(p)
  <2>1. call[p] # None /\ call[p].op = "refresh"
    BY <1>4, RefreshWriteStep DEF At
  <2>2. /\ \A t \in account' \cup opened' \cup revoked' : Seen(t)
        /\ \A t \in Tokens : store'[t] # None => Seen(t)
        /\ logins' = logins
    BY <1>4, <1>R, <2>1, RefreshWriteStep DEF RefreshWrite, SeenInv, New, outside
  <2>3. QED
    BY <1>4, <2>2, RefreshWriteStep, SeenMove
<1>5. QED
  BY <1>1, <1>2, <1>3, <1>4 DEF Refresh

LEMMA SeenTouch == ASSUME TypeInv, SeenInv, NEW p \in Procs, Touch(p) PROVE SeenInv'
<1>T. \A t \in Tokens : t # 0 /\ NoPayloads[t] = None
  BY DEF Tokens, NoPayloads
<1>1. ASSUME NEW t \in Tokens, Request(p, t) PROVE SeenInv'
  <2>1. Seen(t) /\ UNCHANGED <<redis, outside, history>>
    BY <1>1 DEF Request, SeenInv
  <2>2. QED
    BY <1>1, <1>T, <2>1, RequestStep, SeenKeep DEF Becomes
<1>2. CASE TouchRead(p)
  <2>1. At(p, {"touch"}, "get")
    BY <1>2 DEF TouchRead
  <2>2. call[p] # None /\ call[p].op = "touch" /\ call[p].tok \in Tokens
    BY <2>1, InFlight
  <2>3. /\ \A t \in call[p].todo \cup call[p].known : Seen(t)
        /\ \A t \in Tokens : call[p].has[t] # None => Seen(t)
        /\ Seen(call[p].tok)
    BY <1>T, <2>2, SeenHere DEF Login, Writer
  <2>4. UNCHANGED <<redis, outside, history>>
    BY <1>2 DEF TouchRead
  <2>5. QED
    <3>1. call'[p] # None =>
             /\ call'[p].op = "touch" /\ call'[p].tok = call[p].tok /\ call'[p].todo = call[p].todo
             /\ call'[p].known = call[p].known
             /\ \A t \in Tokens \ {call[p].tok} : call'[p].has[t] = call[p].has[t]
      BY <1>2, TouchReadStep DEF Becomes
    <3>2. CallTypes /\ Others(p, {})
      BY <1>2, TouchReadStep
    <3>3. QED
      BY <2>3, <2>4, <3>1, <3>2, SeenKeep
<1>3. CASE TouchWrite(p)
  <2>1. call[p] # None /\ call[p].op = "touch" /\ call[p].tok \in Tokens
    BY <1>3, TouchWriteStep DEF At
  <2>2. Seen(call[p].tok)
    BY <1>T, <2>1, SeenHere DEF Login
  <2>3. /\ \A t \in account' \cup opened' \cup revoked' : Seen(t)
        /\ \A t \in Tokens : store'[t] # None => Seen(t)
        /\ logins' = logins
    BY <1>3, <2>2 DEF TouchWrite, SeenInv, TypeInv, outside
  <2>4. QED
    BY <1>3, <2>3, TouchWriteStep, SeenMove
<1>4. QED
  BY <1>1, <1>2, <1>3 DEF Touch

LEMMA SeenInductive == TypeInv /\ EnterInv /\ SeenInv /\ [Next]_vars => SeenInv'
<1> SUFFICES ASSUME TypeInv, EnterInv, SeenInv, [Next]_vars PROVE SeenInv'
  OBVIOUS
<1>1. CASE UNCHANGED vars
  BY <1>1 DEF vars, redis, outside, history, SeenInv, SeenBy, Seen, Login, Writer
<1>2. ASSUME NEW t \in Tokens, Expire(t) PROVE SeenInv'
  <2>1. /\ \A u \in account' \cup opened' \cup revoked' : Seen(u)
        /\ \A u \in Tokens : store'[u] # None => Seen(u)
        /\ logins' = logins
    BY <1>2, ExpireStep DEF Expire, SeenInv, outside, history
  <2>2. QED
    BY <1>2, <2>1, ExpireStep, SeenMove, NoneAssumption
<1>3. ASSUME NEW t \in Tokens, GrowIdle(t) PROVE SeenInv'
  <2>1. /\ \A u \in account' \cup opened' \cup revoked' : Seen(u)
        /\ \A u \in Tokens : store'[u] # None => Seen(u)
        /\ logins' = logins
    BY <1>3, GrowIdleStep DEF GrowIdle, SeenInv, outside, history
  <2>2. QED
    BY <1>3, <2>1, GrowIdleStep, SeenMove, NoneAssumption
<1>4. CASE ChangePermissions
  BY <1>4 DEF ChangePermissions, redis, history, SeenInv, SeenBy, Seen, Login, Writer
<1>5. QED
  BY <1>1, <1>2, <1>3, <1>4, SeenSet, SeenPrune, SeenDelete, SeenDeleteAccount, SeenRefresh, SeenTouch
  DEF Next

(***************************************************************************)
(* Logins that are not indexed yet.                                        *)
(***************************************************************************)
LEMMA EnterMove ==
    ASSUME EnterInv, NEW p, NEW T, Others(p, T), logins' = logins, opened' = opened,
           p \in Procs /\ call'[p] # None /\ call'[p].op = "login" /\ call'[p].pc \in Pending =>
              /\ Login(p, Pending) /\ call'[p].tok = call[p].tok
              /\ call'[p].pc \in Entering => Login(p, Entering)
    PROVE  EnterInv'
<1>1. ASSUME NEW q \in Procs, Login(q, Pending)'
      PROVE  /\ Login(q, Pending) /\ call'[q].tok = call[q].tok
             /\ Login(q, Entering)' => Login(q, Entering)
  <2>1. CASE q = p
    BY <1>1, <2>1 DEF Login
  <2>2. CASE q # p
    BY <1>1, <2>2 DEF Login, Others, Same
  <2>3. QED
    BY <2>1, <2>2
<1>2. \A q \in Procs : Login(q, Entering)' => Login(q, Pending)'
  BY DEF Login, Pending
<1>3. QED
  BY <1>1, <1>2 DEF EnterInv

LEMMA EnterSet == ASSUME TypeInv, SeenInv, EnterInv, NEW p \in Procs, Set(p) PROVE EnterInv'
<1>1. CASE BeginLogin(p)
  <2>1. /\ Others(p, {}) /\ opened' = opened /\ logins' = logins + 1 /\ logins \in Nat
        /\ call'[p].tok = logins + 1
    BY <1>1, BeginLoginStep DEF BeginLogin, history, TypeInv, Becomes
  <2>2. ASSUME NEW q \in Procs \ {p}, Login(q, Pending)'
        PROVE  /\ Login(q, Pending) /\ call'[q].tok = call[q].tok /\ call'[q].tok \in 1..logins
               /\ Login(q, Entering)' => Login(q, Entering)
    <3>1. /\ Login(q, Pending) /\ call'[q].tok = call[q].tok
          /\ Login(q, Entering)' => Login(q, Entering)
      BY <2>1, <2>2 DEF Login, Others, Same
    <3>2. QED
      BY <3>1 DEF EnterInv
  <2>3. logins + 1 \notin opened
    BY <2>1 DEF SeenInv, Seen
  <2>4. \A q \in Procs : Login(q, Pending)' => call'[q].tok \in 1..logins'
    BY <2>1, <2>2
  <2>5. ASSUME NEW q \in Procs, NEW r \in Procs, Login(q, Pending)', Login(r, Pending)',
               call'[q].tok = call'[r].tok
        PROVE  q = r
    <3>1. CASE q = p /\ r # p
      BY <2>1, <2>2, <2>5, <3>1
    <3>2. CASE r = p /\ q # p
      BY <2>1, <2>2, <2>5, <3>2
    <3>3. CASE q # p /\ r # p
      BY <2>2, <2>5, <3>3 DEF EnterInv
    <3>4. QED
      BY <3>1, <3>2, <3>3
  <2>6. \A q \in Procs : Login(q, Entering)' => Login(q, Pending)'
    BY DEF Login, Pending
  <2>7. \A q \in Procs : Login(q, Entering)' => call'[q].tok \notin opened'
    BY <2>1, <2>2, <2>3, <2>6 DEF EnterInv
  <2>8. QED
    BY <2>4, <2>5, <2>7 DEF EnterInv
<1>2. CASE SetEx(p)
  BY <1>2, SetExStep, EnterMove DEF SetEx, Becomes, Login, Pending, Entering, outside, history
<1>3. CASE SAddAccount(p)
  BY <1>3, SAddAccountStep, EnterMove DEF SAddAccount, Becomes, Login, Pending, Entering, outside, history
<1>4. CASE SAddAll(p)
  <2>1. Login(p, Pending)
    BY <1>4 DEF SAddAll, At, Login, Pending, Entering
  <2>2. /\ Others(p, {}) /\ opened' = opened \cup {call[p].tok} /\ logins' = logins
        /\ call'[p].tok = call[p].tok /\ call'[p].pc = "prune"
    BY <1>4, SAddAllStep DEF SAddAll, Becomes, outside
  <2>3. ASSUME NEW q \in Procs, Login(q, Pending)'
        PROVE  /\ Login(q, Pending) /\ call'[q].tok = call[q].tok
               /\ Login(q, Entering)' => Login(q, Entering) /\ q # p
    <3>1. CASE q = p
      BY <2>1, <2>2, <3>1 DEF Login, Entering
    <3>2. CASE q # p
      BY <2>2, <2>3, <3>2 DEF Login, Others, Same
    <3>3. QED
      BY <3>1, <3>2
  <2>4. \A q \in Procs : Login(q, Entering)' => Login(q, Pending)'
    BY DEF Login, Pending
  <2>5. \A q \in Procs : Login(q, Entering)' => call'[q].tok \notin opened'
    BY <2>1, <2>2, <2>3, <2>4 DEF EnterInv
  <2>6. QED
    BY <2>2, <2>3, <2>5 DEF EnterInv
<1>5. QED
  BY <1>1, <1>2, <1>3, <1>4 DEF Set

LEMMA EnterRest ==
    ASSUME TypeInv, EnterInv, NEW p \in Procs,
           Prune(p) \/ Delete(p) \/ DeleteAccount(p) \/ Refresh(p) \/ Touch(p)
    PROVE  EnterInv'
<1>P. \A pc \in {"list", "d_get", "d_del", "d_srem", "d_srem_account"} : pc \notin Pending
  BY DEF Pending, Entering
<1> USE <1>P, EnterMove
<1>1. CASE PruneRead(p)
  BY <1>1, PruneReadStep DEF PruneRead, Becomes, redis, outside, history
<1>2. CASE ListGet(p)
  BY <1>2, ListGetStep DEF ListGet, Becomes, redis, outside, history
<1>3. CASE ListEnd(p)
  BY <1>3, ListEndStep DEF ListEnd, Becomes, Ends, outside, history
<1>4. ASSUME NEW t \in Tokens, BeginDelete(p, t) PROVE EnterInv'
  BY <1>4, BeginDeleteStep DEF BeginDelete, Becomes, redis, outside, history
<1>5. CASE DeleteGet(p)
  BY <1>5, DeleteGetStep DEF DeleteGet, Becomes, redis, outside, history
<1>6. CASE DeleteKey(p)
  BY <1>6, DeleteKeyStep DEF DeleteKey, Becomes, outside
<1>7. CASE DeleteSRem(p)
  BY <1>7, DeleteSRemStep DEF DeleteSRem, Becomes, Ends, outside, history
<1>8. CASE DeleteSRemAccount(p)
  BY <1>8, DeleteSRemAccountStep DEF DeleteSRemAccount, Becomes, Ends, outside, history
<1>9. CASE BeginDeleteAccount(p)
  BY <1>9, BeginDeleteAccountStep DEF BeginDeleteAccount, Becomes, redis, outside, history
<1>10. CASE DeleteAccountKeys(p)
  BY <1>10, DeleteAccountKeysStep DEF DeleteAccountKeys, Becomes, outside
<1>11. CASE DeleteAccountSRem(p)
  BY <1>11, DeleteAccountSRemStep DEF DeleteAccountSRem, outside, history
<1>12. CASE BeginRefresh(p)
  BY <1>12, BeginRefreshStep DEF BeginRefresh, Becomes
<1>13. CASE RefreshRead(p)
  BY <1>13, RefreshReadStep DEF RefreshRead, Becomes, redis, outside, history
<1>14. CASE Factory(p)
  BY <1>14, FactoryStep DEF Factory, Becomes, redis, outside, history
<1>15. CASE RefreshWrite(p)
  BY <1>15, RefreshWriteStep DEF RefreshWrite, outside
<1>16. ASSUME NEW t \in Tokens, Request(p, t) PROVE EnterInv'
  BY <1>16, RequestStep DEF Request, Becomes, redis, outside, history
<1>17. CASE TouchRead(p)
  BY <1>17, TouchReadStep DEF TouchRead, Becomes, redis, outside, history
<1>18. CASE TouchWrite(p)
  BY <1>18, TouchWriteStep DEF TouchWrite, outside
<1>19. QED
  BY <1>1, <1>2, <1>3, <1>4, <1>5, <1>6, <1>7, <1>8, <1>9, <1>10, <1>11, <1>12, <1>13, <1>14,
     <1>15, <1>16, <1>17, <1>18
  DEF Prune, Delete, DeleteAccount, Refresh, Touch

LEMMA EnterInductive == TypeInv /\ SeenInv /\ EnterInv /\ [Next]_vars => EnterInv'
<1> SUFFICES ASSUME TypeInv, SeenInv, EnterInv, [Next]_vars PROVE EnterInv'
  OBVIOUS
<1>1. CASE UNCHANGED vars
  BY <1>1 DEF vars, redis, outside, history, EnterInv, Login
<1>2. ASSUME NEW t \in Tokens, Expire(t) PROVE EnterInv'
  BY <1>2, ExpireStep, EnterMove, NoneAssumption DEF Expire, outside, history
<1>3. ASSUME NEW t \in Tokens, GrowIdle(t) PROVE EnterInv'
  BY <1>3, GrowIdleStep, EnterMove, NoneAssumption DEF GrowIdle, outside, history
<1>4. CASE ChangePermissions
  BY <1>4 DEF ChangePermissions, redis, history, EnterInv, Login
<1>5. QED
  BY <1>1, <1>2, <1>3, <1>4, EnterSet, EnterRest DEF Next

(***************************************************************************)
(* What a writer has read.                                                 *)
(***************************************************************************)
LEMMA FreshMove ==
    ASSUME FreshInv, NEW p, NEW T, Others(p, T),
           \A q \in Procs \ {p} : Writer(q) =>
              \A t \in Tokens \ T : call[q].has[t] # None => store'[t] = store[t],
           p \in Procs /\ call'[p] # None =>
              /\ call'[p].op \in {"touch", "refresh"} => Fresh(p)'
              /\ call'[p].op = "touch" /\ call'[p].pc = "get" => \A t \in Tokens : call'[p].has[t] = None
    PROVE  FreshInv'
<1>1. ASSUME NEW q \in Procs, Writer(q)' PROVE Fresh(q)'
  <2>1. CASE q = p
    BY <1>1, <2>1 DEF Writer
  <2>2. CASE q # p
    <3>1. /\ Writer(q) /\ call'[q].has = call[q].has /\ call'[q].op = call[q].op
          /\ call[q].stale \subseteq call'[q].stale
          /\ \A t \in T : call[q].has[t] # None => t \in call'[q].stale
      BY <1>1, <2>2 DEF Writer, Others, Same, Marked
    <3>2. Fresh(q)
      BY <3>1 DEF FreshInv
    <3>3. ASSUME NEW t \in Tokens, call'[q].has[t] # None, t \notin call'[q].stale
          PROVE  store'[t] = store[t] /\ call[q].has[t] # None /\ t \notin call[q].stale
      BY <2>2, <3>1, <3>3
    <3>4. QED
      BY <3>1, <3>2, <3>3 DEF Fresh
  <2>3. QED
    BY <2>1, <2>2
<1>2. ASSUME NEW q \in Procs, At(q, {"touch"}, "get")' PROVE \A t \in Tokens : call'[q].has[t] = None
  <2>1. CASE q = p
    BY <1>2, <2>1 DEF At
  <2>2. CASE q # p
    BY <1>2, <2>2 DEF At, Others, Same, FreshInv
  <2>3. QED
    BY <2>1, <2>2
<1>3. QED
  BY <1>1, <1>2 DEF FreshInv

\* A step of a handler that is no writer, and leaves the sessions alone but for T.
LEMMA FreshPass ==
    ASSUME FreshInv, NEW p, NEW T, Others(p, T), \A t \in Tokens \ T : store'[t] = store[t],
           p \in Procs /\ call'[p] # None => call'[p].op \notin {"touch", "refresh"}
    PROVE  FreshInv'
BY FreshMove

LEMMA FreshLogin ==
    ASSUME TypeInv, SeenInv, FreshInv, NEW p \in Procs, Set(p) \/ Prune(p) PROVE FreshInv'
<1>1. CASE BeginLogin(p)
  BY <1>1, BeginLoginStep, FreshPass DEF BeginLogin, Becomes, redis
<1>2. CASE SetEx(p)
  <2>1. Login(p, {"setex"}) /\ call[p].tok \in Tokens
    BY <1>2, SetExStep
  <2>2. ASSUME NEW q \in Procs, Writer(q), NEW t \in Tokens, call[q].has[t] # None
        PROVE  store'[t] = store[t]
    <3>1. Seen(t)
      BY <2>2, SeenHere DEF Writer
    <3>2. t # call[p].tok
      BY <2>1, <3>1 DEF Seen
    <3>3. QED
      BY <1>2, <2>1, <3>2 DEF SetEx, TypeInv
  <2>3. QED
    BY <1>2, <2>2, SetExStep, FreshMove DEF Becomes
<1>3. CASE SAddAccount(p)
  BY <1>3, SAddAccountStep, FreshPass DEF SAddAccount, Becomes
<1>4. CASE SAddAll(p)
  BY <1>4, SAddAllStep, FreshPass DEF SAddAll, At, Becomes
<1>5. CASE PruneRead(p)
  BY <1>5, PruneReadStep, FreshPass DEF PruneRead, At, Becomes, redis
<1>6. CASE ListGet(p)
  BY <1>6, ListGetStep, FreshPass DEF ListGet, At, Becomes, redis
<1>7. CASE ListEnd(p)
  BY <1>7, ListEndStep, FreshPass DEF ListEnd, Ends, Becomes
<1>8. QED
  BY <1>1, <1>2, <1>3, <1>4, <1>5, <1>6, <1>7 DEF Set, Prune

LEMMA FreshDelete ==
    ASSUME TypeInv, FreshInv, NEW p \in Procs, Delete(p) \/ DeleteAccount(p) PROVE FreshInv'
<1>1. ASSUME NEW t \in Tokens, BeginDelete(p, t) PROVE FreshInv'
  BY <1>1, BeginDeleteStep, FreshPass DEF BeginDelete, Becomes, redis
<1>2. CASE DeleteGet(p)
  BY <1>2, DeleteGetStep, FreshPass DEF DeleteGet, At, Becomes, redis
<1>3. CASE DeleteKey(p)
  BY <1>3, DeleteKeyStep, FreshPass DEF DeleteKey, Deleting, Becomes, TypeInv
<1>4. CASE DeleteSRem(p)
  BY <1>4, DeleteSRemStep, FreshPass DEF DeleteSRem, Deleting, Ends, Becomes
<1>5. CASE DeleteSRemAccount(p)
  BY <1>5, DeleteSRemAccountStep, FreshPass DEF DeleteSRemAccount, Deleting, Ends, Becomes
<1>6. CASE BeginDeleteAccount(p)
  BY <1>6, BeginDeleteAccountStep, FreshPass DEF BeginDeleteAccount, Becomes, redis
<1>7. CASE DeleteAccountKeys(p)
  BY <1>7, DeleteAccountKeysStep, FreshPass DEF DeleteAccountKeys, Becomes
<1>8. CASE DeleteAccountSRem(p)
  BY <1>8, DeleteAccountSRemStep, FreshPass DEF DeleteAccountSRem
<1>9. QED
  BY <1>1, <1>2, <1>3, <1>4, <1>5, <1>6, <1>7, <1>8 DEF Delete, DeleteAccount

LEMMA FreshRefresh == ASSUME TypeInv, FreshInv, NEW p \in Procs, Refresh(p) PROVE FreshInv'
<1>N. \A t \in Tokens : NoPayloads[t] = None
  BY DEF NoPayloads
<1>1. CASE BeginRefresh(p)
  <2>1. Others(p, {}) /\ store' = store
    BY <1>1, BeginRefreshStep DEF BeginRefresh, redis
  <2>2. call'[p] # None => call'[p].op = "refresh" /\ call'[p].has = NoPayloads
    BY <1>1, BeginRefreshStep DEF Becomes
  <2>3. call'[p] # None => Fresh(p)'
    BY <1>N, <2>2 DEF Fresh
  <2>4. QED
    BY <2>1, <2>2, <2>3, FreshMove
<1>2. CASE RefreshRead(p)
  <2>1. Others(p, {}) /\ store' = store
    BY <1>2, RefreshReadStep DEF RefreshRead, redis
  <2>2. call'[p] # None => call'[p].op = "refresh" /\ Fresh(p)'
    BY <1>2, <2>1, RefreshReadStep DEF Becomes, Fresh
  <2>3. QED
    BY <2>1, <2>2, FreshMove
<1>3. CASE Factory(p)
  <2>1. Others(p, {}) /\ store' = store
    BY <1>3, FactoryStep DEF Factory, redis
  <2>2. Fresh(p) /\ call[p].todo \subseteq Tokens
    BY <1>3, InFlight DEF Factory, At, Writer, FreshInv
  <2>3. call'[p].op = "refresh" /\ Fresh(p)'
    BY <1>3, <2>1, <2>2, FactoryStep DEF Becomes, Fresh
  <2>4. QED
    BY <2>1, <2>3, FreshMove
<1>4. CASE RefreshWrite(p)
  BY <1>4, RefreshWriteStep, FreshPass
<1>5. QED
  BY <1>1, <1>2, <1>3, <1>4 DEF Refresh

LEMMA FreshTouch == ASSUME TypeInv, FreshInv, NEW p \in Procs, Touch(p) PROVE FreshInv'
<1>N. \A t \in Tokens : NoPayloads[t] = None
  BY DEF NoPayloads
<1>1. ASSUME NEW t \in Tokens, Request(p, t) PROVE FreshInv'
  BY <1>1, <1>N, RequestStep, FreshMove DEF Request, Becomes, Fresh, redis
<1>2. CASE TouchRead(p)
  <2>1. Others(p, {}) /\ store' = store
    BY <1>2, TouchReadStep DEF TouchRead, redis
  <2>2. At(p, {"touch"}, "get")
    BY <1>2 DEF TouchRead
  <2>3. call[p].tok \in Tokens /\ \A t \in Tokens : call[p].has[t] = None
    BY <2>2, InFlight DEF FreshInv
  <2>4. store[call[p].tok] # None => store[call[p].tok].idle \in BOOLEAN
    BY <2>3 DEF TypeInv, Payloads
  <2>5. call'[p] # None =>
           /\ call'[p].op = "touch" /\ call'[p].pc = "setex" /\ store[call[p].tok] # None
           /\ \A u \in Tokens \ {call[p].tok} : call'[p].has[u] = None
           /\ call'[p].has[call[p].tok].idle = FALSE
           /\ call'[p].has[call[p].tok].perms = store[call[p].tok].perms
    BY <1>2, <2>3, TouchReadStep DEF Becomes
  <2>6. call'[p] # None => call'[p].stale = IF store[call[p].tok].idle THEN {call[p].tok} ELSE {}
    BY <1>2, TouchReadStep DEF Becomes
  <2>7. ASSUME call'[p] # None, call[p].tok \notin call'[p].stale PROVE store[call[p].tok].idle = FALSE
    BY <2>4, <2>5, <2>6, <2>7
  <2>8. call'[p] # None => Fresh(p)'
    BY <2>1, <2>5, <2>7 DEF Fresh
  <2>9. QED
    BY <2>1, <2>5, <2>8, FreshMove
<1>3. CASE TouchWrite(p)
  BY <1>3, TouchWriteStep, FreshPass DEF TouchWrite, TypeInv
<1>4. QED
  BY <1>1, <1>2, <1>3 DEF Touch

LEMMA FreshInductive == TypeInv /\ SeenInv /\ FreshInv /\ [Next]_vars => FreshInv'
<1> SUFFICES ASSUME TypeInv, SeenInv, FreshInv, [Next]_vars PROVE FreshInv'
  OBVIOUS
<1>1. CASE UNCHANGED vars
  BY <1>1 DEF vars, redis, FreshInv, Fresh, Writer, At
<1>2. ASSUME NEW t \in Tokens, Expire(t) PROVE FreshInv'
  BY <1>2, ExpireStep, FreshPass, NoneAssumption
<1>3. ASSUME NEW t \in Tokens, GrowIdle(t) PROVE FreshInv'
  BY <1>3, GrowIdleStep, FreshPass, NoneAssumption
<1>4. CASE ChangePermissions
  BY <1>4 DEF ChangePermissions, redis, FreshInv, Fresh, Writer, At
<1>5. QED
  BY <1>1, <1>2, <1>3, <1>4, FreshLogin, FreshDelete, FreshRefresh, FreshTouch DEF Next

(***************************************************************************)
(* Revoked sessions and the account's index.                               *)
(***************************************************************************)
LEMMA DeadMove ==
    ASSUME TypeInv, SeenInv, DeadInv, NEW p, NEW T, Others(p, T),
           raced \subseteq raced', revoked \subseteq revoked',
           \A t \in Tokens : Seen(t) /\ store'[t] # None => store[t] # None \/ t \in raced',
           \A t \in revoked' \ revoked : store'[t] # None => t \in raced',
           p \in Procs /\ call'[p] # None =>
              /\ call'[p].op = "delete_account" /\ call'[p].pc = "da_del" =>
                    \A t \in call'[p].known \ call'[p].todo : store'[t] # None => t \in raced'
              /\ call'[p].pc \in {"d_srem", "d_srem_account"} => call'[p].tok \in revoked'
    PROVE  DeadInv'
<1>1. ASSUME NEW t \in revoked', store'[t] # None PROVE t \in raced'
  <2>1. CASE t \in revoked
    <3>1. t \in Tokens /\ Seen(t)
      BY <2>1 DEF TypeInv, SeenInv
    <3>2. QED
      BY <1>1, <2>1, <3>1 DEF DeadInv, RevokedStaysDead
  <2>2. QED
    BY <1>1, <2>1
<1>2. ASSUME NEW q \in Procs, At(q, {"delete_account"}, "da_del")',
             NEW t \in call'[q].known \ call'[q].todo, store'[t] # None
      PROVE  t \in raced'
  <2>1. CASE q = p
    BY <1>2, <2>1 DEF At
  <2>2. CASE q # p
    <3>1. /\ At(q, {"delete_account"}, "da_del") /\ call[q] # None
          /\ call'[q].known = call[q].known /\ call'[q].todo = call[q].todo
      BY <1>2, <2>2 DEF At, Others, Same
    <3>2. t \in Tokens /\ Seen(t)
      BY <1>2, <3>1, InFlight, SeenHere
    <3>3. QED
      BY <1>2, <3>1, <3>2 DEF DeadInv
  <2>3. QED
    BY <2>1, <2>2
<1>3. ASSUME NEW q \in Procs, call'[q] # None, call'[q].pc \in {"d_srem", "d_srem_account"}
      PROVE  call'[q].tok \in revoked'
  <2>1. CASE q = p
    BY <1>3, <2>1
  <2>2. CASE q # p
    BY <1>3, <2>2 DEF Others, Same, DeadInv
  <2>3. QED
    BY <2>1, <2>2
<1>4. QED
  BY <1>1, <1>2, <1>3 DEF DeadInv, RevokedStaysDead

LEMMA IndexMove ==
    ASSUME IndexInv, NEW p, NEW T, Others(p, T), raced \subseteq raced',
           \A t \in Tokens \ raced' : store'[t] # None =>
              \/ store[t] # None \/ t \in account'
              \/ /\ p \in Procs /\ call'[p] # None /\ call'[p].op = "login" /\ call'[p].pc = "sadd"
                 /\ call'[p].tok = t,
           \A t \in Tokens \ raced' : t \in account /\ store'[t] # None => t \in account',
           p \in Procs /\ call[p] # None /\ call[p].op = "login" /\ call[p].pc = "sadd" =>
              call[p].tok \in account'
    PROVE  IndexInv'
<1>1. ASSUME NEW t \in Tokens \ raced', store'[t] # None, t \notin account'
      PROVE  \E q \in Procs : Login(q, {"sadd"})' /\ call'[q].tok = t
  <2>1. CASE /\ p \in Procs /\ call'[p] # None /\ call'[p].op = "login" /\ call'[p].pc = "sadd"
             /\ call'[p].tok = t
    BY <2>1 DEF Login
  <2>2. CASE store[t] # None
    <3>1. t \in Tokens \ raced /\ t \notin account
      BY <1>1
    <3>2. PICK q \in Procs : Login(q, {"sadd"}) /\ call[q].tok = t
      BY <2>2, <3>1 DEF IndexInv
    <3>3. q # p
      BY <1>1, <3>2 DEF Login
    <3>4. Login(q, {"sadd"})' /\ call'[q].tok = t
      BY <3>2, <3>3 DEF Login, Others, Same
    <3>5. QED
      BY <3>4
  <2>3. QED
    BY <1>1, <2>1, <2>2
<1>2. QED
  BY <1>1 DEF IndexInv

\* A step of p that leaves the sessions, the index and the histories alone.
LEMMA GuardPass ==
    ASSUME TypeInv, SeenInv, DeadInv, IndexInv, NEW p, NEW T, Others(p, T),
           UNCHANGED <<store, account, revoked, raced>>,
           p \in Procs /\ call[p] # None => ~(call[p].op = "login" /\ call[p].pc = "sadd"),
           p \in Procs /\ call'[p] # None =>
              call'[p].pc \notin {"da_del", "d_srem", "d_srem_account"}
    PROVE  DeadInv' /\ IndexInv'
<1>1. DeadInv'
  BY DeadMove
<1>2. IndexInv'
  BY IndexMove
<1>3. QED
  BY <1>1, <1>2

Guarded == TypeInv /\ SeenInv /\ EnterInv /\ FreshInv /\ DeadInv /\ IndexInv

LEMMA GuardLogin ==
    ASSUME Guarded, NEW p \in Procs, Set(p) \/ Prune(p) PROVE DeadInv' /\ IndexInv'
<1> USE DEF Guarded
<1>1. CASE BeginLogin(p)
  BY <1>1, BeginLoginStep, GuardPass DEF BeginLogin, Becomes, redis, history
<1>2. CASE SetEx(p)
  <2>1. Login(p, {"setex"}) /\ call[p].tok \in Tokens
    BY <1>2, SetExStep
  <2>2. /\ call'[p] # None /\ call'[p].op = "login" /\ call'[p].pc = "sadd"
        /\ call'[p].tok = call[p].tok /\ Others(p, {})
    BY <1>2, SetExStep DEF Becomes
  <2>3. UNCHANGED <<account, revoked, raced>> /\ \A t \in Tokens \ {call[p].tok} : store'[t] = store[t]
    BY <1>2 DEF SetEx, history, TypeInv
  <2>4. ~Seen(call[p].tok)
    BY <2>1 DEF Seen
  <2>5. DeadInv'
    BY <2>2, <2>3, <2>4, DeadMove
  <2>6. call[p].pc # "sadd"
    BY <2>1 DEF Login
  <2>7. IndexInv'
    BY <2>2, <2>3, <2>6, IndexMove
  <2>8. QED
    BY <2>5, <2>7
<1>3. CASE SAddAccount(p)
  <2>1. /\ call'[p].pc = "sadd_all" /\ Others(p, {}) /\ UNCHANGED <<store, revoked, raced>>
        /\ account' = account \cup {call[p].tok}
    BY <1>3, SAddAccountStep DEF SAddAccount, Becomes, history
  <2>2. DeadInv'
    BY <2>1, DeadMove
  <2>3. IndexInv'
    BY <2>1, IndexMove
  <2>4. QED
    BY <2>2, <2>3
<1>4. CASE SAddAll(p)
  BY <1>4, SAddAllStep, GuardPass DEF SAddAll, At, Becomes
<1>5. CASE PruneRead(p)
  BY <1>5, PruneReadStep, GuardPass DEF PruneRead, At, Becomes, redis, history
<1>6. CASE ListGet(p)
  BY <1>6, ListGetStep, GuardPass DEF ListGet, At, Becomes, redis, history
<1>7. CASE ListEnd(p)
  BY <1>7, ListEndStep, GuardPass DEF ListEnd, At, Ends, Becomes, history
<1>8. QED
  BY <1>1, <1>2, <1>3, <1>4, <1>5, <1>6, <1>7 DEF Set, Prune

LEMMA GuardDelete == ASSUME Guarded, NEW p \in Procs, Delete(p) PROVE DeadInv' /\ IndexInv'
<1> USE DEF Guarded
<1>1. ASSUME NEW t \in Tokens, BeginDelete(p, t) PROVE DeadInv' /\ IndexInv'
  BY <1>1, BeginDeleteStep, GuardPass DEF BeginDelete, Becomes, redis, history
<1>2. CASE DeleteGet(p)
  BY <1>2, DeleteGetStep, GuardPass DEF DeleteGet, At, Becomes, redis, history
<1>3. CASE DeleteKey(p)
  <2>1. /\ Others(p, {call[p].tok}) /\ call[p].pc = "d_del" /\ call[p].tok \in Tokens
        /\ call'[p].pc = "d_srem" /\ call'[p].tok = call[p].tok /\ call[p] # None
    BY <1>3, DeleteKeyStep DEF Becomes, Deleting
  <2>2. /\ revoked' = revoked \cup {call[p].tok} /\ UNCHANGED <<account, raced>>
        /\ store'[call[p].tok] = None /\ \A t \in Tokens \ {call[p].tok} : store'[t] = store[t]
    BY <1>3, <2>1 DEF DeleteKey, TypeInv
  <2>3. DeadInv'
    BY <2>1, <2>2, DeadMove
  <2>4. IndexInv'
    BY <2>1, <2>2, IndexMove
  <2>5. QED
    BY <2>3, <2>4
<1>4. CASE DeleteSRem(p)
  <2>1. /\ Others(p, {}) /\ call[p].pc = "d_srem" /\ call[p] # None
        /\ UNCHANGED <<store, account, revoked, raced>>
    BY <1>4, DeleteSRemStep DEF DeleteSRem, Deleting, history
  <2>2. call[p].tok \in revoked
    BY <2>1 DEF DeadInv
  <2>3. call'[p] # None => call'[p].pc \in {"d_srem_account", "d_get"}
                           /\ (call'[p].pc = "d_srem_account" => call'[p].tok = call[p].tok)
    BY <1>4, DeleteSRemStep DEF Ends, Becomes
  <2>4. DeadInv'
    BY <2>1, <2>2, <2>3, DeadMove
  <2>5. IndexInv'
    BY <2>1, IndexMove
  <2>6. QED
    BY <2>4, <2>5
<1>5. CASE DeleteSRemAccount(p)
  <2>1. /\ Others(p, {}) /\ call[p].pc = "d_srem_account" /\ call[p] # None
        /\ UNCHANGED <<store, revoked, raced>> /\ account' = account \ {call[p].tok}
    BY <1>5, DeleteSRemAccountStep DEF DeleteSRemAccount, Deleting, history
  <2>2. store[call[p].tok] # None => call[p].tok \in raced
    BY <2>1 DEF DeadInv, RevokedStaysDead
  <2>3. call'[p] # None => call'[p].pc = "d_get"
    BY <1>5, DeleteSRemAccountStep DEF Ends, Becomes
  <2>4. DeadInv'
    BY <2>1, <2>3, DeadMove
  <2>5. IndexInv'
    BY <2>1, <2>2, IndexMove
  <2>6. QED
    BY <2>4, <2>5
<1>6. QED
  BY <1>1, <1>2, <1>3, <1>4, <1>5 DEF Delete

LEMMA GuardDeleteAccount ==
    ASSUME Guarded, NEW p \in Procs, DeleteAccount(p) PROVE DeadInv' /\ IndexInv'
<1> USE DEF Guarded
<1>1. CASE BeginDeleteAccount(p)
  <2>1. /\ Others(p, {}) /\ UNCHANGED <<store, account, revoked, raced>> /\ call[p] = None
        /\ call'[p].pc = "da_del" /\ call'[p].known = opened /\ call'[p].todo = account
    BY <1>1, BeginDeleteAccountStep DEF BeginDeleteAccount, Free, Becomes, redis, history
  <2>2. ASSUME NEW t \in opened \ account, store[t] # None PROVE t \in raced
    <3>1. \A q \in Procs : Login(q, {"sadd"}) => call[q].tok # t
      BY <2>2 DEF EnterInv, Login, Entering
    <3>2. QED
      BY <2>2, <3>1 DEF IndexInv, TypeInv
  <2>3. DeadInv'
    BY <2>1, <2>2, DeadMove
  <2>4. IndexInv'
    BY <2>1, IndexMove
  <2>5. QED
    BY <2>3, <2>4
<1>2. CASE DeleteAccountKeys(p)
  <2>1. /\ Others(p, call[p].todo) /\ At(p, {"delete_account"}, "da_del")
        /\ call[p].todo \subseteq Tokens /\ call[p].known \subseteq Tokens /\ call'[p].pc = "da_srem"
    BY <1>2, DeleteAccountKeysStep DEF Becomes
  <2>2. /\ \A t \in call[p].todo : store'[t] = None
        /\ \A t \in Tokens \ call[p].todo : store'[t] = store[t]
        /\ account' = {} /\ revoked' = revoked \cup call[p].known
        /\ raced' = raced \cup (account \ call[p].todo)
    BY <1>2, <2>1 DEF DeleteAccountKeys
  <2>3. \A t \in call[p].known \ call[p].todo : store[t] # None => t \in raced
    BY <2>1 DEF DeadInv
  <2>4. DeadInv'
    BY <2>1, <2>2, <2>3, DeadMove
  <2>5. IndexInv'
    BY <2>1, <2>2, IndexMove DEF At
  <2>6. QED
    BY <2>4, <2>5
<1>3. CASE DeleteAccountSRem(p)
  BY <1>3, DeleteAccountSRemStep, GuardPass DEF DeleteAccountSRem, At, history
<1>4. QED
  BY <1>1, <1>2, <1>3 DEF DeleteAccount

LEMMA GuardRefresh == ASSUME Guarded, NEW p \in Procs, Refresh(p) PROVE DeadInv' /\ IndexInv'
<1> USE DEF Guarded
<1>1. CASE BeginRefresh(p)
  <2>1. /\ Others(p, {}) /\ UNCHANGED <<store, account, revoked>> /\ call[p] = None
        /\ raced \subseteq raced' /\ (call'[p] # None => call'[p].pc = "mget")
    BY <1>1, BeginRefreshStep DEF BeginRefresh, Becomes, redis
  <2>2. DeadInv'
    BY <2>1, DeadMove
  <2>3. IndexInv'
    BY <2>1, IndexMove
  <2>4. QED
    BY <2>2, <2>3
<1>2. CASE RefreshRead(p)
  BY <1>2, RefreshReadStep, GuardPass DEF RefreshRead, At, Becomes, redis, history
<1>3. CASE Factory(p)
  BY <1>3, FactoryStep, GuardPass DEF Factory, At, Becomes, redis, history
<1>4. CASE RefreshWrite(p)
  <2>1. /\ Others(p, New(p)) /\ At(p, {"refresh"}, "factory") /\ call'[p] = None
        /\ account' = account \cup New(p) /\ raced' = raced \cup call[p].stale
        /\ revoked' = revoked /\ \A t \in Tokens \ New(p) : store'[t] = store[t]
    BY <1>4, RefreshWriteStep DEF RefreshWrite
  <2>2. \A t \in New(p) : store[t] # None \/ t \in raced'
    BY <2>1 DEF FreshInv, Fresh, Writer, At, New
  <2>3. DeadInv'
    BY <2>1, <2>2, DeadMove
  <2>4. IndexInv'
    BY <2>1, IndexMove DEF At
  <2>5. QED
    BY <2>3, <2>4
<1>5. QED
  BY <1>1, <1>2, <1>3, <1>4 DEF Refresh

LEMMA GuardTouch == ASSUME Guarded, NEW p \in Procs, Touch(p) PROVE DeadInv' /\ IndexInv'
<1> USE DEF Guarded
<1>1. ASSUME NEW t \in Tokens, Request(p, t) PROVE DeadInv' /\ IndexInv'
  BY <1>1, RequestStep, GuardPass DEF Request, Becomes, redis, history
<1>2. CASE TouchRead(p)
  BY <1>2, TouchReadStep, GuardPass DEF TouchRead, At, Becomes, redis, history
<1>3. CASE TouchWrite(p)
  <2> DEFINE tok == call[p].tok
  <2>1. /\ Others(p, {tok}) /\ At(p, {"touch"}, "setex") /\ call'[p] = None /\ tok \in Tokens
        /\ UNCHANGED <<account, revoked>> /\ raced' = raced \cup call[p].stale
        /\ store'[tok] = call[p].has[tok] /\ \A t \in Tokens \ {tok} : store'[t] = store[t]
    BY <1>3, TouchWriteStep DEF TouchWrite, TypeInv
  <2>2. store'[tok] # None => store[tok] # None \/ tok \in raced'
    BY <2>1 DEF FreshInv, Fresh, Writer, At
  <2>3. DeadInv'
    BY <2>1, <2>2, DeadMove
  <2>4. IndexInv'
    BY <2>1, <2>2, IndexMove DEF At
  <2>5. QED
    BY <2>3, <2>4
<1>4. QED
  BY <1>1, <1>2, <1>3 DEF Touch

LEMMA GuardInductive == Guarded /\ [Next]_vars => Guarded'
<1> SUFFICES ASSUME Guarded, [Next]_vars PROVE Guarded'
  OBVIOUS
<1>1. TypeInv' /\ SeenInv' /\ EnterInv' /\ FreshInv'
  BY TypeInductive, SeenInductive, EnterInductive, FreshInductive DEF Guarded
<1>2. CASE UNCHANGED vars
  BY <1>1, <1>2 DEF vars, redis, history, Guarded, DeadInv, RevokedStaysDead, IndexInv, Login, At
<1>3. ASSUME NEW t \in Tokens, Expire(t) \/ GrowIdle(t) PROVE DeadInv' /\ IndexInv'
  <2>1. /\ Others(None, {t}) /\ \A u \in Tokens : store'[u] # None => store[u] # None
    BY <1>3, ExpireStep, GrowIdleStep DEF Guarded
  <2>2. UNCHANGED <<account, revoked, raced>>
    BY <1>3 DEF Expire, GrowIdle, history
  <2>3. DeadInv'
    BY <2>1, <2>2, DeadMove, NoneAssumption DEF Guarded
  <2>4. IndexInv'
    BY <2>1, <2>2, IndexMove, NoneAssumption DEF Guarded
  <2>5. QED
    BY <2>3, <2>4
<1>4. CASE ChangePermissions
  BY <1>1, <1>4 DEF ChangePermissions, redis, history, Guarded, DeadInv, RevokedStaysDead, IndexInv, Login, At
<1>5. ASSUME NEW p \in Procs, Set(p) \/ Prune(p) \/ Delete(p) \/ DeleteAccount(p) \/ Refresh(p) \/ Touch(p)
      PROVE  DeadInv' /\ IndexInv'
  BY <1>5, GuardLogin, GuardDelete, GuardDeleteAccount, GuardRefresh, GuardTouch
<1>6. QED
  BY <1>1, <1>2, <1>3, <1>4, <1>5 DEF Next, Guarded

LEMMA InitGuarded == Init => Guarded
<1> SUFFICES ASSUME Init PROVE Guarded
  OBVIOUS
<1>1. \A t \in Tokens : store[t] = None
  BY DEF Init, NoPayloads
<1>2. \A p \in Procs : call[p] = None
  BY DEF Init
<1>3. QED
  BY <1>1, <1>2, InitType DEF Init, Guarded, SeenInv, EnterInv, FreshInv, DeadInv, RevokedStaysDead,
     IndexInv, Login, Writer, At

\* A session that was logged out, pruned, or open when an account-wide log-out
\* began never authenticates again, unless one of the three windows of
\* session.py let a handler write it back: for every number of handlers,
\* logins and permission changes.
THEOREM RevocationHolds == Spec => []RevokedStaysDead
<1>1. Guarded => RevokedStaysDead
  BY DEF Guarded, DeadInv
<1>2. QED
  BY <1>1, InitGuarded, GuardInductive, PTL DEF Spec

\* Every live session outside the three windows is in its account's index, so
\* that delete_accounts_sessions, refresh_accounts_sessions and
\* prune_excess_sessions reach it.
THEOREM SessionsFindable == Spec => []Findable
<1>1. Guarded => Findable
  <2> SUFFICES ASSUME Guarded, NEW t \in opened \ raced, store[t] # None PROVE t \in account
    BY DEF Findable
  <2>1. \A q \in Procs : Login(q, {"sadd"}) => call[q].tok # t
    BY DEF Guarded, EnterInv, Login, Entering
  <2>2. QED
    BY <2>1 DEF Guarded, IndexInv, TypeInv
<1>2. QED
  BY <1>1, InitGuarded, GuardInductive, PTL DEF Spec

(***************************************************************************)
(* Permissions.                                                            *)
(***************************************************************************)
\* A refresh that does not take the step goes on covering what it covered.
LEMMA CoverKept ==
    ASSUME NEW p, NEW T, Others(p, T), perms' = perms, refresh_due' = refresh_due,
           NEW t, Covered(t), p \in Procs /\ Covers(p, t) => Covered(t)'
    PROVE  Covered(t)'
<1>1. CASE refresh_due
  BY <1>1 DEF Covered
<1>2. CASE \E q \in Procs : Covers(q, t)
  <2>1. PICK q \in Procs : Covers(q, t)
    BY <1>2
  <2>2. CASE q = p
    BY <2>1, <2>2
  <2>3. CASE q # p
    <3>1. /\ call[q] # None /\ call'[q] # None /\ call'[q].op = call[q].op /\ call'[q].pc = call[q].pc
          /\ call'[q].todo = call[q].todo /\ call'[q].has = call[q].has
          /\ call[q].stale \subseteq call'[q].stale
      BY <2>1, <2>3 DEF Others, Same, Covers
    <3>2. Covers(q, t)'
      BY <2>1, <3>1 DEF Covers
    <3>3. QED
      BY <3>2 DEF Covered
  <2>4. QED
    BY <2>2, <2>3
<1>3. QED
  BY <1>1, <1>2 DEF Covered

\* What the step leaves of PermInv to the refreshes and logins that do not
\* take it.
LEMMA PermOthers ==
    ASSUME PermInv, NEW p, NEW T, Others(p, T), perms' = perms, refresh_due' = refresh_due,
           raced \subseteq raced',
           \A t \in Tokens \ raced' : \A q \in Procs \ {p} :
              At(q, {"refresh"}, "factory") /\ call[q].has[t] # None /\ t \notin call'[q].stale /\ Covered(t)
                 => Covered(t)'
    PROVE  /\ \A q \in Procs \ {p} : At(q, {"refresh"}, "factory")' =>
                 \A t \in Tokens \ (raced' \cup call'[q].stale \cup call'[q].todo) :
                    call'[q].has[t] # None => call'[q].has[t].perms = perms' \/ Covered(t)'
           /\ \A q \in Procs \ {p} : Login(q, {"setex"})' =>
                 \/ refresh_due' \/ call'[q].tok \in raced'
                 \/ call'[q].has[call'[q].tok].perms = perms'
<1>1. ASSUME NEW q \in Procs \ {p}, At(q, {"refresh"}, "factory")',
             NEW t \in Tokens \ (raced' \cup call'[q].stale \cup call'[q].todo), call'[q].has[t] # None
      PROVE  call'[q].has[t].perms = perms' \/ Covered(t)'
  <2>1. /\ At(q, {"refresh"}, "factory") /\ call'[q].has = call[q].has /\ call'[q].todo = call[q].todo
        /\ call[q].stale \subseteq call'[q].stale
    BY <1>1 DEF At, Others, Same
  <2>2. call[q].has[t].perms = perms \/ Covered(t)
    BY <1>1, <2>1 DEF PermInv
  <2>3. QED
    BY <1>1, <2>1, <2>2
<1>2. ASSUME NEW q \in Procs \ {p}, Login(q, {"setex"})'
      PROVE  \/ refresh_due' \/ call'[q].tok \in raced'
             \/ call'[q].has[call'[q].tok].perms = perms'
  <2>1. Login(q, {"setex"}) /\ call'[q].tok = call[q].tok /\ call'[q].has = call[q].has
    BY <1>2 DEF Login, Others, Same
  <2>2. QED
    BY <2>1 DEF PermInv
<1>3. QED
  BY <1>1, <1>2

\* A step of a handler that is no refresh.
LEMMA PermMove ==
    ASSUME PermInv, NEW p, NEW T, Others(p, T), perms' = perms, refresh_due' = refresh_due,
           raced \subseteq raced',
           \A t \in Tokens \ raced' : store'[t] # None =>
              \/ store[t] # None /\ store'[t].perms = store[t].perms
              \/ store'[t].perms = perms \/ refresh_due,
           p \in Procs /\ call[p] # None => call[p].op # "refresh",
           p \in Procs /\ call'[p] # None =>
              /\ call'[p].op # "refresh"
              /\ call'[p].op = "login" /\ call'[p].pc = "setex" => call'[p].has[call'[p].tok].perms = perms
    PROVE  PermInv'
<1>1. ASSUME NEW t, Covered(t) PROVE Covered(t)'
  BY <1>1, CoverKept DEF Covers
<1>2. /\ \A q \in Procs \ {p} : At(q, {"refresh"}, "factory")' =>
            \A t \in Tokens \ (raced' \cup call'[q].stale \cup call'[q].todo) :
               call'[q].has[t] # None => call'[q].has[t].perms = perms' \/ Covered(t)'
      /\ \A q \in Procs \ {p} : Login(q, {"setex"})' =>
            \/ refresh_due' \/ call'[q].tok \in raced'
            \/ call'[q].has[call'[q].tok].perms = perms'
  BY <1>1, PermOthers
<1>3. ASSUME NEW t \in Tokens \ raced', store'[t] # None PROVE store'[t].perms = perms' \/ Covered(t)'
  <2>1. refresh_due => Covered(t)
    BY DEF Covered
  <2>2. QED
    BY <1>1, <1>3, <2>1 DEF PermInv
<1>4. p \in Procs => ~At(p, {"refresh"}, "factory")'
  BY DEF At
<1>5. p \in Procs /\ Login(p, {"setex"})' => call'[p].has[call'[p].tok].perms = perms'
  BY DEF Login
<1>6. QED
  BY <1>2, <1>3, <1>4, <1>5 DEF PermInv

\* ... that leaves the sessions alone too.
LEMMA PermPass ==
    ASSUME PermInv, NEW p, NEW T, Others(p, T), UNCHANGED <<store, perms, refresh_due, raced>>,
           p \in Procs /\ call[p] # None => call[p].op # "refresh",
           p \in Procs /\ call'[p] # None =>
              call'[p].op # "refresh" /\ ~(call'[p].op = "login" /\ call'[p].pc = "setex")
    PROVE  PermInv'
BY PermMove

LEMMA PermLogin ==
    ASSUME Guarded, PermInv, NEW p \in Procs, Set(p) \/ Prune(p) PROVE PermInv'
<1> USE DEF Guarded
<1>1. CASE BeginLogin(p)
  <2>1. /\ Others(p, {}) /\ call[p] = None /\ UNCHANGED <<store, perms, refresh_due, raced>>
    BY <1>1, BeginLoginStep DEF BeginLogin, redis, history
  <2>2. call'[p].op = "login" /\ call'[p].has[call'[p].tok] = Payload(perms)
    BY <1>1, BeginLoginStep DEF Becomes
  <2>3. Payload(perms).perms = perms
    BY DEF Payload
  <2>4. QED
    BY <2>1, <2>2, <2>3, PermMove
<1>2. CASE SetEx(p)
  <2>1. Login(p, {"setex"}) /\ call[p].tok \in Tokens /\ call[p].op = "login"
    BY <1>2, SetExStep DEF Login
  <2>2. /\ Others(p, {}) /\ call'[p].op = "login" /\ call'[p].pc = "sadd"
    BY <1>2, SetExStep DEF Becomes
  <2>3. /\ UNCHANGED <<perms, refresh_due, raced>>
        /\ store'[call[p].tok] = call[p].has[call[p].tok]
        /\ \A t \in Tokens \ {call[p].tok} : store'[t] = store[t]
    BY <1>2, <2>1 DEF SetEx, outside, history, TypeInv
  <2>4. refresh_due \/ call[p].tok \in raced \/ call[p].has[call[p].tok].perms = perms
    BY <2>1 DEF PermInv
  <2>5. QED
    BY <2>1, <2>2, <2>3, <2>4, PermMove
<1>3. CASE SAddAccount(p)
  BY <1>3, SAddAccountStep, PermPass DEF SAddAccount, At, Becomes, outside, history
<1>4. CASE SAddAll(p)
  BY <1>4, SAddAllStep, PermPass DEF SAddAll, At, Becomes, outside
<1>5. CASE PruneRead(p)
  BY <1>5, PruneReadStep, PermPass DEF PruneRead, At, Becomes, redis, outside, history
<1>6. CASE ListGet(p)
  BY <1>6, ListGetStep, PermPass DEF ListGet, At, Becomes, redis, outside, history
<1>7. CASE ListEnd(p)
  BY <1>7, ListEndStep, PermPass DEF ListEnd, At, Ends, Becomes, outside, history
<1>8. QED
  BY <1>1, <1>2, <1>3, <1>4, <1>5, <1>6, <1>7 DEF Set, Prune

LEMMA PermDelete ==
    ASSUME Guarded, PermInv, NEW p \in Procs, Delete(p) \/ DeleteAccount(p) PROVE PermInv'
<1> USE DEF Guarded
<1>1. ASSUME NEW t \in Tokens, BeginDelete(p, t) PROVE PermInv'
  BY <1>1, BeginDeleteStep, PermPass DEF BeginDelete, Becomes, redis, outside, history
<1>2. CASE DeleteGet(p)
  BY <1>2, DeleteGetStep, PermPass DEF DeleteGet, At, Becomes, redis, outside, history
<1>3. CASE DeleteKey(p)
  <2>1. /\ Others(p, {call[p].tok}) /\ call[p].op # "refresh" /\ call'[p].op = call[p].op
        /\ call'[p].pc = "d_srem" /\ call[p].tok \in Tokens
    BY <1>3, DeleteKeyStep DEF Deleting, Becomes
  <2>2. /\ UNCHANGED <<perms, refresh_due, raced>> /\ store'[call[p].tok] = None
        /\ \A t \in Tokens \ {call[p].tok} : store'[t] = store[t]
    BY <1>3, <2>1 DEF DeleteKey, TypeInv, outside
  <2>3. QED
    BY <2>1, <2>2, PermMove
<1>4. CASE DeleteSRem(p)
  BY <1>4, DeleteSRemStep, PermPass DEF DeleteSRem, Deleting, Ends, Becomes, outside, history
<1>5. CASE DeleteSRemAccount(p)
  BY <1>5, DeleteSRemAccountStep, PermPass DEF DeleteSRemAccount, Deleting, Ends, Becomes, outside, history
<1>6. CASE BeginDeleteAccount(p)
  BY <1>6, BeginDeleteAccountStep, PermPass DEF BeginDeleteAccount, Free, Becomes, redis, outside, history
<1>7. CASE DeleteAccountKeys(p)
  <2>1. /\ Others(p, call[p].todo) /\ call[p].op # "refresh" /\ call'[p].op = "delete_account"
    BY <1>7, DeleteAccountKeysStep DEF At, Becomes
  <2>2. /\ UNCHANGED <<perms, refresh_due>> /\ raced \subseteq raced'
        /\ \A t \in Tokens : store'[t] # None => store'[t] = store[t]
    BY <1>7 DEF DeleteAccountKeys, outside
  <2>3. QED
    BY <2>1, <2>2, PermMove
<1>8. CASE DeleteAccountSRem(p)
  BY <1>8, DeleteAccountSRemStep, PermPass DEF DeleteAccountSRem, At, outside, history
<1>9. QED
  BY <1>1, <1>2, <1>3, <1>4, <1>5, <1>6, <1>7, <1>8 DEF Delete, DeleteAccount

LEMMA PermTouch == ASSUME Guarded, PermInv, NEW p \in Procs, Touch(p) PROVE PermInv'
<1> USE DEF Guarded
<1>1. ASSUME NEW t \in Tokens, Request(p, t) PROVE PermInv'
  BY <1>1, RequestStep, PermPass DEF Request, Becomes, redis, outside, history
<1>2. CASE TouchRead(p)
  BY <1>2, TouchReadStep, PermPass DEF TouchRead, At, Becomes, redis, outside, history
<1>3. CASE TouchWrite(p)
  <2> DEFINE tok == call[p].tok
  <2>1. /\ Others(p, {tok}) /\ At(p, {"touch"}, "setex") /\ call'[p] = None /\ tok \in Tokens
        /\ UNCHANGED <<perms, refresh_due>> /\ raced' = raced \cup call[p].stale
        /\ store'[tok] = call[p].has[tok] /\ \A t \in Tokens \ {tok} : store'[t] = store[t]
    BY <1>3, TouchWriteStep DEF TouchWrite, TypeInv, outside
  <2>2. store'[tok] # None /\ tok \notin raced' => store[tok] # None /\ store'[tok].perms = store[tok].perms
    BY <2>1 DEF FreshInv, Fresh, Writer, At
  <2>3. QED
    BY <2>1, <2>2, PermMove DEF At
<1>4. QED
  BY <1>1, <1>2, <1>3 DEF Touch

\* The refresh that begins covers every session but the ones it races with.
LEMMA PermBegin == ASSUME Guarded, PermInv, NEW p \in Procs, BeginRefresh(p) PROVE PermInv'
<1> USE DEF Guarded
<1>1. /\ Others(p, {}) /\ store' = store /\ perms' = perms /\ account \subseteq Tokens
      /\ raced' = raced \cup (LoggingIn \ account)
      /\ \/ account = {} /\ call'[p] = None
         \/ account # {} /\ Becomes(p, "refresh", "mget", 0, account, NoPayloads, {}, {})
  BY BeginRefreshStep DEF BeginRefresh, redis, TypeInv
<1>2. ASSUME NEW t \in account PROVE Covered(t)'
  <2>1. Covers(p, t)'
    BY <1>1, <1>2 DEF Becomes, Covers
  <2>2. QED
    BY <2>1 DEF Covered
<1>3. ASSUME NEW t \in Tokens \ raced', store[t] # None PROVE t \in account
  <2>1. ASSUME NEW q \in Procs, Login(q, {"sadd"}), call[q].tok = t PROVE t \in LoggingIn
    BY <2>1 DEF LoggingIn, Login
  <2>2. QED
    BY <1>1, <1>3, <2>1 DEF IndexInv
<1>4. \A t \in Tokens \ raced' : store'[t] # None => Covered(t)'
  BY <1>1, <1>2, <1>3
<1>5. ASSUME NEW q \in Procs, At(q, {"refresh"}, "factory")',
             NEW t \in Tokens \ (raced' \cup call'[q].stale \cup call'[q].todo), call'[q].has[t] # None
      PROVE  Covered(t)'
  <2>1. q # p
    BY <1>1, <1>5 DEF At, Becomes
  <2>2. /\ Writer(q) /\ call'[q].has = call[q].has /\ call[q].stale \subseteq call'[q].stale
    BY <1>1, <1>5, <2>1 DEF At, Others, Same, Writer
  <2>3. store[t] # None
    BY <1>5, <2>2 DEF FreshInv, Fresh
  <2>4. QED
    BY <1>2, <1>3, <1>5, <2>3
<1>6. ASSUME NEW q \in Procs, Login(q, {"setex"})' PROVE call'[q].tok \in raced'
  <2>1. q # p
    BY <1>1, <1>6 DEF Login, Becomes
  <2>2. Login(q, {"setex"}) /\ call'[q].tok = call[q].tok
    BY <1>1, <1>6, <2>1 DEF Login, Others, Same
  <2>3. call[q].tok \notin account
    BY <2>2 DEF SeenInv, Seen
  <2>4. call[q].tok \in LoggingIn
    BY <2>2 DEF LoggingIn, Login
  <2>5. QED
    BY <1>1, <2>2, <2>3, <2>4
<1>7. QED
  BY <1>4, <1>5, <1>6 DEF PermInv

\* A step of a refresh that writes nothing and loses no session it covers.
LEMMA PermKeep ==
    ASSUME Guarded, PermInv, NEW p \in Procs, Others(p, {}), UNCHANGED <<redis, outside, history>>,
           call'[p] # None => call'[p].op = "refresh",
           \A t \in Tokens : Covers(p, t) /\ store[t] # None => Covered(t)',
           call'[p] # None /\ call'[p].pc = "factory" =>
              \A t \in Tokens \ (raced \cup call'[p].stale \cup call'[p].todo) :
                 call'[p].has[t] # None => call'[p].has[t].perms = perms \/ Covered(t)'
    PROVE  PermInv'
<1> USE DEF Guarded
<1>1. /\ perms' = perms /\ refresh_due' = refresh_due /\ raced' = raced /\ store' = store
  BY DEF redis, outside, history
<1>2. ASSUME NEW t \in Tokens, store[t] # None, Covered(t) PROVE Covered(t)'
  BY <1>1, <1>2, CoverKept
<1>3. ASSUME NEW q \in Procs \ {p}, NEW t \in Tokens, At(q, {"refresh"}, "factory"),
             call[q].has[t] # None, t \notin call'[q].stale
      PROVE  store[t] # None
  <2>1. Writer(q) /\ t \notin call[q].stale
    BY <1>3 DEF At, Writer, Others, Same
  <2>2. QED
    BY <1>3, <2>1 DEF FreshInv, Fresh
<1>4. /\ \A q \in Procs \ {p} : At(q, {"refresh"}, "factory")' =>
            \A t \in Tokens \ (raced' \cup call'[q].stale \cup call'[q].todo) :
               call'[q].has[t] # None => call'[q].has[t].perms = perms' \/ Covered(t)'
      /\ \A q \in Procs \ {p} : Login(q, {"setex"})' =>
            \/ refresh_due' \/ call'[q].tok \in raced'
            \/ call'[q].has[call'[q].tok].perms = perms'
  BY <1>1, <1>2, <1>3, PermOthers
<1>5. \A t \in Tokens \ raced' : store'[t] # None => store'[t].perms = perms' \/ Covered(t)'
  BY <1>1, <1>2 DEF PermInv
<1>6. ~Login(p, {"setex"})'
  BY DEF Login
<1>7. At(p, {"refresh"}, "factory")' =>
         \A t \in Tokens \ (raced' \cup call'[p].stale \cup call'[p].todo) :
            call'[p].has[t] # None => call'[p].has[t].perms = perms' \/ Covered(t)'
  BY <1>1 DEF At
<1>8. QED
  BY <1>4, <1>5, <1>6, <1>7 DEF PermInv

LEMMA PermRefresh == ASSUME Guarded, PermInv, NEW p \in Procs, Refresh(p) PROVE PermInv'
<1> USE DEF Guarded
<1>1. CASE RefreshRead(p)
  <2> DEFINE live == {t \in call[p].todo : store[t] # None}
  <2>1. /\ At(p, {"refresh"}, "mget") /\ Others(p, {}) /\ UNCHANGED <<redis, outside, history>>
        /\ live \subseteq Tokens
    BY <1>1, RefreshReadStep DEF RefreshRead
  <2>2. \/ live = {} /\ call'[p] = None
        \/ /\ call'[p] # None /\ call'[p].op = "refresh" /\ call'[p].pc = "factory" /\ call'[p].todo = live
           /\ \A t \in live : call'[p].has[t] = store[t]
           /\ \A t \in Tokens \ live : call'[p].has[t] = None
    BY <1>1, RefreshReadStep DEF Becomes
  <2>3. ASSUME NEW t \in Tokens, Covers(p, t), store[t] # None PROVE Covered(t)'
    <3>1. t \in live
      BY <2>1, <2>3 DEF Covers, At
    <3>2. Covers(p, t)'
      BY <2>2, <2>3, <3>1 DEF Covers
    <3>3. QED
      BY <3>2 DEF Covered
  <2>4. QED
    BY <2>1, <2>2, <2>3, PermKeep
<1>2. CASE Factory(p)
  <2>1. /\ At(p, {"refresh"}, "factory") /\ Others(p, {}) /\ UNCHANGED <<redis, outside, history>>
        /\ call[p].todo \subseteq Tokens
    BY <1>2, FactoryStep, InFlight DEF Factory
  <2>2. PICK t \in call[p].todo :
           /\ call'[p] # None /\ call'[p].op = "refresh" /\ call'[p].pc = "factory"
           /\ call'[p].todo = call[p].todo \ {t} /\ call'[p].stale = call[p].stale
           /\ \A u \in Tokens \ {t} : call'[p].has[u] = call[p].has[u]
           /\ call'[p].has[t] # None /\ call'[p].has[t].perms = perms
    BY <1>2, FactoryStep DEF Becomes
  <2>3. perms' = perms
    BY <2>1 DEF outside
  <2>4. ASSUME NEW u \in Tokens, Covers(p, u) PROVE Covered(u)'
    <3>1. Covers(p, u)'
      <4>1. CASE u = t
        BY <2>2, <2>3, <4>1 DEF Covers
      <4>2. CASE u # t
        BY <2>1, <2>2, <2>3, <2>4, <4>2 DEF Covers, At
      <4>3. QED
        BY <4>1, <4>2
    <3>2. QED
      BY <3>1 DEF Covered
  <2>5. ASSUME NEW u \in Tokens, Covered(u) PROVE Covered(u)'
    <3>1. refresh_due' = refresh_due
      BY <2>1 DEF outside
    <3>2. QED
      BY <2>1, <2>3, <2>4, <2>5, <3>1, CoverKept
  <2>6. ASSUME NEW u \in Tokens \ (raced \cup call'[p].stale \cup call'[p].todo), call'[p].has[u] # None
        PROVE  call'[p].has[u].perms = perms \/ Covered(u)'
    <3>1. CASE u = t
      BY <2>2, <3>1
    <3>2. CASE u # t
      <4>1. call[p].has[u] # None /\ u \notin call[p].todo /\ u \notin call[p].stale
        BY <2>2, <2>6, <3>2
      <4>2. call[p].has[u].perms = perms \/ Covered(u)
        BY <2>1, <2>6, <4>1 DEF PermInv
      <4>3. QED
        BY <2>2, <2>5, <2>6, <3>2, <4>2
    <3>3. QED
      BY <3>1, <3>2
  <2>7. QED
    BY <2>1, <2>2, <2>4, <2>6, PermKeep
<1>3. CASE RefreshWrite(p)
  <2>1. /\ Others(p, New(p)) /\ At(p, {"refresh"}, "factory") /\ call'[p] = None /\ call[p].todo = {}
        /\ raced' = raced \cup call[p].stale /\ UNCHANGED <<perms, refresh_due>>
        /\ \A t \in New(p) : store'[t] = call[p].has[t]
        /\ \A t \in Tokens \ New(p) : store'[t] = store[t]
    BY <1>3, RefreshWriteStep DEF RefreshWrite, outside
  <2>2. ASSUME NEW t \in Tokens \ raced', Covers(p, t)
        PROVE  t \in New(p) /\ call[p].has[t].perms = perms
    BY <2>1, <2>2 DEF Covers, New, At
  <2>3. ASSUME NEW t \in Tokens \ raced', Covered(t), ~Covers(p, t) PROVE Covered(t)'
    BY <2>1, <2>3, CoverKept
  <2>4. ASSUME NEW t \in Tokens \ raced', store'[t] # None PROVE store'[t].perms = perms' \/ Covered(t)'
    <3>1. CASE t \in New(p)
      <4>1. call[p].has[t].perms = perms \/ Covered(t)
        BY <2>1, <2>4, <3>1 DEF PermInv, New
      <4>2. QED
        BY <2>1, <2>2, <2>3, <2>4, <3>1, <4>1
    <3>2. CASE t \notin New(p)
      BY <2>1, <2>2, <2>3, <2>4, <3>2 DEF PermInv
    <3>3. QED
      BY <3>1, <3>2
  <2>5. ASSUME NEW t \in Tokens \ raced', NEW q \in Procs \ {p}, At(q, {"refresh"}, "factory"),
               call[q].has[t] # None, t \notin call'[q].stale, Covered(t)
        PROVE  Covered(t)'
    <3>1. t \notin New(p)
      BY <2>1, <2>5 DEF Others, Marked, Writer, At
    <3>2. QED
      BY <2>2, <2>3, <2>5, <3>1
  <2>6. /\ \A q \in Procs \ {p} : At(q, {"refresh"}, "factory")' =>
              \A t \in Tokens \ (raced' \cup call'[q].stale \cup call'[q].todo) :
                 call'[q].has[t] # None => call'[q].has[t].perms = perms' \/ Covered(t)'
        /\ \A q \in Procs \ {p} : Login(q, {"setex"})' =>
              \/ refresh_due' \/ call'[q].tok \in raced'
              \/ call'[q].has[call'[q].tok].perms = perms'
    BY <2>1, <2>5, PermOthers
  <2>7. ~Login(p, {"setex"})' /\ ~At(p, {"refresh"}, "factory")'
    BY <2>1 DEF Login, At
  <2>8. QED
    BY <2>4, <2>6, <2>7 DEF PermInv
<1>4. QED
  BY <1>1, <1>2, <1>3, PermBegin DEF Refresh

LEMMA PermInductive == Guarded /\ PermInv /\ [Next]_vars => PermInv'
<1> SUFFICES ASSUME Guarded, PermInv, [Next]_vars PROVE PermInv'
  OBVIOUS
<1> USE DEF Guarded
<1>1. CASE UNCHANGED vars
  BY <1>1 DEF vars, redis, outside, history, PermInv, Covered, Covers, Login, At
<1>2. ASSUME NEW t \in Tokens, Expire(t) PROVE PermInv'
  <2>1. UNCHANGED <<perms, refresh_due, raced>>
    BY <1>2 DEF Expire, outside, history
  <2>2. QED
    BY <1>2, <2>1, ExpireStep, PermMove, NoneAssumption
<1>3. ASSUME NEW t \in Tokens, GrowIdle(t) PROVE PermInv'
  <2>1. UNCHANGED <<perms, refresh_due, raced>>
    BY <1>3 DEF GrowIdle, outside, history
  <2>2. QED
    BY <1>3, <2>1, GrowIdleStep, PermMove, NoneAssumption
<1>4. CASE ChangePermissions
  <2>1. refresh_due'
    BY <1>4 DEF ChangePermissions
  <2>2. QED
    BY <2>1 DEF PermInv, Covered
<1>5. QED
  BY <1>1, <1>2, <1>3, <1>4, PermLogin, PermDelete, PermRefresh, PermTouch DEF Next

\* Once nothing is in flight and no refresh is due, every session outside the
\* three windows carries the account's current permissions: a refresh that has
\* run reached every session, whatever it interleaved with.
THEOREM PermissionsReachSessions == Spec => []PermissionsCurrent
<1>1. Init => PermInv
  <2> SUFFICES ASSUME Init PROVE PermInv
    OBVIOUS
  <2>1. \A t \in Tokens : store[t] = None
    BY DEF Init, NoPayloads
  <2>2. \A p \in Procs : call[p] = None
    BY DEF Init
  <2>3. QED
    BY <2>1, <2>2 DEF PermInv, Login, At
<1>2. Guarded /\ PermInv => PermissionsCurrent
  <2> SUFFICES ASSUME Guarded, PermInv, Quiet, ~refresh_due, NEW t \in Tokens \ raced, store[t] # None
               PROVE  store[t].perms = perms
    BY DEF PermissionsCurrent
  <2>1. ~Covered(t)
    BY DEF Covered, Covers, Quiet, Free
  <2>2. QED
    BY <2>1 DEF PermInv
<1>3. QED
  BY <1>1, <1>2, InitGuarded, GuardInductive, PermInductive, PTL DEF Spec

(***************************************************************************)
(* The session limit.                                                      *)
(***************************************************************************)
LEMMA FiniteTokens == ASSUME NEW S \in SUBSET Tokens PROVE IsFiniteSet(S) /\ Cardinality(S) \in Nat
<1>1. IsFiniteSet(Tokens)
  BY FS_Interval, SessionAssumption DEF Tokens
<1>2. IsFiniteSet(S)
  BY <1>1, FS_Subset
<1>3. QED
  BY <1>2, FS_CardinalityType

\* prune_excess_sessions leaves at most MaxSessions of the sessions it found.
LEMMA ExcessLeaves ==
    ASSUME NEW S \in SUBSET Tokens
    PROVE  Cardinality(S \ Excess(S)) <= MaxSessions
<1> DEFINE R == S \ Excess(S)
<1>1. R \in SUBSET Tokens
  OBVIOUS
<1>2. CASE R = {}
  <2>1. Cardinality(R) = 0
    BY <1>2, FS_EmptySet
  <2>2. QED
    BY <2>1, SessionAssumption
<1>3. CASE R # {}
  <2> DEFINE m == Min(R)
             Above == {u \in S : u > m}
  <2>1. m \in R /\ \A t \in R : m <= t
    BY <1>1, <1>3, MinToken, Zenon
  <2>2. m \in S /\ ~(Cardinality(Above) >= MaxSessions)
    BY <2>1 DEF Excess
  <2>3. Above \in SUBSET Tokens /\ m \notin Above
    <3>1. m \in Tokens
      BY <2>2
    <3>2. m \in Int
      BY <3>1, SessionAssumption DEF Tokens
    <3>3. QED
      BY <3>2
  <2>4. IsFiniteSet(Above) /\ Cardinality(Above) \in Nat
    BY <2>3, FiniteTokens
  <2> HIDE DEF m
  <2>5. R \subseteq Above \cup {m}
    <3>1. \A t \in S : t \in Int
      BY SessionAssumption DEF Tokens
    <3>2. QED
      BY <2>1, <2>2, <3>1
  <2> HIDE DEF Above, R
  <2>6. IsFiniteSet(Above \cup {m}) /\ Cardinality(Above \cup {m}) = Cardinality(Above) + 1
    BY <2>3, <2>4, FS_AddElement
  <2>7. Cardinality(R) <= Cardinality(Above \cup {m})
    BY <2>5, <2>6, FS_Subset
  <2>8. Cardinality(R) \in Nat
    BY <1>1, FiniteTokens
  <2>9. QED
    BY <2>2, <2>4, <2>6, <2>7, <2>8, SessionAssumption DEF R
<1>4. QED
  BY <1>2, <1>3

LEMMA GetNext ==
    ASSUME TypeInv', NEW t \in Tokens
    PROVE  Get(t)' # None <=> store'[t] # None /\ store'[t].idle = FALSE
<1>1. store'[t] \in Payloads \cup {None}
  BY DEF TypeInv
<1>2. store'[t] # None => store'[t].idle \in BOOLEAN
  BY <1>1 DEF Payloads
<1>3. CASE store'[t] = None
  BY <1>3 DEF Get
<1>4. CASE store'[t] # None /\ store'[t].idle = TRUE
  BY <1>4 DEF Get, IdleTimeout
<1>5. CASE store'[t] # None /\ store'[t].idle = FALSE
  BY <1>5 DEF Get, IdleTimeout
<1>6. QED
  BY <1>2, <1>3, <1>4, <1>5

\* A step that settles no session, spares none that was to be deleted, and
\* takes nothing out of a watching login's view.
LEMMA LimitMove ==
    ASSUME TypeInv, LimitInv, NEW p, NEW T, Others(p, T), raced \subseteq raced',
           \A t \in Tokens \ raced' : Get(t)' # None =>
              \/ Get(t) # None
              \/ /\ p \in Procs /\ call'[p] # None /\ call'[p].op = "login" /\ call'[p].pc \in Pending
                 /\ call'[p].tok = t,
           p \in Procs /\ call[p] # None /\ call[p].op = "login" /\ call[p].pc \in Pending =>
              /\ call'[p] # None /\ call'[p].op = "login" /\ call'[p].pc \in Pending
              /\ call'[p].tok = call[p].tok,
           \A t \in Tokens : p \in Procs /\ Dooms(p, t) /\ Get(t)' # None => Dooms(p, t)',
           p \in Procs /\ Watches(p) => Watches(p)'
    PROVE  LimitInv' /\ Settled' \subseteq Settled
<1>1. ASSUME NEW t \in Settled' PROVE t \in Settled
  <2>1. /\ t \in Tokens \ raced' /\ Get(t)' # None
        /\ \A q \in Procs : Login(q, Pending)' => call'[q].tok # t
    BY <1>1 DEF Settled
  <2>2. Get(t) # None
    BY <2>1 DEF Login
  <2>3. ASSUME NEW q \in Procs, Login(q, Pending) PROVE call[q].tok # t
    <3>1. Login(q, Pending)' /\ call'[q].tok = call[q].tok
      BY <2>3 DEF Login, Others, Same
    <3>2. QED
      BY <2>1, <3>1
  <2>4. QED
    BY <2>1, <2>2, <2>3 DEF Settled
<1>2. ASSUME \E q \in Procs : Watches(q) PROVE LimitInv'
  <2>1. PICK q \in Procs : Watches(q)
    BY <1>2
  <2>2. CASE q = p
    BY <2>1, <2>2 DEF LimitInv
  <2>3. CASE q # p
    <3>1. /\ Login(q, {"list"})' /\ call'[q].known = call[q].known /\ call'[q].todo = call[q].todo
          /\ call'[q].has = call[q].has
      BY <2>1, <2>3 DEF Watches, Login, Others, Same
    <3>2. Watches(q)'
      BY <1>1, <2>1, <3>1 DEF Watches
    <3>3. QED
      BY <3>2 DEF LimitInv
  <2>4. QED
    BY <2>2, <2>3
<1>3. ASSUME Cardinality(Kept) <= MaxSessions PROVE LimitInv'
  <2>1. ASSUME NEW t \in Kept' PROVE t \in Kept
    <3>1. t \in Settled /\ t \in Settled' /\ t \in Tokens /\ Get(t)' # None
      BY <1>1, <2>1 DEF Kept, Settled
    <3>2. ASSUME NEW q \in Procs, Dooms(q, t) PROVE FALSE
      <4>1. Dooms(q, t)'
        <5>1. CASE q = p
          BY <3>1, <3>2, <5>1
        <5>2. CASE q # p
          <6>1. /\ call[q] # None /\ call'[q] # None /\ call'[q].op = call[q].op /\ call'[q].pc = call[q].pc
                /\ call'[q].tok = call[q].tok /\ call'[q].todo = call[q].todo
            BY <3>2, <5>2 DEF Dooms, Login, Others, Same
          <6>2. QED
            BY <3>2, <6>1 DEF Dooms, Login
        <5>3. QED
          BY <5>1, <5>2
      <4>2. QED
        BY <2>1, <4>1 DEF Kept
    <3>3. QED
      BY <3>1, <3>2 DEF Kept
  <2>2. Kept \in SUBSET Tokens
    BY DEF Kept, Settled
  <2>3. Kept' \in SUBSET Tokens
    BY <2>1, <2>2
  <2>4. IsFiniteSet(Kept) /\ Cardinality(Kept) \in Nat
    BY <2>2, FiniteTokens
  <2>5. Cardinality(Kept') <= Cardinality(Kept)
    BY <2>1, <2>4, FS_Subset
  <2>6. Cardinality(Kept') \in Nat
    BY <2>3, FiniteTokens
  <2>7. Cardinality(Kept') <= MaxSessions
    BY <1>3, <2>4, <2>5, <2>6, SessionAssumption
  <2>8. QED
    BY <2>7 DEF LimitInv
<1>4. QED
  BY <1>1, <1>2, <1>3 DEF LimitInv

\* A step of a handler that is no login.
LEMMA LimitOther ==
    ASSUME TypeInv, LimitInv, NEW p, NEW T, Others(p, T), raced \subseteq raced',
           \A t \in Tokens \ raced' : Get(t)' # None => Get(t) # None,
           p \in Procs /\ call[p] # None => call[p].op # "login"
    PROVE  LimitInv'
<1>1. p \in Procs => ~Watches(p) /\ \A t \in Tokens : ~Dooms(p, t)
  BY DEF Watches, Dooms, Login
<1>2. QED
  BY <1>1, LimitMove

LEMMA SameGet == ASSUME store' = store, NEW t PROVE Get(t)' = Get(t)
BY DEF Get

\* ... that leaves the sessions alone.
LEMMA LimitPass ==
    ASSUME TypeInv, LimitInv, NEW p, NEW T, Others(p, T), store' = store, raced \subseteq raced',
           p \in Procs /\ call[p] # None => call[p].op # "login"
    PROVE  LimitInv'
BY SameGet, LimitOther

\* A step by which a login deletes sessions one after the other.
LEMMA LimitDeleting ==
    ASSUME TypeInv, LimitInv, NEW p \in Procs, NEW T, Others(p, T), raced \subseteq raced',
           \A t \in Tokens \ raced' : Get(t)' # None => Get(t) # None,
           call[p] # None, call[p].pc \in {"d_get", "d_del", "d_srem", "d_srem_account"},
           \A t \in Tokens : Dooms(p, t) /\ Get(t)' # None => Dooms(p, t)'
    PROVE  LimitInv'
<1>1. ~Watches(p) /\ call[p].pc \notin Pending
  BY DEF Watches, Login, Pending, Entering
<1>2. QED
  BY <1>1, LimitMove

LEMMA LimitSet ==
    ASSUME Guarded, Guarded', LimitInv, NEW p \in Procs, Set(p) PROVE LimitInv'
<1> USE DEF Guarded
<1>1. CASE BeginLogin(p)
  BY <1>1, BeginLoginStep, LimitPass DEF BeginLogin, redis, history
<1>D. ASSUME call[p] # None, call[p].op = "login", call[p].pc \in Entering
      PROVE  call[p].pc \in Pending /\ ~Watches(p) /\ \A t \in Tokens : ~Dooms(p, t)
  BY <1>D DEF Watches, Dooms, Login, Pending, Entering
<1>2. CASE SetEx(p)
  <2>1. call[p] # None /\ call[p].op = "login" /\ call[p].pc = "setex" /\ call[p].tok \in Tokens
    BY <1>2, SetExStep DEF Login
  <2>2. /\ Others(p, {}) /\ raced' = raced
        /\ call'[p] # None /\ call'[p].op = "login" /\ call'[p].pc = "sadd" /\ call'[p].tok = call[p].tok
    BY <1>2, SetExStep DEF SetEx, Becomes, history
  <2>3. call[p].pc \in Entering /\ call'[p].pc \in Pending
    BY <2>1, <2>2 DEF Entering, Pending
  <2>4. ASSUME NEW t \in Tokens, t # call[p].tok PROVE Get(t)' = Get(t)
    BY <1>2, <2>4 DEF SetEx, TypeInv, Get
  <2>5. QED
    BY <1>D, <2>1, <2>2, <2>3, <2>4, LimitMove
<1>3. CASE SAddAccount(p)
  <2>1. call[p] # None /\ call[p].op = "login" /\ call[p].pc = "sadd"
    BY <1>3, SAddAccountStep DEF Login
  <2>2. /\ Others(p, {}) /\ raced' = raced /\ store' = store
        /\ call'[p] # None /\ call'[p].op = "login" /\ call'[p].pc = "sadd_all" /\ call'[p].tok = call[p].tok
    BY <1>3, SAddAccountStep DEF SAddAccount, Becomes, history
  <2>3. call[p].pc \in Entering /\ call'[p].pc \in Pending
    BY <2>1, <2>2 DEF Entering, Pending
  <2>4. QED
    BY <1>D, <2>1, <2>2, <2>3, SameGet, LimitMove
<1>4. CASE SAddAll(p)
  <2>1. call[p] # None /\ call[p].op = "login" /\ call[p].pc = "sadd_all"
    BY <1>4 DEF SAddAll, At
  <2>2. /\ Others(p, {}) /\ raced' = raced /\ store' = store
        /\ call'[p] # None /\ call'[p].op = "login" /\ call'[p].pc = "prune" /\ call'[p].tok = call[p].tok
    BY <1>4, <2>1, SAddAllStep DEF SAddAll, Becomes
  <2>3. call[p].pc \in Entering /\ call'[p].pc \in Pending
    BY <2>1, <2>2 DEF Entering, Pending
  <2>4. QED
    BY <1>D, <2>1, <2>2, <2>3, SameGet, LimitMove
<1>5. QED
  BY <1>1, <1>2, <1>3, <1>4 DEF Set

\* The login that begins to prune has every settled session in view.
LEMMA LimitPruneRead ==
    ASSUME Guarded, Guarded', NEW p \in Procs, PruneRead(p) PROVE LimitInv'
<1> USE DEF Guarded
<1>1. /\ At(p, {"login"}, "prune") /\ Others(p, {})
      /\ UNCHANGED <<store, account, raced>>
      /\ call'[p] # None /\ call'[p].op = call[p].op /\ call'[p].pc = "list"
      /\ call'[p].known = account /\ call'[p].todo = account
  BY PruneReadStep DEF PruneRead, Becomes, redis, history
<1>2. ASSUME NEW t \in Settled' PROVE t \in account
  <2>1. /\ t \in Tokens \ raced /\ Get(t)' # None
        /\ \A q \in Procs : Login(q, Pending)' => call'[q].tok # t
    BY <1>1, <1>2 DEF Settled
  <2>2. store[t] # None
    BY <1>1, <2>1, SameGet, GetType
  <2>3. ASSUME NEW q \in Procs, Login(q, {"sadd"}), call[q].tok = t PROVE FALSE
    <3>1. q # p
      BY <1>1, <2>3 DEF At, Login
    <3>2. Login(q, Pending)' /\ call'[q].tok = t
      BY <1>1, <2>3, <3>1 DEF Login, Others, Same, Pending, Entering
    <3>3. QED
      BY <2>1, <3>2
  <2>4. QED
    BY <2>1, <2>2, <2>3 DEF IndexInv
<1>3. Login(p, {"list"})'
  BY <1>1 DEF Login, At
<1>4. Watches(p)'
  BY <1>1, <1>2, <1>3 DEF Watches
<1>5. QED
  BY <1>4 DEF LimitInv

LEMMA LimitPrune ==
    ASSUME Guarded, Guarded', LimitInv, NEW p \in Procs, Prune(p) PROVE LimitInv'
<1> USE DEF Guarded
<1>1. CASE ListGet(p)
  <2>1. /\ At(p, {"login"}, "list") /\ Others(p, {}) /\ UNCHANGED <<store, raced>>
        /\ call[p].todo \subseteq Tokens
    BY <1>1, ListGetStep, InFlight DEF ListGet, redis, history
  <2>2. PICK t \in call[p].todo :
           /\ call'[p] # None /\ call'[p].op = call[p].op /\ call'[p].pc = "list"
           /\ call'[p].todo = call[p].todo \ {t} /\ call'[p].known = call[p].known
           /\ call'[p].has[t] = Get(t) /\ \A u \in Tokens \ {t} : call'[p].has[u] = call[p].has[u]
    BY <1>1, ListGetStep DEF Becomes
  <2>3. call[p].pc \notin Pending /\ \A u \in Tokens : ~Dooms(p, u)
    BY <2>1 DEF At, Dooms, Login, Pending, Entering
  <2>4. ASSUME NEW q \in Procs, Login(q, Pending)
        PROVE  Login(q, Pending)' /\ call'[q].tok = call[q].tok
    <3>1. q # p
      BY <2>3, <2>4 DEF Login
    <3>2. QED
      BY <2>1, <2>4, <3>1 DEF Login, Others, Same
  <2>5. ASSUME NEW u \in Settled' PROVE u \in Settled /\ u \in Tokens /\ Get(u) # None
    BY <2>1, <2>4, <2>5, SameGet DEF Settled
  <2>6. Watches(p) => Watches(p)'
    <3> SUFFICES ASSUME Watches(p) PROVE Watches(p)'
      OBVIOUS
    <3>1. Login(p, {"list"})' /\ Settled' \subseteq call'[p].known
      BY <2>1, <2>2, <2>5 DEF Watches, Login, At
    <3>2. ASSUME NEW u \in Settled' \ call'[p].todo PROVE call'[p].has[u] # None
      <4>1. CASE u = t
        BY <2>2, <2>5, <3>2, <4>1
      <4>2. CASE u # t
        BY <2>2, <2>5, <3>2, <4>2 DEF Watches
      <4>3. QED
        BY <4>1, <4>2
    <3>3. QED
      BY <3>1, <3>2 DEF Watches
  <2>7. QED
    BY <2>1, <2>3, <2>6, SameGet, LimitMove
<1>2. CASE ListEnd(p)
  <2> DEFINE rest == Excess(Found(p))
  <2>1. /\ At(p, {"login"}, "list") /\ Others(p, {}) /\ UNCHANGED <<store, raced>>
        /\ call[p].todo = {} /\ call[p].known \subseteq Tokens
        /\ Ends(p, "login", rest, NoPayloads, {}, call[p].stale)
    BY <1>2, ListEndStep, InFlight DEF ListEnd, history
  <2>2. Found(p) \in SUBSET Tokens /\ rest \in SUBSET Tokens
    BY <2>1 DEF Found, Excess
  <2>3. ASSUME NEW t \in rest PROVE Dooms(p, t)'
    <3>1. Becomes(p, "login", "d_get", Min(rest), rest \ {Min(rest)}, NoPayloads, {}, call[p].stale)
      BY <2>1, <2>3 DEF Ends
    <3> HIDE DEF rest
    <3>2. /\ call'[p] # None /\ call'[p].op = "login" /\ call'[p].pc = "d_get"
          /\ call'[p].tok = Min(rest) /\ call'[p].todo = rest \ {Min(rest)}
      BY <3>1 DEF Becomes
    <3>3. QED
      BY <2>3, <3>2 DEF Dooms, Login
  <2>4. call[p].pc \notin Pending /\ \A u \in Tokens : ~Dooms(p, u)
    BY <2>1 DEF At, Dooms, Login, Pending, Entering
  <2>5. CASE Watches(p)
    <3>1. ASSUME NEW t \in Settled' PROVE t \in Settled
      <4>1. ASSUME NEW q \in Procs, Login(q, Pending)
            PROVE  Login(q, Pending)' /\ call'[q].tok = call[q].tok
        <5>1. q # p
          BY <2>4, <4>1 DEF Login
        <5>2. QED
          BY <2>1, <4>1, <5>1 DEF Login, Others, Same
      <4>2. QED
        BY <2>1, <3>1, <4>1, SameGet DEF Settled
    <3>2. Settled \subseteq Found(p)
      BY <2>1, <2>5 DEF Watches, Found
    <3>3. Kept' \subseteq Found(p) \ rest
      BY <2>3, <3>1, <3>2 DEF Kept
    <3>4. Cardinality(Found(p) \ rest) <= MaxSessions
      BY <2>2, ExcessLeaves
    <3> HIDE DEF rest
    <3>5. /\ IsFiniteSet(Found(p) \ rest) /\ Cardinality(Found(p) \ rest) \in Nat
          /\ Cardinality(Kept') \in Nat
      BY <2>2, <3>3, FiniteTokens
    <3>6. Cardinality(Kept') <= Cardinality(Found(p) \ rest)
      BY <3>3, <3>5, FS_Subset
    <3>7. Cardinality(Kept') <= MaxSessions
      BY <3>4, <3>5, <3>6, SessionAssumption
    <3>8. QED
      BY <3>7 DEF LimitInv
  <2>6. CASE ~Watches(p)
    BY <2>1, <2>4, <2>6, SameGet, LimitMove
  <2>7. QED
    BY <2>5, <2>6
<1>3. QED
  BY <1>1, <1>2, LimitPruneRead DEF Prune

LEMMA LimitDelete ==
    ASSUME Guarded, Guarded', LimitInv, NEW p \in Procs, Delete(p) \/ DeleteAccount(p) PROVE LimitInv'
<1> USE DEF Guarded
<1>1. ASSUME NEW t \in Tokens, BeginDelete(p, t) PROVE LimitInv'
  BY <1>1, BeginDeleteStep, LimitPass DEF BeginDelete, redis, history
<1>2. CASE DeleteGet(p)
  <2>1. /\ Others(p, {}) /\ UNCHANGED <<store, raced>> /\ call[p] # None /\ call[p].pc = "d_get"
        /\ call'[p] # None /\ call'[p].op = call[p].op /\ call'[p].pc = "d_del"
        /\ call'[p].tok = call[p].tok /\ call'[p].todo = call[p].todo
    BY <1>2, DeleteGetStep DEF DeleteGet, At, Becomes, redis, history
  <2>2. \A t \in Tokens : Dooms(p, t) => Dooms(p, t)'
    BY <2>1 DEF Dooms, Login
  <2>3. QED
    BY <2>1, <2>2, SameGet, LimitDeleting
<1>3. CASE DeleteKey(p)
  <2>1. /\ Others(p, {call[p].tok}) /\ raced' = raced /\ call[p] # None /\ call[p].pc = "d_del"
        /\ call[p].tok \in Tokens
        /\ call'[p] # None /\ call'[p].op = call[p].op /\ call'[p].pc = "d_srem"
        /\ call'[p].tok = call[p].tok /\ call'[p].todo = call[p].todo
    BY <1>3, DeleteKeyStep DEF DeleteKey, Deleting, Becomes
  <2>3. store'[call[p].tok] = None /\ \A t \in Tokens \ {call[p].tok} : store'[t] = store[t]
    BY <1>3, <2>1 DEF DeleteKey, TypeInv
  <2>4. ASSUME NEW t \in Tokens, Get(t)' # None PROVE t # call[p].tok /\ Get(t) # None
    BY <2>3, <2>4 DEF Get
  <2>5. ASSUME NEW t \in Tokens, t # call[p].tok, Dooms(p, t) PROVE Dooms(p, t)'
    BY <2>1, <2>5 DEF Dooms, Login
  <2>6. QED
    BY <2>1, <2>4, <2>5, LimitDeleting
<1>R. ASSUME call[p] # None, call[p].pc \in {"d_srem", "d_srem_account"},
             Ends(p, call[p].op, call[p].todo, call[p].has, call[p].known, call[p].stale),
             NEW t \in Tokens, Dooms(p, t)
      PROVE  Dooms(p, t)'
  <2> DEFINE rest == call[p].todo
  <2>1. t \in rest /\ call[p].op = "login"
    BY <1>R DEF Dooms, Login
  <2>2. Becomes(p, call[p].op, "d_get", Min(rest), rest \ {Min(rest)}, call[p].has, call[p].known, call[p].stale)
    BY <1>R, <2>1 DEF Ends
  <2>3. /\ call'[p] # None /\ call'[p].op = "login" /\ call'[p].pc = "d_get"
        /\ call'[p].tok = Min(rest) /\ call'[p].todo = rest \ {Min(rest)}
    BY <2>1, <2>2 DEF Becomes
  <2>4. t = call'[p].tok \/ t \in call'[p].todo
    BY <2>1, <2>3
  <2>5. QED
    BY <2>3, <2>4 DEF Dooms, Login
<1>4. CASE DeleteSRem(p)
  <2>1. /\ Others(p, {}) /\ UNCHANGED <<store, raced>> /\ call[p] # None /\ call[p].pc = "d_srem"
    BY <1>4, DeleteSRemStep DEF DeleteSRem, Deleting, history
  <2>2. ASSUME NEW t \in Tokens, Dooms(p, t) PROVE Dooms(p, t)'
    <3>1. CASE Ends(p, call[p].op, call[p].todo, call[p].has, call[p].known, call[p].stale)
      BY <1>R, <2>1, <2>2, <3>1
    <3>2. CASE Becomes(p, call[p].op, "d_srem_account", call[p].tok, call[p].todo, call[p].has, call[p].known, call[p].stale)
      BY <2>1, <2>2, <3>2 DEF Becomes, Dooms, Login
    <3>3. QED
      BY <1>4, <3>1, <3>2, DeleteSRemStep
  <2>3. QED
    BY <2>1, <2>2, SameGet, LimitDeleting
<1>5. CASE DeleteSRemAccount(p)
  <2>1. /\ Others(p, {}) /\ UNCHANGED <<store, raced>> /\ call[p] # None /\ call[p].pc = "d_srem_account"
        /\ Ends(p, call[p].op, call[p].todo, call[p].has, call[p].known, call[p].stale)
    BY <1>5, DeleteSRemAccountStep DEF DeleteSRemAccount, Deleting, history
  <2>2. \A t \in Tokens : Dooms(p, t) => Dooms(p, t)'
    BY <1>R, <2>1
  <2>3. QED
    BY <2>1, <2>2, SameGet, LimitDeleting
<1>6. CASE BeginDeleteAccount(p)
  BY <1>6, BeginDeleteAccountStep, LimitPass DEF BeginDeleteAccount, Free, redis, history
<1>7. CASE DeleteAccountKeys(p)
  <2>1. /\ Others(p, call[p].todo) /\ call[p].op # "login" /\ raced \subseteq raced'
        /\ \A t \in Tokens : store'[t] = None \/ store'[t] = store[t]
    BY <1>7, DeleteAccountKeysStep DEF DeleteAccountKeys, At
  <2>2. \A t \in Tokens : Get(t)' # None => Get(t) # None
    BY <2>1 DEF Get
  <2>3. QED
    BY <2>1, <2>2, LimitOther
<1>8. CASE DeleteAccountSRem(p)
  BY <1>8, DeleteAccountSRemStep, LimitPass DEF DeleteAccountSRem, At, history
<1>9. QED
  BY <1>1, <1>2, <1>3, <1>4, <1>5, <1>6, <1>7, <1>8 DEF Delete, DeleteAccount

\* What a writer makes usable was usable, unless it is marked stale.
LEMMA LimitWrite ==
    ASSUME Guarded, Guarded', NEW p \in Procs, Writer(p), NEW t \in Tokens,
           store'[t] = call[p].has[t], t \notin call[p].stale, Get(t)' # None
    PROVE  Get(t) # None
<1> USE DEF Guarded
<1>1. store'[t] # None /\ store'[t].idle = FALSE
  BY GetNext
<1>2. store[t] # None /\ store[t].idle = FALSE
  BY <1>1 DEF FreshInv, Fresh
<1>3. QED
  BY <1>2, GetType

LEMMA LimitWriters ==
    ASSUME Guarded, Guarded', LimitInv, NEW p \in Procs, Refresh(p) \/ Touch(p) PROVE LimitInv'
<1> USE DEF Guarded
<1>1. CASE BeginRefresh(p)
  BY <1>1, BeginRefreshStep, LimitPass DEF BeginRefresh, redis
<1>2. CASE RefreshRead(p)
  BY <1>2, RefreshReadStep, LimitPass DEF RefreshRead, At, redis, history
<1>3. CASE Factory(p)
  BY <1>3, FactoryStep, LimitPass DEF Factory, At, redis, history
<1>4. CASE RefreshWrite(p)
  <2>1. /\ Others(p, New(p)) /\ At(p, {"refresh"}, "factory") /\ raced' = raced \cup call[p].stale
        /\ \A t \in New(p) : store'[t] = call[p].has[t]
        /\ \A t \in Tokens \ New(p) : store'[t] = store[t]
    BY <1>4, RefreshWriteStep
  <2>2. Writer(p) /\ call[p].op # "login"
    BY <2>1 DEF At, Writer
  <2>3. ASSUME NEW t \in Tokens \ raced', Get(t)' # None PROVE Get(t) # None
    <3>1. CASE t \in New(p)
      BY <2>1, <2>2, <2>3, <3>1, LimitWrite
    <3>2. CASE t \notin New(p)
      BY <2>1, <2>3, <3>2 DEF Get
    <3>3. QED
      BY <3>1, <3>2
  <2>4. QED
    BY <2>1, <2>2, <2>3, LimitOther
<1>5. ASSUME NEW t \in Tokens, Request(p, t) PROVE LimitInv'
  BY <1>5, RequestStep, LimitPass DEF Request, redis, history
<1>6. CASE TouchRead(p)
  BY <1>6, TouchReadStep, LimitPass DEF TouchRead, At, redis, history
<1>7. CASE TouchWrite(p)
  <2>1. /\ Others(p, {call[p].tok}) /\ At(p, {"touch"}, "setex") /\ call[p].tok \in Tokens
        /\ raced' = raced \cup call[p].stale
        /\ store'[call[p].tok] = call[p].has[call[p].tok]
        /\ \A t \in Tokens \ {call[p].tok} : store'[t] = store[t]
    BY <1>7, TouchWriteStep DEF TouchWrite, TypeInv
  <2>2. Writer(p) /\ call[p].op # "login"
    BY <2>1 DEF At, Writer
  <2>3. ASSUME NEW t \in Tokens \ raced', Get(t)' # None PROVE Get(t) # None
    <3>1. CASE t = call[p].tok
      BY <2>1, <2>2, <2>3, <3>1, LimitWrite
    <3>2. CASE t # call[p].tok
      BY <2>1, <2>3, <3>2 DEF Get
    <3>3. QED
      BY <3>1, <3>2
  <2>4. QED
    BY <2>1, <2>2, <2>3, LimitOther
<1>8. QED
  BY <1>1, <1>2, <1>3, <1>4, <1>5, <1>6, <1>7 DEF Refresh, Touch

LEMMA LimitInductive == Guarded /\ LimitInv /\ [Next]_vars => LimitInv'
<1> SUFFICES ASSUME Guarded, LimitInv, [Next]_vars PROVE LimitInv'
  OBVIOUS
<1>0. Guarded'
  BY GuardInductive
<1>1. CASE UNCHANGED vars \/ ChangePermissions
  BY <1>1 DEF vars, redis, history, ChangePermissions, LimitInv, Kept, Settled, Watches, Dooms, Get, Login
<1>2. ASSUME NEW t \in Tokens, Expire(t) PROVE LimitInv'
  <2>1. raced' = raced
    BY <1>2 DEF Expire, history
  <2>2. \A u \in Tokens : store'[u] = None \/ store'[u] = store[u]
    BY <1>2, ExpireStep DEF Guarded
  <2>3. \A u \in Tokens : Get(u)' # None => Get(u) # None
    BY <2>2 DEF Get
  <2>4. QED
    BY <1>2, <2>1, <2>3, ExpireStep, LimitOther, NoneAssumption DEF Guarded
<1>3. ASSUME NEW t \in Tokens, GrowIdle(t) PROVE LimitInv'
  <2>1. raced' = raced
    BY <1>3 DEF GrowIdle, history
  <2>2. \A u \in Tokens \ {t} : store'[u] = store[u]
    BY <1>3, GrowIdleStep DEF Guarded
  <2>3. Get(t) # None
    BY <1>3 DEF GrowIdle
  <2>4. \A u \in Tokens : Get(u)' # None => Get(u) # None
    BY <2>2, <2>3 DEF Get
  <2>5. QED
    BY <1>3, <2>1, <2>4, GrowIdleStep, LimitOther, NoneAssumption DEF Guarded
<1>4. QED
  BY <1>0, <1>1, <1>2, <1>3, LimitSet, LimitPrune, LimitDelete, LimitWriters DEF Next

\* Once nothing is in flight at most max_concurrent_sessions sessions of the
\* account are usable, outside the three windows, however the logins and their
\* prunings interleaved.
THEOREM LimitHolds == Spec => []SessionLimit
<1>1. Init => LimitInv
  <2> SUFFICES ASSUME Init PROVE LimitInv
    OBVIOUS
  <2>1. Kept = {}
    BY DEF Init, Kept, Settled, Get, NoPayloads
  <2>2. Cardinality(Kept) = 0
    BY <2>1, FS_EmptySet
  <2>3. QED
    BY <2>2, SessionAssumption DEF LimitInv
<1>2. Guarded /\ LimitInv => SessionLimit
  <2> SUFFICES ASSUME Guarded, LimitInv, Quiet
               PROVE  Cardinality({t \in Tokens \ raced : Get(t) # None}) <= MaxSessions
    BY DEF SessionLimit
  <2>1. \A p \in Procs : ~Watches(p) /\ ~Login(p, Pending) /\ \A t : ~Dooms(p, t)
    BY DEF Quiet, Free, Watches, Login, Dooms
  <2>2. Kept = {t \in Tokens \ raced : Get(t) # None}
    BY <2>1 DEF Kept, Settled
  <2>3. QED
    BY <2>1, <2>2 DEF LimitInv
<1>3. QED
  BY <1>1, <1>2, InitGuarded, GuardInductive, LimitInductive, PTL DEF Spec
=============================================================================
