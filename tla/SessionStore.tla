---------------------------- MODULE SessionStore ----------------------------
(***************************************************************************)
(* The login sessions of one account: SessionStore of                      *)
(* app/core/security/session.py and the request dependency of              *)
(* app/deps/auth.py.  A session is a Redis key with a payload; an index of *)
(* the account's tokens and an index of all tokens are kept beside it.     *)
(* Every Redis command (and every MULTI pipeline) is atomic; a handler is  *)
(* suspended at each of its awaits, so handlers interleave between their   *)
(* commands.  A login is set followed by prune_excess_sessions; logins,    *)
(* log-outs and permission changes are made by callers outside this        *)
(* repository.  Tokens are numbered in the order of login_at.              *)
(***************************************************************************)
EXTENDS Integers, FiniteSets, FiniteSetsExt

CONSTANTS Procs,          \* handlers that can be in flight at a time
          None,
          MaxLogins,      \* bound: logins of the account
          MaxSessions,    \* settings.auth.max_concurrent_sessions
          MaxChanges      \* bound: permission changes

ASSUME SessionAssumption ==
    MaxLogins \in Nat /\ MaxSessions \in Nat \ {0} /\ MaxChanges \in Nat

Tokens == 1..MaxLogins

\* SessionPayload: what a later request is judged by
Payloads == [perms : Nat, idle : BOOLEAN]

Handlers == {"login", "delete", "delete_account", "refresh", "touch"}
Awaits == {"setex", "sadd", "sadd_all", "prune", "list", "d_get", "d_del", "d_srem",
           "d_srem_account", "da_del", "da_srem", "mget", "factory", "get"}

\* has: payloads the handler has read or built; stale: those that changed in
\* Redis since; todo: tokens still to be visited; known: a set it started with
Calls == [op : Handlers, pc : Awaits, tok : 0..MaxLogins, todo : SUBSET Tokens,
          has : [Tokens -> Payloads \cup {None}], known : SUBSET Tokens, stale : SUBSET Tokens]

ASSUME NoneAssumption == None \notin Procs \cup Payloads \cup Calls

VARIABLES store,        \* login_token_key: None, or [perms, idle]; idle: its
                        \* last_active_at is longer ago than the idle time-out
          account,      \* login_account_tokens_key
          all,          \* login_tokens_key
          call,         \* call[p]: None, or the handler p is executing
          logins,       \* tokens handed out
          perms,        \* the account's permissions, outside Redis
          refresh_due,  \* a permission change whose refresh has not begun
          opened,       \* history: tokens whose set has returned
          revoked,      \* history: tokens deleted on purpose
          raced         \* history: tokens written or hidden by a handler that had
                        \* not seen the latest change

redis == <<store, account, all>>
history == <<opened, revoked, raced>>
outside == <<logins, perms, refresh_due>>
vars == <<redis, call, outside, history>>

NoPayloads == [t \in Tokens |-> None]

Payload(granted) == [perms |-> granted, idle |-> FALSE]

Call(op, pc, tok) ==
    [op |-> op, pc |-> pc, tok |-> tok, todo |-> {}, has |-> NoPayloads,
     known |-> {}, stale |-> {}]

Free(p) == call[p] = None
At(p, op, pc) == call[p] # None /\ call[p].op \in op /\ call[p].pc = pc

\* every other handler that will write what it read of T is out of date
Outdated(p, T) ==
    [q \in Procs |->
        IF q = p \/ call[q] = None THEN call[q]
        ELSE IF call[q].op \notin {"touch", "refresh"} THEN call[q]
        ELSE [call[q] EXCEPT !.stale = @ \cup {t \in T : call[q].has[t] # None}]]

Goes(p, c) == call' = [call EXCEPT ![p] = c]
GoesWriting(p, T, c) == call' = [Outdated(p, T) EXCEPT ![p] = c]

\* _check_idle_timeout: its delete and srem calls are coroutines nobody
\* awaits, so an idle session stays in Redis
IdleTimeout(payload) == payload.idle

Get(t) == IF store[t] = None THEN None
          ELSE IF IdleTimeout(store[t]) THEN None ELSE store[t]

\* get_accounts_tokens: the account's index, in one pipeline
AccountTokens == account

LoggingIn == {call[p].tok : p \in {q \in Procs : call[q] # None /\ call[q].op = "login"}}

Init ==
    /\ store = NoPayloads /\ account = {} /\ all = {}
    /\ call = [p \in Procs |-> None]
    /\ logins = 0 /\ perms = 0 /\ refresh_due = FALSE
    /\ opened = {} /\ revoked = {} /\ raced = {}

(***************************************************************************)
(* set                                                                     *)
(***************************************************************************)
\* external: the caller builds the payload from the account's permissions
BeginLogin(p) ==
    /\ Free(p) /\ logins < MaxLogins
    /\ logins' = logins + 1
    /\ Goes(p, [Call("login", "setex", logins + 1) EXCEPT
                   !.has[logins + 1] = Payload(perms)])
    /\ UNCHANGED <<redis, perms, refresh_due, history>>

SetEx(p) ==
    /\ At(p, {"login"}, "setex")
    /\ store' = [store EXCEPT ![call[p].tok] = call[p].has[call[p].tok]]
    /\ Goes(p, [call[p] EXCEPT !.pc = "sadd"])
    /\ UNCHANGED <<account, all, outside, history>>

MutantNotIndexed(p) ==
    /\ At(p, {"login"}, "sadd")
    /\ Goes(p, [call[p] EXCEPT !.pc = "sadd_all"])
    /\ UNCHANGED <<store, account, all, outside, history>>

SAddAccount(p) ==
    /\ At(p, {"login"}, "sadd")
    /\ account' = account \cup {call[p].tok}
    /\ Goes(p, [call[p] EXCEPT !.pc = "sadd_all"])
    /\ UNCHANGED <<store, all, outside, history>>

SAddAll(p) ==
    /\ At(p, {"login"}, "sadd_all")
    /\ all' = all \cup {call[p].tok}
    /\ opened' = opened \cup {call[p].tok}
    /\ Goes(p, [call[p] EXCEPT !.pc = "prune", !.has = NoPayloads])
    /\ UNCHANGED <<store, account, outside, revoked, raced>>

(***************************************************************************)
(* delete of one token, also used for each excess session                  *)
(***************************************************************************)
\* the handler ends, or goes on with the next token to delete, oldest first
DeleteRest(c, rest) ==
    IF rest = {} THEN None
    ELSE [c EXCEPT !.pc = "d_get", !.tok = Min(rest), !.todo = rest \ {Min(rest)}]

BeginDelete(p, t) ==
    /\ Free(p) /\ t \in opened
    /\ Goes(p, Call("delete", "d_get", t))
    /\ UNCHANGED <<redis, outside, history>>

DeleteGet(p) ==
    /\ At(p, {"login", "delete"}, "d_get")
    /\ Goes(p, [call[p] EXCEPT !.pc = "d_del", !.has[call[p].tok] = Get(call[p].tok)])
    /\ UNCHANGED <<redis, outside, history>>

DeleteKey(p) ==
    /\ At(p, {"login", "delete"}, "d_del")
    /\ store' = [store EXCEPT ![call[p].tok] = None]
    /\ revoked' = revoked \cup {call[p].tok}
    /\ GoesWriting(p, {call[p].tok}, [call[p] EXCEPT !.pc = "d_srem"])
    /\ UNCHANGED <<account, all, outside, opened, raced>>

\* the account's index is only cleaned if the session was still readable
DeleteSRem(p) ==
    /\ At(p, {"login", "delete"}, "d_srem")
    /\ all' = all \ {call[p].tok}
    /\ Goes(p, IF call[p].has[call[p].tok] # None
               THEN [call[p] EXCEPT !.pc = "d_srem_account"]
               ELSE DeleteRest(call[p], call[p].todo))
    /\ UNCHANGED <<store, account, outside, history>>

DeleteSRemAccount(p) ==
    /\ At(p, {"login", "delete"}, "d_srem_account")
    /\ account' = account \ {call[p].tok}
    /\ Goes(p, DeleteRest(call[p], call[p].todo))
    /\ UNCHANGED <<store, all, outside, history>>

(***************************************************************************)
(* prune_excess_sessions: list_account_sessions, then delete the oldest    *)
(***************************************************************************)
PruneRead(p) ==
    /\ At(p, {"login"}, "prune")
    /\ Goes(p, [call[p] EXCEPT !.pc = "list", !.todo = AccountTokens, !.known = AccountTokens])
    /\ UNCHANGED <<redis, outside, history>>

ListGet(p) ==
    /\ At(p, {"login"}, "list")
    /\ \E t \in call[p].todo :
          Goes(p, [call[p] EXCEPT !.todo = @ \ {t}, !.has[t] = Get(t)])
    /\ UNCHANGED <<redis, outside, history>>

MutantExcess(S) == {t \in S : Cardinality({u \in S : u > t}) > MaxSessions}

\* sessions[:-max_sessions] of the sessions sorted by login_at
Excess(S) == {t \in S : Cardinality({u \in S : u > t}) >= MaxSessions}

\* srem of the stale tokens from the global index only
ListEnd(p) ==
    LET found == {t \in call[p].known : call[p].has[t] # None} IN
    /\ At(p, {"login"}, "list") /\ call[p].todo = {}
    /\ all' = all \ (call[p].known \ found)
    /\ Goes(p, DeleteRest([call[p] EXCEPT !.has = NoPayloads, !.known = {}], Excess(found)))
    /\ UNCHANGED <<store, account, outside, history>>

(***************************************************************************)
(* delete_accounts_sessions                                                *)
(***************************************************************************)
BeginDeleteAccount(p) ==
    /\ Free(p)
    /\ Goes(p, [Call("delete_account", "da_del", 0) EXCEPT !.todo = AccountTokens, !.known = opened])
    /\ UNCHANGED <<redis, outside, history>>

\* one DEL for the tokens that were read and for the whole index
DeleteAccountKeys(p) ==
    /\ At(p, {"delete_account"}, "da_del")
    /\ store' = [t \in Tokens |-> IF t \in call[p].todo THEN None ELSE store[t]]
    /\ account' = {}
    /\ revoked' = revoked \cup call[p].known
    /\ raced' = raced \cup (account \ call[p].todo)
    /\ GoesWriting(p, call[p].todo, [call[p] EXCEPT !.pc = "da_srem"])
    /\ UNCHANGED <<all, outside, opened>>

DeleteAccountSRem(p) ==
    /\ At(p, {"delete_account"}, "da_srem")
    /\ all' = all \ call[p].todo
    /\ Goes(p, None)
    /\ UNCHANGED <<store, account, outside, history>>

(***************************************************************************)
(* refresh_accounts_sessions                                               *)
(***************************************************************************)
\* a login that is not in the index yet is missed
BeginRefresh(p) ==
    /\ Free(p) /\ refresh_due
    /\ refresh_due' = FALSE
    /\ Goes(p, IF AccountTokens = {} THEN None
               ELSE [Call("refresh", "mget", 0) EXCEPT !.todo = AccountTokens])
    /\ raced' = raced \cup (LoggingIn \ account)
    /\ UNCHANGED <<redis, logins, perms, opened, revoked>>

MutantRefreshesAll(p) ==
    /\ At(p, {"refresh"}, "mget")
    /\ LET read == [t \in Tokens |-> IF t \notin call[p].todo THEN None
                      ELSE IF store[t] = None THEN Payload(0)
                      ELSE store[t]]
           live == {t \in Tokens : read[t] # None} IN
       Goes(p, IF live = {} THEN None
               ELSE [call[p] EXCEPT !.pc = "factory", !.todo = live, !.has = read])
    /\ UNCHANGED <<redis, outside, history>>

\* mget; tokens without a session are passed over
RefreshRead(p) ==
    /\ At(p, {"refresh"}, "mget")
    /\ LET read == [t \in Tokens |-> IF t \in call[p].todo THEN store[t] ELSE None]
           live == {t \in Tokens : read[t] # None} IN
       Goes(p, IF live = {} THEN None
               ELSE [call[p] EXCEPT !.pc = "factory", !.todo = live, !.has = read])
    /\ UNCHANGED <<redis, outside, history>>

\* external: payload_factory looks up the permissions, one token at a time
Factory(p) ==
    /\ At(p, {"refresh"}, "factory")
    /\ \E t \in call[p].todo :
          Goes(p, [call[p] EXCEPT !.todo = @ \ {t}, !.has[t].perms = perms])
    /\ UNCHANGED <<redis, outside, history>>

\* _set_sessions: one MULTI writes the sessions and both indexes
RefreshWrite(p) ==
    LET new == {t \in Tokens : call[p].has[t] # None} IN
    /\ At(p, {"refresh"}, "factory") /\ call[p].todo = {}
    /\ store' = [t \in Tokens |-> IF t \in new THEN call[p].has[t] ELSE store[t]]
    /\ account' = account \cup new
    /\ all' = all \cup new
    /\ raced' = raced \cup call[p].stale
    /\ GoesWriting(p, new, None)
    /\ UNCHANGED <<outside, opened, revoked>>

(***************************************************************************)
(* A request, and the touch it starts in the background                    *)
(***************************************************************************)
\* get_current_session accepts the token; a rejected one changes nothing
Request(p, t) ==
    /\ Free(p) /\ t \in opened /\ Get(t) # None
    /\ Goes(p, Call("touch", "get", t))
    /\ UNCHANGED <<redis, outside, history>>

\* touch does not look at the idle time-out: a session that fell idle after
\* the request was accepted becomes usable again
TouchRead(p) ==
    LET t == call[p].tok IN
    /\ At(p, {"touch"}, "get")
    /\ Goes(p, IF store[t] = None THEN None
               ELSE [call[p] EXCEPT !.pc = "setex",
                                    !.has[t] = [store[t] EXCEPT !.idle = FALSE],
                                    !.stale = IF store[t].idle THEN {t} ELSE {}])
    /\ UNCHANGED <<redis, outside, history>>

MutantForgetsPerms(p) ==
    /\ At(p, {"touch"}, "setex")
    /\ store' = [store EXCEPT ![call[p].tok] = [call[p].has[call[p].tok] EXCEPT !.perms = 0]]
    /\ raced' = raced \cup call[p].stale
    /\ GoesWriting(p, {call[p].tok}, None)
    /\ UNCHANGED <<account, all, outside, opened, revoked>>

TouchWrite(p) ==
    /\ At(p, {"touch"}, "setex")
    /\ store' = [store EXCEPT ![call[p].tok] = call[p].has[call[p].tok]]
    /\ raced' = raced \cup call[p].stale
    /\ GoesWriting(p, {call[p].tok}, None)
    /\ UNCHANGED <<account, all, outside, opened, revoked>>

(***************************************************************************)
(* The environment.                                                        *)
(***************************************************************************)
\* the TTL of the key runs out; the indexes have none
Expire(t) ==
    /\ store[t] # None
    /\ store' = [store EXCEPT ![t] = None]
    /\ call' = Outdated(None, {t})
    /\ UNCHANGED <<account, all, outside, history>>

GrowIdle(t) ==
    /\ Get(t) # None
    /\ store' = [store EXCEPT ![t].idle = TRUE]
    /\ call' = Outdated(None, {t})
    /\ UNCHANGED <<account, all, outside, history>>

\* the caller changes permissions and then calls refresh_account_sessions
ChangePermissions ==
    /\ perms < MaxChanges
    /\ perms' = perms + 1
    /\ refresh_due' = TRUE
    /\ UNCHANGED <<redis, call, logins, history>>

Set(p) == BeginLogin(p) \/ SetEx(p) \/ SAddAccount(p) \/ SAddAll(p)
Prune(p) == PruneRead(p) \/ ListGet(p) \/ ListEnd(p)
Delete(p) ==
    \/ \E t \in Tokens : BeginDelete(p, t)
    \/ DeleteGet(p) \/ DeleteKey(p) \/ DeleteSRem(p) \/ DeleteSRemAccount(p)
DeleteAccount(p) == BeginDeleteAccount(p) \/ DeleteAccountKeys(p) \/ DeleteAccountSRem(p)
Refresh(p) == BeginRefresh(p) \/ RefreshRead(p) \/ Factory(p) \/ RefreshWrite(p)
Touch(p) == (\E t \in Tokens : Request(p, t)) \/ TouchRead(p) \/ TouchWrite(p)

Next ==
    \/ \E p \in Procs : Set(p) \/ Prune(p) \/ Delete(p) \/ DeleteAccount(p)
                           \/ Refresh(p) \/ Touch(p)
    \/ \E t \in Tokens : Expire(t) \/ GrowIdle(t)
    \/ ChangePermissions

Spec == Init /\ [][Next]_vars

(***************************************************************************)
(* Properties.  A session is raced if touch or refresh wrote it from a     *)
(* read (or for a request) older than its latest change, if an account-    *)
(* wide delete dropped it from the index without having read it, or if a   *)
(* refresh looked for it before its login reached the index: the three     *)
(* windows the code leaves open.                                           *)
(***************************************************************************)

\* Outside the three windows a session that was logged out, pruned or open
\* when an account-wide log-out began never authenticates again.
RevokedStaysDead == \A t \in revoked : store[t] # None => t \in raced

\* Outside the three windows every live session is in its account's index,
\* so that account-wide log-out, refresh and pruning reach it.
Findable == \A t \in opened \ raced : store[t] # None => t \in account

Quiet == \A p \in Procs : Free(p)

\* Outside the three windows at most MaxSessions sessions are usable once
\* all logins are through, however their prunings interleaved.
SessionLimit == Quiet => Cardinality({t \in Tokens \ raced : Get(t) # None}) <= MaxSessions

\* Outside the three windows no session keeps permissions older than the last
\* change whose refresh has run.
PermissionsCurrent ==
    Quiet /\ ~refresh_due => \A t \in Tokens \ raced : store[t] # None => store[t].perms = perms
=============================================================================
