------------------------- MODULE PermissionRegistry -------------------------
(***************************************************************************)
(* app/core/security/permission_registry.py: the routes are scanned for    *)
(* permission keys and the result is written to two Redis keys, which      *)
(* every process shares.  A route is [keys, methods]; keys and methods are *)
(* numbers in the order of their names.                                    *)
(***************************************************************************)
EXTENDS Integers, Sequences, FiniteSetsExt

VARIABLES resources,   \* the key list in Redis
          methods,     \* the key-to-method map in Redis
          own,         \* what this process scanned
          peer,        \* writes another process has made: 0, 1 or 2
          log          \* history: who made the writes, in their order

registry == <<resources, methods, own, peer, log>>

RegistryInit ==
    /\ resources = {} /\ methods = <<>> /\ own = <<>> /\ peer = 0 /\ log = <<>>

DELETE == 1
GET == 2
HEAD == 3
OPTIONS == 4

NormalizeMethods(route) == route.methods \ {HEAD, OPTIONS}

\* the first of the sorted keys; a route without key or method is passed over
Usable(routes) == {i \in DOMAIN routes : routes[i].keys # {} /\ NormalizeMethods(routes[i]) # {}}
KeyOf(route) == Min(route.keys)

\* scan_permission_registry: the first route with a key names its method
Scan(routes) ==
    [k \in {KeyOf(routes[i]) : i \in Usable(routes)} |->
        LET i == Min({j \in Usable(routes) : KeyOf(routes[j]) = k}) IN Min(NormalizeMethods(routes[i]))]

MutantWritesEmpty(routes) ==
    /\ own' = Scan(routes)
    /\ resources' = DOMAIN Scan(routes)
    /\ log' = Append(log, "own")
    /\ UNCHANGED <<methods, peer>>

\* sync_permission_registry up to the first redis.set; an empty scan raises
WriteResources(routes) ==
    /\ DOMAIN Scan(routes) # {}
    /\ own' = Scan(routes)
    /\ resources' = DOMAIN Scan(routes)
    /\ log' = Append(log, "own")
    /\ UNCHANGED <<methods, peer>>

WriteMethods ==
    /\ methods' = own
    /\ log' = Append(log, "own")
    /\ UNCHANGED <<resources, own, peer>>

\* external: a process of another release does the same
PeerWrites(theirs) ==
    /\ peer < 2
    /\ peer' = peer + 1
    /\ IF peer = 0 THEN resources' = DOMAIN theirs /\ UNCHANGED methods
                   ELSE methods' = theirs /\ UNCHANGED resources
    /\ log' = Append(log, "peer")
    /\ UNCHANGED own

\* list_registered_permission_keys raises if there is no list yet
Synced == resources # {}

\* ensure_registered_permission_keys accepts the keys
Registered(keys) == Synced /\ keys \subseteq resources
=============================================================================
