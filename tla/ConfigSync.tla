----------------------------- MODULE ConfigSync -----------------------------
(***************************************************************************)
(* The configuration events of app/platform/config: the version counter of *)
(* ConfigReader (reader.py) and the listener on the Redis channel          *)
(* (sync.py).  A reload raises the version, applies the overrides of a     *)
(* snapshot nothing ever fills, and drops the cached storage clients, so   *)
(* the version is all of it that this process can tell apart.  A message   *)
(* reaches the processes that are subscribed at that moment.               *)
(***************************************************************************)
EXTENDS Naturals, Sequences, SequencesExt, FiniteSets

CONSTANT MaxConfig    \* bound: events

VARIABLES version,    \* ConfigReader._version
          listener,   \* "off", "created", "subscribing", "listening", "sleeping"
          inbox,      \* what waits in the subscription: [source, id]
          sent,       \* events so far; the id of an event is its number
          loads,      \* history: loads this process asked for itself
          heard,      \* history: peers' events that reached the subscription
          answered,   \* history: events the listener reloaded on
          lost,       \* history: peers' events closed away with a subscription
          failures    \* history: the listener has failed at least once

histories == <<loads, heard, answered, lost, failures>>
sync == <<version, listener, inbox, sent, histories>>

SyncInit ==
    /\ version = 0 /\ listener = "off" /\ inbox = <<>> /\ sent = 0 /\ loads = 0
    /\ heard = {} /\ answered = {} /\ lost = {} /\ failures = FALSE

\* load_all; apply_sys_config finds no override; clear_storage_cache
Reload == version' = version + 1

LoadAll ==
    /\ Reload
    /\ loads' = loads + 1
    /\ UNCHANGED <<listener, inbox, sent, heard, answered, lost, failures>>

\* the peers' events nobody has taken yet
Waiting == {inbox[i].id : i \in {j \in DOMAIN inbox : inbox[j].source = "peer"}}

\* what waits in a subscription is gone with it
ClosePubsub ==
    /\ lost' = lost \cup Waiting
    /\ inbox' = <<>>

StartListener ==
    /\ listener' = "created"
    /\ UNCHANGED <<version, inbox, sent, histories>>

ListenerRuns ==
    /\ listener = "created"
    /\ listener' = "subscribing"
    /\ UNCHANGED <<version, inbox, sent, histories>>

Subscribe ==
    /\ listener = "subscribing"
    /\ listener' = "listening"
    /\ UNCHANGED <<version, inbox, sent, histories>>

MutantEchoes ==
    /\ listener = "listening" /\ inbox # <<>>
    /\ inbox' = Tail(inbox)
    /\ Reload /\ answered' = answered \cup {Head(inbox).id}
    /\ UNCHANGED <<listener, sent, loads, heard, lost, failures>>

\* an own message is passed over, a peer's reloads
Receive ==
    /\ listener = "listening" /\ inbox # <<>>
    /\ inbox' = Tail(inbox)
    /\ \/ Head(inbox).source = "self" /\ UNCHANGED <<version, answered>>
       \/ Head(inbox).source = "peer" /\ Reload /\ answered' = answered \cup {Head(inbox).id}
    /\ UNCHANGED <<listener, sent, loads, heard, lost, failures>>

\* the reload raises, after load_all has raised the version
ReceiveRaises ==
    /\ listener = "listening" /\ inbox # <<>> /\ Head(inbox).source = "peer"
    /\ listener' = "sleeping" /\ failures' = TRUE
    /\ inbox' = Tail(inbox)
    /\ Reload /\ answered' = answered \cup {Head(inbox).id}
    /\ UNCHANGED <<sent, loads, heard, lost>>

\* subscribe or get_message raises
ListenerFails ==
    /\ listener \in {"subscribing", "listening"}
    /\ listener' = "sleeping" /\ failures' = TRUE
    /\ UNCHANGED <<version, inbox, sent, loads, heard, answered, lost>>

\* the subscription is closed after the five seconds, not before them
ListenerWakes ==
    /\ listener = "sleeping"
    /\ listener' = "subscribing"
    /\ ClosePubsub
    /\ UNCHANGED <<version, sent, loads, heard, answered, failures>>

\* cancel, await, unsubscribe, close
StopListener ==
    /\ listener' = "off"
    /\ ClosePubsub
    /\ UNCHANGED <<version, sent, loads, heard, answered, failures>>

Message(source) == [source |-> source, id |-> sent + 1]

\* a sleeping listener's connection may still be up
Reached(source) == listener \in {"listening", "sleeping"} /\ inbox' = Append(inbox, Message(source))

\* reload_and_publish of this process, whose publish may fail; the message
\* comes back to it
LocalChange ==
    /\ sent < MaxConfig
    /\ sent' = sent + 1
    /\ Reload /\ loads' = loads + 1
    /\ Reached("self") \/ UNCHANGED inbox
    /\ UNCHANGED <<listener, heard, answered, lost, failures>>

\* external: the same in another process
PeerChange ==
    /\ sent < MaxConfig
    /\ sent' = sent + 1
    /\ \/ Reached("peer") /\ heard' = heard \cup {sent + 1}
       \/ UNCHANGED <<inbox, heard>>
    /\ UNCHANGED <<version, listener, loads, answered, lost, failures>>

\* The listener reloads once on every event of a peer that reached it, in the
\* order they arrived, and never on an event of its own process; an event that
\* was heard and not answered waits in the subscription, or went away with one
\* that had failed or was stopped.  The version counts exactly the loads this
\* process asked for and the events it answered.
EventsAnsweredOnce ==
    /\ version = loads + Cardinality(answered)
    /\ heard = answered \cup lost \cup Waiting
    /\ answered \cap lost = {}
    /\ \A a \in answered \cup lost, w \in Waiting : a < w
    /\ lost # {} => failures \/ listener = "off"
=============================================================================
