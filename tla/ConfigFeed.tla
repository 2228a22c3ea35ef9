----------------------------- MODULE ConfigFeed -----------------------------
(***************************************************************************)
(* What the configuration service promises its clients, without handlers,  *)
(* caches, requests or failures: the content of an environment changes, a  *)
(* version is published from time to time, and a client is served some     *)
(* content, possibly old, under a version that it can be compared by: under *)
(* the current version, nothing older than what that version was published *)
(* with. ConfigSync implements it.                                         *)
(***************************************************************************)
EXTENDS Naturals

CONSTANTS
    Envs,
    Tables,
    Clients,
    EnvOf,     \* EnvOf[c]: the environment client c asks for
    NoConfig

VARIABLES
    content,   \* content[e][t]: the revision of table group t for environment e
    version,   \* version[e]
    floor,     \* floor[e]: content[e] when version[e] was published
    held       \* held[c]: what client c was served last

vars == <<content, version, floor, held>>

Init ==
    /\ content = [e \in Envs |-> [t \in Tables |-> 0]]
    /\ version = [e \in Envs |-> 1]
    /\ floor = content
    /\ held = [c \in Clients |-> NoConfig]

\* One commit changes some tables of some environments.
Change ==
    /\ \E touched \in SUBSET (Envs \X Tables) :
         content' = [e \in Envs |-> [t \in Tables |->
                       IF <<e, t>> \in touched THEN content[e][t] + 1 ELSE content[e][t]]]
    /\ UNCHANGED <<version, floor, held>>

Publish(e) ==
    /\ version' = [version EXCEPT ![e] = @ + 1]
    /\ floor' = [floor EXCEPT ![e] = content[e]]
    /\ UNCHANGED <<content, held>>

\* The parts that may be served for e under version v.
Servable(e, v) ==
    {parts \in [Tables -> UNION {0..content[e][t] : t \in Tables}] :
        \A t \in Tables : /\ parts[t] <= content[e][t]
                          /\ v = version[e] => floor[e][t] <= parts[t]}

Serve(c) ==
    /\ \E v \in 0..version[EnvOf[c]] : \E parts \in Servable(EnvOf[c], v) :
         held' = [held EXCEPT ![c] = [version |-> v, parts |-> parts]]
    /\ UNCHANGED <<content, version, floor>>

Next ==
    \/ Change
    \/ \E e \in Envs : Publish(e)
    \/ \E c \in Clients : Serve(c)

Spec == Init /\ [][Next]_vars
=============================================================================
