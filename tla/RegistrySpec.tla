---------------------------- MODULE RegistrySpec ----------------------------
(***************************************************************************)
(* What the comments of include/Registry.hpp promise of a registry: a      *)
(* store of the objects registered by key, which only registerByKey and    *)
(* unregisterByKey change, and queries that tell what is in it.            *)
(***************************************************************************)
CONSTANTS
  Key,
  Object,         \* pointers that are registered
  Null            \* the default-constructed pointer

VARIABLES
  registered,     \* the registered objects by key
  answer          \* what the latest call returned

vars == <<registered, answer>>

Store == UNION {[keys -> Object] : keys \in SUBSET Key}
Answer(op, key, object, found, keys) ==
  [op |-> op, key |-> key, object |-> object, found |-> found, keys |-> keys]

Init ==
  /\ registered = [k \in {} |-> Null]
  /\ answer = Answer("none", Null, Null, FALSE, {})

(* "Returns a T object if already registered by key, otherwise returns a     *)
(* default-constructed T object if the key does not exist."                  *)
Dispatch(k) ==
  /\ answer' = Answer("dispatch", k,
                      IF k \in DOMAIN registered THEN registered[k] ELSE Null, FALSE, {})
  /\ UNCHANGED registered

RegisterByKey(k, o) ==
  /\ registered' = [x \in DOMAIN registered \cup {k} |-> IF x = k THEN o ELSE registered[x]]
  /\ answer' = Answer("registerByKey", k, o, TRUE, {})

UnregisterByKey(k) ==
  /\ registered' = [x \in DOMAIN registered \ {k} |-> registered[x]]
  /\ answer' = Answer("unregisterByKey", k, Null, FALSE, {})

(* "Test whether the given key is registered"                                *)
IsRegistered(k) ==
  /\ answer' = Answer("isRegistered", k, Null, k \in DOMAIN registered, {})
  /\ UNCHANGED registered

(* "registered keys"                                                         *)
GetKeyList ==
  /\ answer' = Answer("getKeyList", Null, Null, FALSE, DOMAIN registered)
  /\ UNCHANGED registered

Next ==
  \/ \E k \in Key : Dispatch(k) \/ UnregisterByKey(k) \/ IsRegistered(k)
  \/ \E k \in Key, o \in Object : RegisterByKey(k, o)
  \/ GetKeyList

Spec == Init /\ [][Next]_vars
=============================================================================
