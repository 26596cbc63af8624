------------------------------ MODULE Registry ------------------------------
(***************************************************************************)
(* Registry<T> (include/Registry.hpp): FSRegistry, which the analyses take *)
(* their feature set from, and FARegistry, which the tool lists.  The      *)
(* store is one StringMap, and dispatch reads it with operator[], which    *)
(* inserts a null pointer for a key it does not find.                      *)
(***************************************************************************)
CONSTANTS
  Key,
  Object,         \* pointers that are registered: never null
  Null            \* T()

VARIABLES
  map,            \* static llvm::StringMap<T> registry_map
  answer          \* what the latest call returned

vars == <<map, answer>>

ASSUME RegistryAssumption == Null \notin Object

Maps == UNION {[keys -> Object \cup {Null}] : keys \in SUBSET Key}
Op == {"none", "dispatch", "registerByKey", "isRegistered", "unregisterByKey", "getKeyList"}
Answers == [op : Op, key : Key \cup {Null}, object : Object \cup {Null},
            found : BOOLEAN, keys : SUBSET Key]
Answer(op, key, object, found, keys) ==
  [op |-> op, key |-> key, object |-> object, found |-> found, keys |-> keys]

\* StringMap: a reference by operator[], and erase
At(k) == IF k \in DOMAIN map THEN map[k] ELSE Null
Put(k, o) == [x \in DOMAIN map \cup {k} |-> IF x = k THEN o ELSE map[x]]
Erase(k) == [x \in DOMAIN map \ {k} |-> map[x]]

Init ==
  /\ map = [k \in {} |-> Null]
  /\ answer = Answer("none", Null, Null, FALSE, {})

Dispatch(k) ==
  /\ map' = Put(k, At(k))
  /\ answer' = Answer("dispatch", k, At(k), FALSE, {})

\* mutant: try_emplace, which keeps what the key already maps to
RegisterByKeyOnce(k, o) ==
  /\ map' = IF k \in DOMAIN map THEN map ELSE Put(k, o)
  /\ answer' = Answer("registerByKey", k, o, TRUE, {})

RegisterByKey(k, o) ==
  /\ map' = Put(k, o)
  /\ answer' = Answer("registerByKey", k, o, TRUE, {})

IsRegistered(k) ==
  /\ answer' = Answer("isRegistered", k, Null, k \in DOMAIN map, {})
  /\ UNCHANGED map

UnregisterByKey(k) ==
  /\ map' = Erase(k)
  /\ answer' = Answer("unregisterByKey", k, Null, FALSE, {})

GetKeyList ==
  /\ answer' = Answer("getKeyList", Null, Null, FALSE, DOMAIN map)
  /\ UNCHANGED map

Next ==
  \/ \E k \in Key : Dispatch(k) \/ IsRegistered(k) \/ UnregisterByKey(k)
  \/ \E k \in Key, o \in Object : RegisterByKey(k, o)
  \/ GetKeyList

Spec == Init /\ [][Next]_vars
-----------------------------------------------------------------------------
(* Type invariant: keys map to objects or to null.                           *)
TypeOK ==
  /\ map \in Maps
  /\ answer \in Answers

(* The objects that are really there, and the keys of the null pointers that *)
(* dispatch left behind: no object is registered under those.                *)
Registered == [k \in {x \in DOMAIN map : map[x] # Null} |-> map[k]]
LeftBehind == DOMAIN map \ DOMAIN Registered
Told == Answer(answer.op, answer.key, answer.object,
               answer.found /\ answer.key \notin LeftBehind, answer.keys \ LeftBehind)

(* What the comments promise, up to the keys dispatch left behind: dispatch  *)
(* answers with the latest object registered for the key and with null       *)
(* without one; however calls are mixed no query makes, changes or hides a   *)
(* registration, although dispatch writes to the map; and a query names      *)
(* every registered key and, beside those left behind, no other.             *)
Promise == INSTANCE RegistrySpec WITH registered <- Registered, answer <- Told
Implements == Promise!Spec

(* The promise without that exception: Registry.hpp:41 says "Test whether    *)
(* the given key is registered" of isRegistered and line 47 "registered      *)
(* keys" of getKeyList, so neither names a key that no object is registered  *)
(* for.                                                                      *)
QueriesTellRegistered ==
  /\ answer.op = "isRegistered" => answer.found = (answer.key \in DOMAIN Registered)
  /\ answer.op = "getKeyList" => answer.keys = DOMAIN Registered
=============================================================================
