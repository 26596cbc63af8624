--------------------------- MODULE RegistryProofs ---------------------------
(***************************************************************************)
(* Registry implements RegistrySpec, for every set of keys and objects.    *)
(***************************************************************************)
EXTENDS Registry, TLAPS

LEMMA AnswerType ==
  ASSUME NEW op \in Op, NEW key \in Key \cup {Null}, NEW object \in Object \cup {Null},
         NEW found \in BOOLEAN, NEW keys \in SUBSET Key
  PROVE  Answer(op, key, object, found, keys) \in Answers
BY DEF Answer, Answers

(* Keys map to objects or to null, whatever is called in whatever order.     *)
THEOREM TypeCorrect == Spec => []TypeOK
<1>1. Init => TypeOK
  <2>1. Init => map \in Maps BY DEF Init, Maps
  <2>2. Init => answer \in Answers BY AnswerType DEF Init, Op
  <2> QED BY <2>1, <2>2 DEF TypeOK
<1>2. TypeOK /\ [Next]_vars => TypeOK'
  <2> SUFFICES ASSUME TypeOK, [Next]_vars PROVE TypeOK' OBVIOUS
  <2>1. DOMAIN map \subseteq Key /\ \A k \in DOMAIN map : map[k] \in Object \cup {Null}
    BY DEF TypeOK, Maps
  <2>2. ASSUME NEW k \in Key, NEW o \in Object \cup {Null} PROVE Put(k, o) \in Maps
    <3>1. Put(k, o) \in [DOMAIN map \cup {k} -> Object \cup {Null}] BY <2>1, <2>2 DEF Put
    <3> QED BY <2>1, <2>2, <3>1 DEF Maps
  <2>3. ASSUME NEW k \in Key PROVE Erase(k) \in Maps
    <3>1. Erase(k) \in [DOMAIN map \ {k} -> Object \cup {Null}] BY <2>1 DEF Erase
    <3> QED BY <2>1, <3>1 DEF Maps
  <2>4. ASSUME NEW k \in Key PROVE At(k) \in Object \cup {Null} BY <2>1 DEF At
  <2>5. ASSUME NEW k \in Key, Dispatch(k) PROVE TypeOK'
    <3>1. answer' \in Answers BY <2>4, <2>5, AnswerType DEF Dispatch, Op
    <3> QED BY <2>2, <2>4, <2>5, <3>1 DEF Dispatch, TypeOK
  <2>6. ASSUME NEW k \in Key, NEW o \in Object, RegisterByKey(k, o) PROVE TypeOK'
    <3>1. answer' \in Answers BY <2>6, AnswerType DEF RegisterByKey, Op
    <3> QED BY <2>2, <2>6, <3>1 DEF RegisterByKey, TypeOK
  <2>7. ASSUME NEW k \in Key, UnregisterByKey(k) PROVE TypeOK'
    <3>1. answer' \in Answers BY <2>7, AnswerType DEF UnregisterByKey, Op
    <3> QED BY <2>3, <2>7, <3>1 DEF UnregisterByKey, TypeOK
  <2>8. ASSUME NEW k \in Key, IsRegistered(k) PROVE TypeOK'
    <3> DEFINE found == k \in DOMAIN map
    <3>1. answer' = Answer("isRegistered", k, Null, found, {}) BY <2>8 DEF IsRegistered
    <3>2. found \in BOOLEAN OBVIOUS
    <3> HIDE DEF found
    <3>3. answer' \in Answers BY <3>1, <3>2, AnswerType DEF Op
    <3> QED BY <2>8, <3>3 DEF IsRegistered, TypeOK
  <2>9. CASE GetKeyList
    <3>1. answer' \in Answers BY <2>1, <2>9, AnswerType DEF GetKeyList, Op
    <3> QED BY <2>9, <3>1 DEF GetKeyList, TypeOK
  <2>10. CASE UNCHANGED vars BY <2>10 DEF vars, TypeOK
  <2> QED BY <2>5, <2>6, <2>7, <2>8, <2>9, <2>10 DEF Next
<1> QED BY <1>1, <1>2, PTL DEF Spec

(* What dispatch returns is what is registered, or null.                     *)
LEMMA AtRegistered ==
  ASSUME NEW k
  PROVE  At(k) = IF k \in DOMAIN Registered THEN Registered[k] ELSE Null
BY DEF At, Registered

(* Storing what dispatch has read, null for a missing key, registers nothing. *)
LEMMA PutRead ==
  ASSUME NEW k, map' = Put(k, At(k))
  PROVE  Registered' = Registered
<1>1. \A x \in DOMAIN map' : map'[x] = At(x) BY DEF Put, At
<1>2. {x \in DOMAIN map' : map'[x] # Null} = {x \in DOMAIN map : map[x] # Null}
  BY <1>1 DEF Put, At
<1>3. Registered' = [x \in {y \in DOMAIN map' : map'[y] # Null} |-> map'[x]]
  BY DEF Registered
<1>4. \A x \in {y \in DOMAIN map : map[y] # Null} : map'[x] = map[x]
  BY <1>1, <1>2 DEF At
<1> QED BY <1>2, <1>3, <1>4 DEF Registered

(* Storing an object registers it, for its key only.                         *)
LEMMA PutObject ==
  ASSUME NEW k, NEW o \in Object, map' = Put(k, o)
  PROVE  Registered' = [x \in DOMAIN Registered \cup {k} |->
                          IF x = k THEN o ELSE Registered[x]]
<1>1. o # Null BY RegistryAssumption
<1>2. DOMAIN Registered = {x \in DOMAIN map : map[x] # Null} BY DEF Registered
<1>3. {x \in DOMAIN map' : map'[x] # Null} = DOMAIN Registered \cup {k}
  BY <1>1, <1>2 DEF Put
<1>4. Registered' = [x \in {y \in DOMAIN map' : map'[y] # Null} |-> map'[x]]
  BY DEF Registered
<1>5. \A x \in DOMAIN Registered \cup {k} :
         map'[x] = IF x = k THEN o ELSE Registered[x]
  BY DEF Put, Registered
<1> QED BY <1>3, <1>4, <1>5

(* Erasing a key unregisters it and nothing else.                            *)
LEMMA EraseKey ==
  ASSUME NEW k, map' = Erase(k)
  PROVE  Registered' = [x \in DOMAIN Registered \ {k} |-> Registered[x]]
<1>1. DOMAIN Registered = {x \in DOMAIN map : map[x] # Null} BY DEF Registered
<1>2. {x \in DOMAIN map' : map'[x] # Null} = DOMAIN Registered \ {k}
  BY <1>1 DEF Erase
<1>3. Registered' = [x \in {y \in DOMAIN map' : map'[y] # Null} |-> map'[x]]
  BY DEF Registered
<1>4. \A x \in DOMAIN Registered \ {k} : map'[x] = Registered[x]
  BY <1>1 DEF Erase, Registered
<1> QED BY <1>2, <1>3, <1>4

(* What is told after a step: the answer without the keys left behind.       *)
LEMMA ToldNext ==
  ASSUME NEW op, NEW key, NEW object, NEW found, NEW keys,
         answer' = Answer(op, key, object, found, keys)
  PROVE  Told' = Promise!Answer(op, key, object, found /\ key \notin LeftBehind',
                                keys \ LeftBehind')
<1>1. /\ answer'.op = op /\ answer'.key = key /\ answer'.object = object
      /\ answer'.found = found /\ answer'.keys = keys
  BY DEF Answer
<1>2. Told' = Answer(answer'.op, answer'.key, answer'.object,
                     answer'.found /\ answer'.key \notin LeftBehind',
                     answer'.keys \ LeftBehind')
  BY DEF Told
<1>3. Told' = Answer(op, key, object, found /\ key \notin LeftBehind', keys \ LeftBehind')
  BY <1>1, <1>2, Zenon
<1> QED BY <1>3 DEF Answer, Promise!Answer

(* Without a positive answer nothing is taken out.                            *)
LEMMA NothingFound ==
  ASSUME NEW op, NEW key, NEW object, answer' = Answer(op, key, object, FALSE, {})
  PROVE  Told' = Promise!Answer(op, key, object, FALSE, {})
<1>1. /\ answer'.op = op /\ answer'.key = key /\ answer'.object = object
      /\ answer'.found = FALSE /\ answer'.keys = {}
  BY DEF Answer
<1>2. Told' = Answer(answer'.op, answer'.key, answer'.object,
                     answer'.found /\ answer'.key \notin LeftBehind',
                     answer'.keys \ LeftBehind')
  BY DEF Told
<1>3. (answer'.found /\ answer'.key \notin LeftBehind') = FALSE BY <1>1
<1>4. answer'.keys \ LeftBehind' = {} BY <1>1
<1>5. Told' = Answer(op, key, object, FALSE, {}) BY <1>1, <1>2, <1>3, <1>4, Zenon
<1> QED BY <1>5 DEF Answer, Promise!Answer

(* The registry keeps what its documentation promises: a query changes no    *)
(* registration and tells of the registered keys, those dispatch left behind *)
(* aside, and dispatch finds the latest registration.                        *)
THEOREM Refinement == Spec => Implements
<1>1. Init => Promise!Init
  <2> SUFFICES ASSUME Init PROVE Promise!Init OBVIOUS
  <2>1. DOMAIN map = {} /\ answer = Answer("none", Null, Null, FALSE, {}) BY DEF Init
  <2>2. DOMAIN Registered = {} BY <2>1 DEF Registered
  <2>3. Registered = [k \in {} |-> Null] BY <2>1 DEF Registered
  <2>4. Told = Promise!Answer("none", Null, Null, FALSE, {})
    BY <2>1 DEF Told, Answer, Promise!Answer
  <2> QED BY <2>3, <2>4 DEF Promise!Init
<1>2. TypeOK /\ [Next]_vars => [Promise!Next]_(Promise!vars)
  <2> SUFFICES ASSUME TypeOK, [Next]_vars PROVE [Promise!Next]_(Promise!vars) OBVIOUS
  <2>1. ASSUME map' = map
        PROVE  Registered' = Registered /\ LeftBehind' = LeftBehind
    BY <2>1 DEF Registered, LeftBehind
  <2>2. DOMAIN Registered \subseteq DOMAIN map /\ DOMAIN map \subseteq Key
    BY DEF Registered, TypeOK, Maps
  <2>3. /\ DOMAIN map \ LeftBehind = DOMAIN Registered
        /\ \A k : (k \in DOMAIN map /\ k \notin LeftBehind) = (k \in DOMAIN Registered)
    BY <2>2 DEF LeftBehind
  <2>4. \A S : {} \ S = {} OBVIOUS
  <2>5. ASSUME NEW k \in Key, Dispatch(k) PROVE Promise!Dispatch(k)
    <3>1. map' = Put(k, At(k)) /\ answer' = Answer("dispatch", k, At(k), FALSE, {})
      BY <2>5 DEF Dispatch
    <3>2. Told' = Promise!Answer("dispatch", k, At(k), FALSE, {})
      BY <3>1, NothingFound, Zenon
    <3> QED BY <3>1, <3>2, AtRegistered, PutRead DEF Promise!Dispatch
  <2>6. ASSUME NEW k \in Key, NEW o \in Object, RegisterByKey(k, o)
        PROVE  Promise!RegisterByKey(k, o)
    <3>1. map' = Put(k, o) /\ answer' = Answer("registerByKey", k, o, TRUE, {})
      BY <2>6 DEF RegisterByKey
    <3>2. Registered' = [x \in DOMAIN Registered \cup {k} |->
                           IF x = k THEN o ELSE Registered[x]]
      BY <3>1, PutObject
    <3>3. k \notin LeftBehind' BY <3>2 DEF LeftBehind
    <3>4. Told' = Promise!Answer("registerByKey", k, o, TRUE /\ k \notin LeftBehind',
                                 {} \ LeftBehind')
      BY <3>1, ToldNext, Zenon
    <3>5. (TRUE /\ k \notin LeftBehind') = TRUE BY <3>3
    <3>6. Told' = Promise!Answer("registerByKey", k, o, TRUE, {})
      BY <2>4, <3>4, <3>5, Zenon
    <3> QED BY <3>2, <3>6 DEF Promise!RegisterByKey
  <2>7. ASSUME NEW k \in Key, UnregisterByKey(k) PROVE Promise!UnregisterByKey(k)
    <3>1. map' = Erase(k) /\ answer' = Answer("unregisterByKey", k, Null, FALSE, {})
      BY <2>7 DEF UnregisterByKey
    <3>2. Told' = Promise!Answer("unregisterByKey", k, Null, FALSE, {})
      BY <3>1, NothingFound, Zenon
    <3> QED BY <3>1, <3>2, EraseKey DEF Promise!UnregisterByKey
  <2>8. ASSUME NEW k \in Key, IsRegistered(k) PROVE Promise!IsRegistered(k)
    <3>1. map' = map /\ answer' = Answer("isRegistered", k, Null, k \in DOMAIN map, {})
      BY <2>8 DEF IsRegistered
    <3>2. Told' = Promise!Answer("isRegistered", k, Null,
                                 k \in DOMAIN map /\ k \notin LeftBehind', {} \ LeftBehind')
      BY <3>1, ToldNext, Zenon
    <3>3. Told' = Promise!Answer("isRegistered", k, Null, k \in DOMAIN Registered, {})
      BY <2>1, <2>3, <2>4, <3>1, <3>2, Zenon
    <3> QED BY <2>1, <3>1, <3>3 DEF Promise!IsRegistered
  <2>9. ASSUME GetKeyList PROVE Promise!GetKeyList
    <3>1. map' = map /\ answer' = Answer("getKeyList", Null, Null, FALSE, DOMAIN map)
      BY <2>9 DEF GetKeyList
    <3>2. Told' = Promise!Answer("getKeyList", Null, Null, FALSE, DOMAIN map \ LeftBehind')
      BY <3>1, ToldNext, Zenon
    <3> QED BY <2>1, <2>3, <3>1, <3>2 DEF Promise!GetKeyList
  <2>10. CASE UNCHANGED vars
    <3>1. map' = map /\ answer' = answer BY <2>10 DEF vars
    <3>2. Told' = Told BY <2>1, <3>1 DEF Told
    <3> QED BY <2>1, <3>1, <3>2 DEF Promise!vars
  <2> QED BY <2>5, <2>6, <2>7, <2>8, <2>9, <2>10 DEF Next, Promise!Next
<1> QED BY <1>1, <1>2, TypeCorrect, PTL DEF Spec, Implements, Promise!Spec
=============================================================================
