---------------------------- MODULE SecretsProofs ----------------------------
(***************************************************************************)
(* Proofs about the password secret and set-password (Secrets), for every  *)
(* set of units and passwords and every bound.                             *)
(*                                                                         *)
(* The argument rests on one fact about _on_set_password: its secret write *)
(* is the write of the current leader, from a cache equal to the current   *)
(* content (CacheInv).  The leader check at the top of the action, and     *)
(* leadership not moving inside a hook, mean no other write happens       *)
(* between the hook's read of the secret and its write-back.               *)
(***************************************************************************)
EXTENDS Secrets, TLAPS

\* Only the leader is between the two writes of set-password, and its
\* cache of the secret is still the content.
CacheInv ==
    \A u \in Unit : act[u] # None => u = leader /\ act[u].cache = content

IInv == TypeOK /\ CacheInv

\* MongoDB holds the passwords of the store once the pending write lands.
DbInv == dbPwd = StoreView

-----------------------------------------------------------------------------
(* Type correctness                                                        *)

LEMMA BoundsNat == MaxSets \in Nat /\ MaxSetErrors \in Nat
BY SecretsAssumption

LEMMA InitType == Init => TypeOK
<1> SUFFICES ASSUME Init PROVE TypeOK
  OBVIOUS
<1>1. sets \in 0..MaxSets /\ setErrors \in 0..MaxSetErrors
  BY BoundsNat DEF Init
<1>2. QED
  BY <1>1 DEF Init, TypeOK, Service, User

\* ConnectServices keeps a unit's services typed when the cache is.
LEMMA ConnectType ==
    ASSUME TypeOK, NEW u \in Unit, NEW cache \in [User -> Pwd],
           NEW S \in SUBSET Service, ConnectServices(u, cache, S)
    PROVE  svcPwd' \in [Unit -> [Service -> Pwd]]
BY DEF TypeOK, ConnectServices, GetSecret, Service, User

LEMMA TypeStep == TypeOK /\ [Next]_vars => TypeOK'
<1> SUFFICES ASSUME TypeOK, [Next]_vars PROVE TypeOK'
  OBVIOUS
<1>1. ASSUME NEW u \in Unit, NEW usr \in User, NEW p \in Pwd,
             SetPasswordDb(u, usr, p)
      PROVE  TypeOK'
  <2>1. sets' \in 0..MaxSets
    BY <1>1, BoundsNat DEF SetPasswordDb, TypeOK
  <2>2. QED
    BY <1>1, <2>1 DEF SetPasswordDb, TypeOK, Act, SecretsGet, GetSecret
<1>2. ASSUME NEW u \in Unit, SetPasswordSecret(u) PROVE TypeOK'
  <2> DEFINE a == act[u]
             cache == [a.cache EXCEPT ![a.user] = a.pwd]
  <2>0. act[u] # None
    BY <1>2 DEF SetPasswordSecret
  <2>1. a \in Act
    BY <2>0 DEF TypeOK
  <2>2. cache \in [User -> Pwd]
    BY <2>1 DEF Act
  <2>3. content' \in [User -> Pwd]
    BY <1>2, <2>2 DEF SetPasswordSecret, JujuSecretSet, TypeOK
  <2>4. svcPwd' \in [Unit -> [Service -> Pwd]]
    <3>1. {a.user} \cap Service \in SUBSET Service
      OBVIOUS
    <3>2. CASE ConnectServices(u, cache, {a.user} \cap Service)
      BY <3>1, <3>2, <2>2, ConnectType
    <3>3. QED
      BY <3>2, <1>2 DEF SetPasswordSecret, TypeOK
  <2>5. setErrors' \in 0..MaxSetErrors
    <3>1. \/ setErrors' = setErrors
          \/ setErrors < MaxSetErrors /\ setErrors' = setErrors + 1
      BY <1>2 DEF SetPasswordSecret
    <3>2. QED
      BY <3>1, BoundsNat DEF TypeOK
  <2>6. QED
    BY <1>2, <2>3, <2>4, <2>5 DEF SetPasswordSecret, TypeOK
<1>3. ASSUME NEW u \in Unit, Reconnect(u) PROVE TypeOK'
  BY <1>3, ConnectType DEF Reconnect, SecretsGet, TypeOK, Service
<1>4. CASE Handover
  BY <1>4 DEF Handover, TypeOK
<1>5. CASE UNCHANGED vars
  BY <1>5 DEF vars, TypeOK
<1>6. QED
  BY <1>1, <1>2, <1>3, <1>4, <1>5 DEF Next

\* Every reachable state of the secrets model is well typed.
THEOREM TypeCorrect == Spec => []TypeOK
BY InitType, TypeStep, PTL DEF Spec

-----------------------------------------------------------------------------
(* The set-password in flight                                              *)

LEMMA InitCache == Init => CacheInv
BY DEF Init, CacheInv

LEMMA CacheStep == IInv /\ [Next]_vars => CacheInv'
<1> SUFFICES ASSUME TypeOK, CacheInv, [Next]_vars, NEW w \in Unit,
                    act'[w] # None
             PROVE  w = leader' /\ act'[w].cache = content'
  BY DEF IInv, CacheInv
<1>1. ASSUME NEW u \in Unit, NEW usr \in User, NEW p \in Pwd,
             SetPasswordDb(u, usr, p)
      PROVE  w = leader' /\ act'[w].cache = content'
  <2>1. CASE w = u
    BY <1>1, <2>1 DEF SetPasswordDb, SecretsGet, TypeOK
  <2>2. CASE w # u
    BY <1>1, <2>2 DEF SetPasswordDb, CacheInv, TypeOK
  <2>3. QED
    BY <2>1, <2>2
<1>2. ASSUME NEW u \in Unit, SetPasswordSecret(u)
      PROVE  w = leader' /\ act'[w].cache = content'
  \* The writer and w would both be the leader.
  <2>1. u = leader
    BY <1>2 DEF SetPasswordSecret, CacheInv
  <2>2. w # u
    BY <1>2 DEF SetPasswordSecret, TypeOK
  <2>3. act[w] # None
    BY <1>2, <2>2 DEF SetPasswordSecret, TypeOK
  <2>4. QED
    BY <2>1, <2>2, <2>3 DEF CacheInv
<1>3. ASSUME NEW u \in Unit, Reconnect(u)
      PROVE  w = leader' /\ act'[w].cache = content'
  BY <1>3 DEF Reconnect, CacheInv
<1>4. CASE Handover
  \* Nobody is in set-password: only the leader could be, and it is not.
  BY <1>4 DEF Handover, CacheInv
<1>5. CASE UNCHANGED vars
  BY <1>5 DEF vars, CacheInv
<1>6. QED
  BY <1>1, <1>2, <1>3, <1>4, <1>5 DEF Next

LEMMA IInvInductive == Spec => []IInv
<1>1. Init => IInv
  BY InitType, InitCache DEF IInv
<1>2. IInv /\ [Next]_vars => IInv'
  BY TypeStep, CacheStep DEF IInv
<1>3. QED
  BY <1>1, <1>2, PTL DEF Spec

\* A user's entry in the secret changes only through a set-password for
\* that user: _juju_secret_set writes back the hook's whole cache, and the
\* cache is current because only the leader runs set-password and
\* leadership does not move inside its hook.
THEOREM WriteBackSafe == Spec => WriteBackKeepsOthers
<1>1. IInv /\ [Next]_vars =>
          \A usr \in User :
              content'[usr] # content[usr] =>
                  \E u \in Unit : act[u] # None /\ act[u].user = usr
  <2> SUFFICES ASSUME IInv, [Next]_vars, NEW usr \in User,
                      content'[usr] # content[usr]
               PROVE  \E u \in Unit : act[u] # None /\ act[u].user = usr
    OBVIOUS
  <2>1. PICK u \in Unit : SetPasswordSecret(u)
    BY DEF Next, vars, SetPasswordDb, Reconnect, Handover
  <2>2. act[u] # None /\ act[u] \in Act /\ act[u].cache = content
    BY <2>1 DEF SetPasswordSecret, IInv, TypeOK, CacheInv
  <2>3. content' = [act[u].cache EXCEPT ![act[u].user] = act[u].pwd]
    BY <2>1 DEF SetPasswordSecret, JujuSecretSet
  <2>4. act[u].user = usr
    BY <2>2, <2>3 DEF Act
  <2>5. QED
    BY <2>2, <2>4
<1>2. QED
  BY <1>1, IInvInductive, PTL DEF Spec, WriteBackKeepsOthers

-----------------------------------------------------------------------------
(* Without failures of set_content                                         *)

LEMMA InitDb == Init => DbInv
BY DEF Init, DbInv, StoreView

LEMMA DbStep ==
    ASSUME MaxSetErrors = 0
    PROVE  IInv /\ DbInv /\ [Next]_vars => DbInv'
<1> SUFFICES ASSUME TypeOK, CacheInv, DbInv, [Next]_vars
             PROVE  dbPwd' = StoreView'
  BY DEF IInv, DbInv
<1>1. ASSUME NEW u \in Unit, NEW usr \in User, NEW p \in Pwd,
             SetPasswordDb(u, usr, p)
      PROVE  dbPwd' = StoreView'
  <2>1. act[leader] = None /\ dbPwd = content
    BY <1>1 DEF SetPasswordDb, DbInv, StoreView
  <2>2. act'[leader] = [user |-> usr, pwd |-> p, cache |-> content]
    BY <1>1 DEF SetPasswordDb, SecretsGet, TypeOK
  <2>3. act'[leader'] # None /\ leader' = leader /\ content' = content
    <3>1. act'[leader] \in Act
      BY <2>2 DEF TypeOK, Act
    <3>2. QED
      BY <1>1, <3>1, SecretsAssumption DEF SetPasswordDb
  <2>4. StoreView' = [content EXCEPT ![usr] = p]
    <3>1. act'[leader'].user = usr /\ act'[leader'].pwd = p
      BY <2>2, <2>3
    <3>2. QED
      BY <2>3, <3>1 DEF StoreView
  <2>5. dbPwd' = [content EXCEPT ![usr] = p]
    BY <1>1, <2>1 DEF SetPasswordDb
  <2>6. QED
    BY <2>4, <2>5
<1>2. ASSUME NEW u \in Unit, SetPasswordSecret(u)
      PROVE  dbPwd' = StoreView'
  <2>1. u = leader /\ act[u] # None /\ act[u] \in Act
        /\ act[u].cache = content
    BY <1>2 DEF SetPasswordSecret, CacheInv, TypeOK
  \* The failure branch needs setErrors < 0.
  <2>2. content' = [act[u].cache EXCEPT ![act[u].user] = act[u].pwd]
    <3>1. ~(setErrors < MaxSetErrors)
      BY DEF TypeOK
    <3>2. QED
      BY <1>2, <3>1 DEF SetPasswordSecret, JujuSecretSet
  <2>3. act'[leader] = None /\ leader' = leader /\ dbPwd' = dbPwd
    BY <1>2, <2>1 DEF SetPasswordSecret, TypeOK
  <2>4. QED
    BY <2>1, <2>2, <2>3 DEF DbInv, StoreView
<1>3. ASSUME NEW u \in Unit, Reconnect(u) PROVE dbPwd' = StoreView'
  BY <1>3 DEF Reconnect, DbInv, StoreView
<1>4. CASE Handover
  <2>1. act'[leader'] = None
    BY <1>4 DEF Handover, CacheInv
  <2>2. QED
    BY <1>4, <2>1 DEF Handover, DbInv, StoreView
<1>5. CASE UNCHANGED vars
  BY <1>5 DEF vars, DbInv, StoreView
<1>6. QED
  BY <1>1, <1>2, <1>3, <1>4, <1>5 DEF Next

LEMMA DbInvMatches == IInv /\ DbInv => SecretMatchesDb
<1> SUFFICES ASSUME IInv, DbInv, NEW usr \in User
             PROVE  \/ GetPassword(usr) = dbPwd[usr]
                    \/ \E u \in Unit : act[u] # None /\ act[u].user = usr
                                       /\ act[u].pwd = dbPwd[usr]
  BY DEF SecretMatchesDb
<1>1. CASE act[leader] # None /\ act[leader].user = usr
  BY <1>1 DEF IInv, TypeOK, DbInv, StoreView, Act
<1>2. CASE ~(act[leader] # None /\ act[leader].user = usr)
  BY <1>2 DEF IInv, TypeOK, DbInv, StoreView, Act, GetPassword,
              GetSecret, SecretsGet
<1>3. QED
  BY <1>1, <1>2

LEMMA DbInductive ==
    ASSUME MaxSetErrors = 0
    PROVE  Spec => [](IInv /\ DbInv)
<1>1. Init => IInv /\ DbInv
  BY InitType, InitCache, InitDb DEF IInv
<1>2. IInv /\ DbInv /\ [Next]_vars => (IInv /\ DbInv)'
  BY TypeStep, CacheStep, DbStep DEF IInv
<1>3. QED
  BY <1>1, <1>2, PTL DEF Spec

\* When set_content does not fail, get-password always returns the password
\* MongoDB accepts, but while the leader's set-password is between its two
\* writes.  (secrets_set_error shows a failing set_content breaks it.)
THEOREM SecretsConsistent ==
    ASSUME MaxSetErrors = 0
    PROVE  Spec => []SecretMatchesDb
BY DbInductive, DbInvMatches, PTL

\* When set_content does not fail, set-password's two writes implement the
\* atomic password store: the MongoDB write is the abstract set-password,
\* every other step leaves MongoDB and the store as they were.
THEOREM SecretsRefinement ==
    ASSUME MaxSetErrors = 0
    PROVE  Spec => AtomicPasswords
<1>1. Init => AtomicStore!Init
  BY DEF Init, AtomicStore!Init, StoreView
<1>2. IInv /\ DbInv /\ DbInv' /\ [Next]_vars
          => [AtomicStore!Next]_<<dbPwd, StoreView>>
  <2> SUFFICES ASSUME IInv, DbInv, DbInv', [Next]_vars
               PROVE  [AtomicStore!Next]_<<dbPwd, StoreView>>
    OBVIOUS
  <2>1. ASSUME NEW u \in Unit, NEW usr \in User, NEW p \in Pwd,
               SetPasswordDb(u, usr, p)
        PROVE  AtomicStore!SetPassword(usr, p)
    <3>1. act[leader] = None
      BY <2>1 DEF SetPasswordDb
    <3>2. p # StoreView[usr]
      BY <2>1, <3>1 DEF SetPasswordDb, StoreView, GetSecret, SecretsGet
    <3>3. QED
      BY <2>1, <3>2 DEF SetPasswordDb, AtomicStore!SetPassword, DbInv
  <2>2. CASE ~\E u \in Unit, usr \in User, p \in Pwd : SetPasswordDb(u, usr, p)
    <3>1. dbPwd' = dbPwd
      BY <2>2 DEF Next, vars, SetPasswordSecret, Reconnect,
                  Handover
    <3>2. QED
      BY <3>1 DEF DbInv
  <2>3. QED
    BY <2>1, <2>2 DEF AtomicStore!Next
<1>3. QED
  BY <1>1, <1>2, DbInductive, PTL DEF Spec, AtomicPasswords, AtomicStore!Spec

=============================================================================
