-------------------------- MODULE ReplicaSetProofs --------------------------
(***************************************************************************)
(* Proofs about ReplicaSet, for every set of units and every bound.        *)
(*                                                                         *)
(* TypeCorrect: every reachable state is well typed.                       *)
(* SnapshotFreshness: while the leader is inside the writes of a           *)
(* reconciliation pass, the replica set is exactly what it read at the     *)
(* start of the pass changed by its own writes.  SnapshotFresh is not     *)
(* inductive alone: it needs that only the leader is in a pass, that a     *)
(* unit in a pass is alive (so Failover never takes leadership from it),   *)
(* that the db is initialised (so Start never writes the set under it),    *)
(* and that the remaining removals and additions lie in the differences   *)
(* read at the start (PassShape).                                          *)
(***************************************************************************)
EXTENDS ReplicaSet, TLAPS

USE UnitAssumption, BoundAssumption

\* The actions that leave the pass variables of every unit but u alone.
LEMMA EndPassType ==
    ASSUME TypeOK, NEW u \in Unit, EndPass(u)
    PROVE  /\ pc' \in [Unit -> {"idle", "apply", "add"}]
           /\ live0' \in [Unit -> SUBSET Unit]
           /\ hosts0' \in [Unit -> SUBSET Unit]
           /\ toRemove' \in [Unit -> SUBSET Unit]
           /\ toAdd' \in [Unit -> SUBSET Unit]
           /\ adding' \in [Unit -> Unit \cup {None}]
           /\ \A w \in Unit : pc'[w] = "add" => adding'[w] \in Unit
BY DEF TypeOK, EndPass

LEMMA HandlerType ==
    ASSUME TypeOK, NEW u \in Unit, NEW hosts \in SUBSET Unit,
           NEW selfDeparting \in BOOLEAN,
           RelationChangesHandler(u, hosts, selfDeparting)
    PROVE  /\ departed' \in [Unit -> BOOLEAN]
           /\ secrets' \in BOOLEAN
           /\ pc' \in [Unit -> {"idle", "apply", "add"}]
           /\ live0' \in [Unit -> SUBSET Unit]
           /\ hosts0' \in [Unit -> SUBSET Unit]
           /\ toRemove' \in [Unit -> SUBSET Unit]
           /\ toAdd' \in [Unit -> SUBSET Unit]
           /\ adding' \in [Unit -> Unit \cup {None}]
           /\ \A w \in Unit : pc'[w] = "add" => adding'[w] \in Unit
           /\ errors' \in 0..MaxErrors
<1>1. secrets' \in BOOLEAN
  BY DEF TypeOK, RelationChangesHandler, GenerateSecrets
<1>2. errors' \in 0..MaxErrors
  BY DEF TypeOK, RelationChangesHandler, TransientError
<1>. QED
  BY <1>1, <1>2 DEF TypeOK, RelationChangesHandler, passVars

LEMMA TransientErrorType ==
    ASSUME errors \in 0..MaxErrors, TransientError
    PROVE  errors' \in 0..MaxErrors
BY DEF TransientError

\* The initial states are well typed.
LEMMA InitType == Init => TypeOK
<1> SUFFICES ASSUME Init PROVE TypeOK
  OBVIOUS
<1>1. life \in [Unit -> Life]
  BY DEF Init, Life
<1>2. leader \in Unit
  BY DEF Init
<1>3. stopTimer \in [Unit -> 0..StopTimeout]
  BY DEF Init
<1>4. /\ errors \in 0..MaxErrors
      /\ restarts \in 0..MaxRestarts
      /\ handovers \in 0..MaxHandovers
  BY DEF Init
<1>5. startPending \in [Unit -> BOOLEAN]
  BY DEF Init
<1>. QED
  BY <1>1, <1>2, <1>3, <1>4, <1>5 DEF Init, TypeOK

\* Every step of the charm keeps the state well typed.
LEMMA TypeStep == TypeOK /\ [Next]_vars => TypeOK'
<1> SUFFICES ASSUME TypeOK, [Next]_vars PROVE TypeOK'
  OBVIOUS
<1>1. ASSUME NEW u \in Unit, NEW v \in Unit, SeeJoin(u, v) PROVE TypeOK'
  <2>1. view' \in [Unit -> SUBSET Unit]
    BY <1>1 DEF SeeJoin, TypeOK
  <2>2. Hosts(u) \cup {v} \in SUBSET Unit
    BY DEF Hosts, TypeOK
  <2>. QED
    BY <1>1, <2>1, <2>2, HandlerType DEF SeeJoin, TypeOK
<1>2. ASSUME NEW u \in Unit, NEW v \in Unit, SeeDepart(u, v) PROVE TypeOK'
  <2>1. view' \in [Unit -> SUBSET Unit]
    BY <1>2 DEF SeeDepart, TypeOK
  <2>2. Hosts(u) \ {v} \in SUBSET Unit
    BY DEF Hosts, TypeOK
  <2>. QED
    BY <1>2, <2>1, <2>2, HandlerType DEF SeeDepart, TypeOK
<1>3. ASSUME NEW u \in Unit, RelationChanged(u) PROVE TypeOK'
  <2>1. Hosts(u) \in SUBSET Unit
    BY DEF Hosts, TypeOK
  <2>. QED
    BY <1>3, <2>1, HandlerType DEF RelationChanged, TypeOK
<1>4. ASSUME NEW u \in Unit, RemoveMember(u) PROVE TypeOK'
  BY <1>4, EndPassType DEF RemoveMember, TypeOK, DriverError, TransientError
<1>5. ASSUME NEW u \in Unit, AddMember(u) PROVE TypeOK'
  BY <1>5, EndPassType DEF AddMember, TypeOK
<1>17. ASSUME NEW u \in Unit, AddReplsetMember(u) PROVE TypeOK'
  <2>1. adding[u] \in Unit
    BY <1>17 DEF AddReplsetMember, TypeOK
  <2>. QED
    BY <1>17, <2>1, EndPassType DEF AddReplsetMember, TypeOK, DriverError,
       TransientError
<1>6. ASSUME NEW u \in Unit, FinishPass(u) PROVE TypeOK'
  BY <1>6, EndPassType DEF FinishPass, TypeOK
<1>7. ASSUME NEW u \in Unit, MongodStart(u) PROVE TypeOK'
  BY <1>7 DEF MongodStart, TypeOK, passVars
<1>8. ASSUME NEW u \in Unit, Start(u) PROVE TypeOK'
  <2>1. errors' \in 0..MaxErrors
    BY <1>8, TransientErrorType DEF Start, InitialiseReplicaSet, TypeOK
  <2>2. Hosts(u) \in SUBSET Unit
    BY DEF Hosts, TypeOK
  <2>3. rs' \in SUBSET Unit /\ initiators' \in SUBSET Unit
    BY <1>8, <2>2 DEF Start, InitialiseReplicaSet, Initiate, TypeOK
  <2>. QED
    BY <1>8, <2>1, <2>3 DEF Start, InitialiseReplicaSet, TypeOK, passVars
<1>9. ASSUME NEW u \in Unit, Restart(u) PROVE TypeOK'
  BY <1>9, EndPassType DEF Restart, TypeOK
<1>10. ASSUME NEW u \in Unit, ScaleUp(u) PROVE TypeOK'
  BY <1>10 DEF ScaleUp, TypeOK, Life, passVars
<1>11. ASSUME NEW u \in Unit, ScaleDown(u) PROVE TypeOK'
  BY <1>11 DEF ScaleDown, TypeOK, Life, passVars
<1>12. ASSUME NEW u \in Unit, StopBegin(u) PROVE TypeOK'
  <2>1. life' \in [Unit -> Life]
    BY <1>12 DEF StopBegin, Leave, TypeOK, Life
  <2>2. stopTimer' \in [Unit -> 0..StopTimeout]
    BY <1>12 DEF StopBegin, Leave, TypeOK
  <2>3. /\ mongodUp' \in [Unit -> BOOLEAN]
        /\ departed' \in [Unit -> BOOLEAN]
    BY <1>12 DEF StopBegin, Leave, TypeOK
  <2>. QED
    BY <1>12, <2>1, <2>2, <2>3 DEF StopBegin, TypeOK, passVars
<1>13. ASSUME NEW u \in Unit, StopPoll(u) PROVE TypeOK'
  <2>1. errors' \in 0..MaxErrors
    BY <1>13, TransientErrorType DEF StopPoll, TypeOK
  <2>2. life' \in [Unit -> Life]
    BY <1>13 DEF StopPoll, Leave, TypeOK, Life
  <2>3. stopTimer' \in [Unit -> 0..StopTimeout]
    BY <1>13 DEF StopPoll, Leave, TypeOK
  <2>. QED
    BY <1>13, <2>1, <2>2, <2>3 DEF StopPoll, Leave, TypeOK, passVars
<1>14. ASSUME NEW u \in Unit, Failover(u) PROVE TypeOK'
  BY <1>14 DEF Failover, TypeOK, passVars
<1>15. ASSUME NEW u \in Unit, Handover(u) PROVE TypeOK'
  BY <1>15 DEF Handover, TypeOK, passVars
<1>16. CASE UNCHANGED vars
  BY <1>16 DEF vars, passVars, TypeOK
<1>. QED
  BY <1>1, <1>2, <1>3, <1>4, <1>5, <1>6, <1>7, <1>8, <1>9, <1>10,
     <1>11, <1>12, <1>13, <1>14, <1>15, <1>16, <1>17 DEF Next

\* TypeOK holds in every reachable state of the charm.
THEOREM TypeCorrect == Spec => []TypeOK
<1>. QED
  BY InitType, TypeStep, PTL DEF Spec

-----------------------------------------------------------------------------
(* SnapshotFreshness                                                       *)

\* What a unit inside the writes of a pass keeps true: it is the leader,
\* alive, the db is initialised, the replica set is its snapshot changed by
\* its own writes, and what is left to do lies in the differences it read;
\* the member it is adding is one of the additions left.
PassInv(w) ==
    pc[w] # "idle" =>
        /\ pc[w] = "add" => adding[w] \in toAdd[w]
        /\ w = leader
        /\ dbInit
        /\ life[w] \in {"joined", "departing"}
        /\ toRemove[w] \subseteq live0[w] \ hosts0[w]
        /\ toAdd[w] \subseteq hosts0[w] \ live0[w]
        /\ rs = (live0[w] \cap hosts0[w]) \cup toRemove[w]
                  \cup ((hosts0[w] \ live0[w]) \ toAdd[w])

IInv == TypeOK /\ \A w \in Unit : PassInv(w)

\* The handler of a unit that is idle and alive keeps every unit's pass
\* invariant: it starts a pass only on the leader of an initialised db,
\* with a snapshot that is the replica set it has just read.
LEMMA HandlerInv ==
    ASSUME IInv, NEW u \in Unit, NEW hosts \in SUBSET Unit,
           NEW selfDeparting \in BOOLEAN,
           pc[u] = "idle", life[u] \in {"joined", "departing"},
           RelationChangesHandler(u, hosts, selfDeparting),
           UNCHANGED <<life, leader, rs, dbInit>>
    PROVE  \A w \in Unit : PassInv(w)'
<1> SUFFICES ASSUME NEW w \in Unit PROVE PassInv(w)'
  OBVIOUS
<1>1. CASE w # u
  <2>1. /\ pc'[w] = pc[w] /\ live0'[w] = live0[w] /\ hosts0'[w] = hosts0[w]
        /\ toRemove'[w] = toRemove[w] /\ toAdd'[w] = toAdd[w]
        /\ adding'[w] = adding[w]
    BY <1>1 DEF IInv, TypeOK, RelationChangesHandler, passVars
  <2>. QED
    BY <2>1 DEF IInv, PassInv
<1>2. CASE w = u
  BY <1>2 DEF IInv, TypeOK, RelationChangesHandler, passVars, PassInv
<1>. QED
  BY <1>1, <1>2

\* A step that ends u's pass, and changes nothing else a pass depends on,
\* keeps every unit's pass invariant.
LEMMA EndPassInv ==
    ASSUME IInv, NEW u \in Unit, EndPass(u),
           UNCHANGED <<life, leader, rs, dbInit>>
    PROVE  \A w \in Unit : PassInv(w)'
BY DEF IInv, TypeOK, EndPass, PassInv

\* A step that changes none of the pass variables, the leader, the set or
\* the flag, and the life only of units that are not in a pass.
LEMMA QuietInv ==
    ASSUME IInv, UNCHANGED <<passVars, leader, rs, dbInit>>,
           \A w \in Unit : pc[w] # "idle" => life'[w] = life[w]
    PROVE  \A w \in Unit : PassInv(w)'
BY DEF IInv, PassInv, passVars

\* Only the leader is in a pass.
LEMMA OnlyLeaderApplies ==
    ASSUME IInv, NEW w \in Unit, pc[w] # "idle"
    PROVE  w = leader /\ dbInit /\ life[leader] \in {"joined", "departing"}
BY DEF IInv, PassInv

LEMMA InitInv == Init => IInv
BY InitType DEF Init, IInv, PassInv

\* Every step of the charm keeps IInv.
LEMMA InvStep == IInv /\ [Next]_vars => IInv'
<1> SUFFICES ASSUME IInv, [Next]_vars PROVE \A w \in Unit : PassInv(w)'
  BY TypeStep DEF IInv
<1>1. ASSUME NEW u \in Unit, NEW v \in Unit, SeeJoin(u, v)
      PROVE  \A w \in Unit : PassInv(w)'
  <2>1. Hosts(u) \cup {v} \in SUBSET Unit
    BY DEF Hosts, IInv, TypeOK
  <2>. QED
    BY <1>1, <2>1, HandlerInv DEF SeeJoin
<1>2. ASSUME NEW u \in Unit, NEW v \in Unit, SeeDepart(u, v)
      PROVE  \A w \in Unit : PassInv(w)'
  <2>1. Hosts(u) \ {v} \in SUBSET Unit
    BY DEF Hosts, IInv, TypeOK
  <2>. QED
    BY <1>2, <2>1, HandlerInv DEF SeeDepart
<1>3. ASSUME NEW u \in Unit, RelationChanged(u)
      PROVE  \A w \in Unit : PassInv(w)'
  <2>1. Hosts(u) \in SUBSET Unit
    BY DEF Hosts, IInv, TypeOK
  <2>. QED
    BY <1>3, <2>1, HandlerInv DEF RelationChanged
<1>4. ASSUME NEW u \in Unit, RemoveMember(u)
      PROVE  \A w \in Unit : PassInv(w)'
  <2>1. PICK m \in toRemove[u] :
          \/ /\ CanReconfig(rs \ {m})
             /\ rs' = rs \ {m}
             /\ toRemove' = [toRemove EXCEPT ![u] = @ \ {m}]
             /\ UNCHANGED <<pc, live0, hosts0, toAdd, errors>>
          \/ /\ \/ DriverError
                \/ ~Majority(rs \ {m}) /\ UNCHANGED errors
             /\ EndPass(u)
             /\ UNCHANGED rs
    BY <1>4 DEF RemoveMember
  <2>2. CASE rs' = rs \ {m} /\ toRemove' = [toRemove EXCEPT ![u] = @ \ {m}]
             /\ UNCHANGED <<pc, live0, hosts0, toAdd>>
    <3> SUFFICES ASSUME NEW w \in Unit PROVE PassInv(w)'
      OBVIOUS
    <3>1. CASE w = u
      BY <1>4, <2>2, <3>1 DEF RemoveMember, IInv, TypeOK, PassInv
    <3>2. CASE w # u
      BY <1>4, <2>2, <3>2, OnlyLeaderApplies DEF RemoveMember, IInv, TypeOK, PassInv
    <3>. QED
      BY <3>1, <3>2
  <2>3. CASE EndPass(u) /\ UNCHANGED rs
    BY <1>4, <2>3, EndPassInv DEF RemoveMember
  <2>. QED
    BY <2>1, <2>2, <2>3
<1>5. ASSUME NEW u \in Unit, AddMember(u)
      PROVE  \A w \in Unit : PassInv(w)'
  <2>1. PICK m \in toAdd[u] :
          \/ /\ ~mongodUp[m]
             /\ EndPass(u)
          \/ /\ mongodUp[m]
             /\ pc' = [pc EXCEPT ![u] = "add"]
             /\ adding' = [adding EXCEPT ![u] = m]
             /\ UNCHANGED <<live0, hosts0, toRemove, toAdd>>
    BY <1>5 DEF AddMember
  <2>2. CASE pc' = [pc EXCEPT ![u] = "add"] /\ adding' = [adding EXCEPT ![u] = m]
             /\ UNCHANGED <<live0, hosts0, toRemove, toAdd>>
    <3> SUFFICES ASSUME NEW w \in Unit PROVE PassInv(w)'
      OBVIOUS
    <3>1. CASE w = u
      BY <1>5, <2>2, <3>1 DEF AddMember, IInv, TypeOK, PassInv
    <3>2. CASE w # u
      BY <1>5, <2>2, <3>2 DEF AddMember, IInv, TypeOK, PassInv
    <3>. QED
      BY <3>1, <3>2
  <2>3. CASE EndPass(u)
    BY <1>5, <2>3, EndPassInv DEF AddMember
  <2>. QED
    BY <2>1, <2>2, <2>3
<1>17. ASSUME NEW u \in Unit, AddReplsetMember(u)
       PROVE  \A w \in Unit : PassInv(w)'
  <2>1. CASE /\ rs' = rs \cup {adding[u]}
             /\ toAdd' = [toAdd EXCEPT ![u] = @ \ {adding[u]}]
             /\ pc' = [pc EXCEPT ![u] = "apply"]
             /\ adding' = [adding EXCEPT ![u] = None]
             /\ UNCHANGED <<live0, hosts0, toRemove>>
    <3> SUFFICES ASSUME NEW w \in Unit PROVE PassInv(w)'
      OBVIOUS
    <3>1. CASE w = u
      BY <1>17, <2>1, <3>1 DEF AddReplsetMember, IInv, TypeOK, PassInv
    <3>2. CASE w # u
      BY <1>17, <2>1, <3>2, OnlyLeaderApplies
         DEF AddReplsetMember, IInv, TypeOK, PassInv
    <3>. QED
      BY <3>1, <3>2
  <2>2. CASE EndPass(u) /\ UNCHANGED rs
    BY <1>17, <2>2, EndPassInv DEF AddReplsetMember
  <2>. QED
    BY <1>17, <2>1, <2>2 DEF AddReplsetMember
<1>6. ASSUME NEW u \in Unit, FinishPass(u)
      PROVE  \A w \in Unit : PassInv(w)'
  BY <1>6, EndPassInv DEF FinishPass
<1>7. ASSUME NEW u \in Unit, MongodStart(u)
      PROVE  \A w \in Unit : PassInv(w)'
  BY <1>7, QuietInv DEF MongodStart
<1>8. ASSUME NEW u \in Unit, Start(u)
      PROVE  \A w \in Unit : PassInv(w)'
  <2>1. CASE dbInit
    <3>1. UNCHANGED <<rs, dbInit>>
      BY <1>8, <2>1 DEF Start, InitialiseReplicaSet
    <3>. QED
      BY <1>8, <3>1, QuietInv DEF Start
  <2>2. CASE ~dbInit
    <3>1. \A w \in Unit : pc[w] = "idle"
      BY <2>2, OnlyLeaderApplies DEF IInv, TypeOK
    <3>. QED
      BY <1>8, <3>1 DEF Start, InitialiseReplicaSet, PassInv, passVars
  <2>. QED
    BY <2>1, <2>2
<1>9. ASSUME NEW u \in Unit, Restart(u)
      PROVE  \A w \in Unit : PassInv(w)'
  BY <1>9, EndPassInv DEF Restart
<1>10. ASSUME NEW u \in Unit, ScaleUp(u)
       PROVE  \A w \in Unit : PassInv(w)'
  <2>1. \A w \in Unit : pc[w] # "idle" => life'[w] = life[w]
    BY <1>10, OnlyLeaderApplies DEF ScaleUp, IInv, TypeOK
  <2>. QED
    BY <1>10, <2>1, QuietInv DEF ScaleUp
<1>11. ASSUME NEW u \in Unit, ScaleDown(u)
       PROVE  \A w \in Unit : PassInv(w)'
  BY <1>11 DEF ScaleDown, IInv, TypeOK, PassInv, passVars
<1>12. ASSUME NEW u \in Unit, StopBegin(u)
       PROVE  \A w \in Unit : PassInv(w)'
  <2>1. \A w \in Unit : pc[w] # "idle" => life'[w] = life[w]
    BY <1>12 DEF StopBegin, Leave, IInv, TypeOK
  <2>. QED
    BY <1>12, <2>1, QuietInv DEF StopBegin
<1>13. ASSUME NEW u \in Unit, StopPoll(u)
       PROVE  \A w \in Unit : PassInv(w)'
  <2>1. \A w \in Unit : pc[w] # "idle" => life'[w] = life[w]
    BY <1>13, OnlyLeaderApplies DEF StopPoll, Leave, IInv, TypeOK
  <2>. QED
    BY <1>13, <2>1, QuietInv DEF StopPoll
<1>14. ASSUME NEW u \in Unit, Failover(u)
       PROVE  \A w \in Unit : PassInv(w)'
  <2>1. \A w \in Unit : pc[w] = "idle"
    BY <1>14, OnlyLeaderApplies DEF Failover, IInv, TypeOK
  <2>. QED
    BY <1>14, <2>1 DEF Failover, PassInv, passVars
<1>15. ASSUME NEW u \in Unit, Handover(u)
       PROVE  \A w \in Unit : PassInv(w)'
  <2>1. \A w \in Unit : pc[w] = "idle"
    BY <1>15, OnlyLeaderApplies DEF Handover, IInv, TypeOK
  <2>. QED
    BY <1>15, <2>1 DEF Handover, PassInv, passVars
<1>16. CASE UNCHANGED vars
  BY <1>16 DEF vars, passVars, IInv, PassInv
<1>. QED
  BY <1>1, <1>2, <1>3, <1>4, <1>5, <1>6, <1>7, <1>8, <1>9, <1>10,
     <1>11, <1>12, <1>13, <1>14, <1>15, <1>16, <1>17 DEF Next

\* SnapshotFresh holds in every reachable state: no hook of another unit,
\* no Juju event and no start hook changes the replica-set configuration
\* while the leader is between the writes of _relation_changes_handler.
THEOREM SnapshotFreshness == Spec => []SnapshotFresh
<1>1. IInv => SnapshotFresh
  BY DEF IInv, PassInv, SnapshotFresh
<1>. QED
  BY InitInv, InvStep, <1>1, PTL DEF Spec

-----------------------------------------------------------------------------
(* Who reconfigures the replica set.  The three writes of the model are    *)
(* init_replset in the start hook and the remove and add writes of a pass; *)
(* every other step leaves the configuration alone.  PassInv says that the *)
(* unit making a pass write is the leader of an initialised db and that    *)
(* what it removes or adds lies in the differences it read.                *)

\* The body of OnlyLeaderReconfigures, for one step.
LeaderWrite ==
    rs' # rs =>
        \/ /\ ~dbInit /\ rs = {} /\ rs' = Hosts(leader)
           /\ \A h \in rs' : mongodUp[h]
        \/ /\ dbInit /\ pc[leader] # "idle"
           /\ rs' \ rs \subseteq hosts0[leader] \ live0[leader]
           /\ rs \ rs' \subseteq live0[leader] \ hosts0[leader]

\* Only the start hook and the two pass writes change the set.
LEMMA WritersOfSet ==
    ASSUME [Next]_vars, rs' # rs
    PROVE  \E u \in Unit : RemoveMember(u) \/ AddReplsetMember(u) \/ Start(u)
<1>1. ~UNCHANGED vars
  BY DEF vars
<1>2. ASSUME NEW u \in Unit, NEW v \in Unit, SeeJoin(u, v) \/ SeeDepart(u, v)
      PROVE  rs' = rs
  BY <1>2 DEF SeeJoin, SeeDepart
<1>3. ASSUME NEW u \in Unit,
             \/ RelationChanged(u) \/ AddMember(u) \/ FinishPass(u)
             \/ MongodStart(u) \/ Restart(u) \/ ScaleUp(u) \/ ScaleDown(u)
      PROVE  rs' = rs
  BY <1>3 DEF RelationChanged, AddMember, FinishPass, MongodStart, Restart,
              ScaleUp, ScaleDown
<1>4. ASSUME NEW u \in Unit,
             StopBegin(u) \/ StopPoll(u) \/ Failover(u) \/ Handover(u)
      PROVE  rs' = rs
  BY <1>4 DEF StopBegin, StopPoll, Failover, Handover
<1>5. QED
  BY <1>1, <1>2, <1>3, <1>4 DEF Next

LEMMA LeaderWriteStep == IInv /\ [Next]_vars => LeaderWrite
<1> SUFFICES ASSUME IInv, [Next]_vars, rs' # rs
             PROVE  LeaderWrite
  BY DEF LeaderWrite
<1>1. ASSUME NEW u \in Unit, RemoveMember(u) PROVE LeaderWrite
  <2>1. PICK m \in toRemove[u] :
          \/ /\ CanReconfig(rs \ {m})
             /\ rs' = rs \ {m}
             /\ toRemove' = [toRemove EXCEPT ![u] = @ \ {m}]
             /\ UNCHANGED <<pc, live0, hosts0, toAdd, adding, errors>>
          \/ /\ \/ DriverError
                \/ ~Majority(rs \ {m}) /\ UNCHANGED errors
             /\ EndPass(u)
             /\ UNCHANGED rs
    BY <1>1 DEF RemoveMember
  <2>2. rs' = rs \ {m}
    BY <2>1
  <2>3. u = leader /\ dbInit /\ pc[u] # "idle"
    BY <1>1, OnlyLeaderApplies DEF RemoveMember
  <2>4. m \in live0[u] \ hosts0[u]
    BY <2>3 DEF IInv, PassInv
  <2>5. QED
    BY <2>2, <2>3, <2>4 DEF LeaderWrite
<1>2. ASSUME NEW u \in Unit, AddReplsetMember(u) PROVE LeaderWrite
  <2>1. rs' = rs \cup {adding[u]}
    BY <1>2 DEF AddReplsetMember
  <2>2. u = leader /\ dbInit /\ pc[u] = "add"
    BY <1>2, OnlyLeaderApplies DEF AddReplsetMember
  <2>3. adding[u] \in hosts0[u] \ live0[u]
    BY <2>2 DEF IInv, PassInv
  <2>4. QED
    BY <2>1, <2>2, <2>3 DEF LeaderWrite
<1>3. ASSUME NEW u \in Unit, Start(u) PROVE LeaderWrite
  <2>1. ~dbInit /\ u = leader /\ InitialiseReplicaSet(u)
    BY <1>3 DEF Start
  <2>2. Initiate(u, Hosts(u))
    BY <2>1 DEF InitialiseReplicaSet
  <2>3. u \notin rs /\ \A h \in Hosts(u) : mongodUp[h] /\ h \notin rs
    BY <2>2 DEF Initiate
  <2>4. rs' = IF rs = {} THEN Hosts(u) ELSE rs
    BY <2>2, <2>3 DEF Initiate
  <2>5. QED
    BY <2>1, <2>3, <2>4 DEF LeaderWrite
<1>4. QED
  BY <1>1, <1>2, <1>3, WritersOfSet

\* Once the db is initialised, the replica-set configuration changes only
\* by a write of the leader's running pass of _relation_changes_handler,
\* adding a host the pass read as missing or removing a member it read as
\* gone; before, only the leader's init_replset creates it, with exactly
\* the hosts the leader sees (itself and its peers), every one of them up.
\* For every number of units and every bound on errors, restarts and
\* leadership changes.
THEOREM LeaderReconfigures == Spec => OnlyLeaderReconfigures
<1>1. IInv /\ [Next]_vars => LeaderWrite
  BY LeaderWriteStep
<1>. QED
  BY <1>1, InitInv, InvStep, PTL DEF Spec, OnlyLeaderReconfigures, LeaderWrite

=============================================================================
