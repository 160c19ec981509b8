----------------------------- MODULE ReplicaSet -----------------------------
(***************************************************************************)
(* The replica-set side of the MongoDB k8s charm (src/src/charm.py): a set *)
(* of Juju units, one of which is the leader, each running one hook at a  *)
(* time, and the replica-set configuration kept by MongoDB itself.         *)
(*                                                                         *)
(*  - the leader's reconciliation pass (_relation_changes_handler with     *)
(*    _remove_units_from_replica_set and _add_units_from_replica_set) is   *)
(*    split into its reads and its MongoDB writes, so that the other       *)
(*    units, Juju and the pods move between them;                          *)
(*  - the start hook with _initialise_replica_set, the stop hook's wait   *)
(*    for the unit's own removal, pebble-ready, pod restarts, scaling and  *)
(*    leader changes.                                                      *)
(*                                                                         *)
(* A unit's hostname (get_hostname_for_unit) is injective in the unit, so  *)
(* a host is the unit itself.  Each unit has its own view of the peer      *)
(* relation (relation.units), updated by the relation-joined/-departed     *)
(* hooks it runs, so a view can be stale.                                  *)
(***************************************************************************)
EXTENDS Naturals, FiniteSets

CONSTANTS
    Unit,           \* all units the application will ever have
    InitialUnits,   \* the units deployed at the start
    None,           \* no value
    StopTimeout,    \* UNIT_REMOVAL_TIMEOUT, in polls of the stop hook
    MaxErrors,      \* bound on transient driver / exec errors
    MaxRestarts,    \* bound on pod restarts
    MaxHandovers    \* bound on leadership moving away from a live leader

ASSUME UnitAssumption ==
    /\ InitialUnits \subseteq Unit
    /\ InitialUnits # {}
    /\ None \notin Unit

ASSUME BoundAssumption ==
    /\ StopTimeout \in Nat \ {0}
    /\ MaxErrors \in Nat
    /\ MaxRestarts \in Nat
    /\ MaxHandovers \in Nat

VARIABLES
    life,          \* Juju life of each unit: new, joined, departing, stopping, gone
    view,          \* view[u]: the peer units in u's relation.units
    leader,        \* the unit for which is_leader() holds
    rs,            \* members of the replica-set configuration held by MongoDB
    dbInit,        \* "db_initialised" in the application peer data
    secrets,       \* keyfile and operator/monitor passwords generated (_generate_secrets)
    mongodUp,      \* mongod of the unit answers is_ready
    startPending,  \* the start event is still to be handled (it defers)
    departed,      \* "unit_departed" in the unit's peer data
    pc,            \* "idle" or "apply": inside the writes of a reconciliation pass
    live0,         \* replset_members read at the start of the pass
    hosts0,        \* mongodb_hosts read at the start of the pass
    toRemove,      \* the removals of the pass still to do
    toAdd,         \* the additions of the pass still to do
    stopTimer,     \* the stop hook's remaining timeout
    initiators,    \* units on which init_replset has created a set
    errors,        \* transient errors so far
    adding,        \* the member u's pass found ready and is adding, or None
    restarts,      \* pod restarts so far
    handovers      \* leadership handovers so far

passVars == <<pc, live0, hosts0, toRemove, toAdd, adding>>
vars == <<life, view, leader, rs, dbInit, secrets, mongodUp, startPending,
          departed, passVars, stopTimer, initiators, errors, restarts, handovers>>

Life == {"new", "joined", "departing", "stopping", "gone"}

-----------------------------------------------------------------------------
(* Helpers                                                                 *)

\* Mutant: _unit_hosts without self_unit.
HostsWithoutSelf(u) == view[u]

\* _unit_hosts / mongodb_config.hosts: the unit itself and its peers.
Hosts(u) == {u} \cup view[u]

Joined == {u \in Unit : life[u] = "joined"}

\* A majority of the members S is up.
Majority(S) == 2 * Cardinality({m \in S : mongodUp[m]}) > Cardinality(S)

\* A primary exists: a majority of the configured members is up.
HasPrimary == Majority(rs)

\* replSetReconfig to the members S passes MongoDB's quorum check: a
\* primary exists and a majority of the new configuration is up.
CanReconfig(S) == HasPrimary /\ Majority(S)

\* MongoDBConnection(config) with the given seed hosts reaches the primary.
Connectable(hosts) == HasPrimary /\ \E h \in hosts \cap rs : mongodUp[h]

\* A transient NotReadyError / PyMongoError / ExecError that the code
\* turns into a deferral; counted so that they stop eventually.
TransientError == errors < MaxErrors /\ errors' = errors + 1

\* A driver call fails: no primary, or a transient error.
DriverError ==
    \/ ~HasPrimary /\ UNCHANGED errors
    \/ TransientError

\* Leaving the writes of a pass: return from the handler (or event.defer()).
EndPass(u) ==
    /\ pc' = [pc EXCEPT ![u] = "idle"]
    /\ live0' = [live0 EXCEPT ![u] = {}]
    /\ hosts0' = [hosts0 EXCEPT ![u] = {}]
    /\ toRemove' = [toRemove EXCEPT ![u] = {}]
    /\ toAdd' = [toAdd EXCEPT ![u] = {}]
    /\ adding' = [adding EXCEPT ![u] = None]

\* _generate_secrets: the keyfile and the operator and monitor passwords,
\* each generated only if it is not set yet (_check_or_set_*).
GenerateSecrets == secrets' = TRUE

-----------------------------------------------------------------------------
(* _relation_changes_handler up to its first MongoDB write.  hosts is the  *)
(* unit's _unit_hosts in this hook; selfDeparting says that the event is a *)
(* relation-departed event whose departing unit is u itself.               *)
(* The exclusion of event.unit from the hosts (lines 430-431) is omitted:  *)
(* event.unit of a departed event is never in relation.units during it.    *)
\* Mutant: the "if not self.unit.is_leader(): return" check dropped.
RelationChangesHandlerNoLeaderCheck(u, hosts, selfDeparting) ==
    /\ departed' = IF selfDeparting THEN [departed EXCEPT ![u] = TRUE] ELSE departed
    /\ \/ u = leader /\ GenerateSecrets
       \/ u # leader /\ UNCHANGED secrets
    /\ \/ /\ ~dbInit
          /\ UNCHANGED <<passVars, errors>>
       \/ /\ dbInit
          /\ \/ /\ ~Connectable(hosts)
                /\ UNCHANGED <<passVars, errors>>
             \/ /\ Connectable(hosts)
                /\ rs = hosts
                /\ UNCHANGED <<passVars, errors>>
             \/ /\ Connectable(hosts)
                /\ rs # hosts
                /\ UNCHANGED errors
                /\ pc' = [pc EXCEPT ![u] = "apply"]
                /\ live0' = [live0 EXCEPT ![u] = rs]
                /\ hosts0' = [hosts0 EXCEPT ![u] = hosts]
                /\ toRemove' = [toRemove EXCEPT ![u] = rs \ hosts]
                /\ toAdd' = [toAdd EXCEPT ![u] = hosts \ rs]
                /\ UNCHANGED adding

RelationChangesHandler(u, hosts, selfDeparting) ==
    /\ departed' = IF selfDeparting THEN [departed EXCEPT ![u] = TRUE] ELSE departed
    /\ \/ u = leader /\ GenerateSecrets
       \/ u # leader /\ UNCHANGED secrets
    /\ \/ /\ u # leader \/ ~dbInit
          /\ UNCHANGED <<passVars, errors>>
       \/ /\ u = leader /\ dbInit
          /\ \/ /\ ~Connectable(hosts)
                /\ UNCHANGED <<passVars, errors>>
             \/ /\ Connectable(hosts)
                /\ TransientError
                /\ UNCHANGED passVars
             \/ /\ Connectable(hosts)
                /\ rs = hosts
                /\ UNCHANGED <<passVars, errors>>
             \/ /\ Connectable(hosts)
                /\ rs # hosts
                /\ UNCHANGED errors
                /\ pc' = [pc EXCEPT ![u] = "apply"]
                /\ live0' = [live0 EXCEPT ![u] = rs]
                /\ hosts0' = [hosts0 EXCEPT ![u] = hosts]
                /\ toRemove' = [toRemove EXCEPT ![u] = rs \ hosts]
                /\ toAdd' = [toAdd EXCEPT ![u] = hosts \ rs]
                /\ UNCHANGED adding

\* relation-joined on u for the new peer v.
SeeJoin(u, v) ==
    /\ life[u] = "joined" /\ pc[u] = "idle"
    /\ life[v] = "joined" /\ v # u /\ v \notin view[u]
    /\ view' = [view EXCEPT ![u] = @ \cup {v}]
    /\ RelationChangesHandler(u, Hosts(u) \cup {v}, FALSE)
    /\ UNCHANGED <<life, leader, rs, dbInit, mongodUp, startPending, stopTimer,
                   initiators, restarts, handovers>>

\* relation-departed on u for the peer v: v has left, or u itself is
\* leaving and sees every peer depart (departing_unit = u).
SeeDepart(u, v) ==
    /\ life[u] \in {"joined", "departing"} /\ pc[u] = "idle"
    /\ v \in view[u]
    /\ life[v] # "joined" \/ life[u] = "departing"
    /\ view' = [view EXCEPT ![u] = @ \ {v}]
    /\ RelationChangesHandler(u, Hosts(u) \ {v}, life[u] = "departing")
    /\ UNCHANGED <<life, leader, rs, dbInit, mongodUp, startPending, stopTimer,
                   initiators, restarts, handovers>>

\* relation-changed, leader-elected, update-status or a deferred event
\* re-run on the leader: the handler with an unchanged view.
RelationChanged(u) ==
    /\ u = leader
    /\ life[u] \in {"joined", "departing"} /\ pc[u] = "idle"
    /\ RelationChangesHandler(u, Hosts(u), FALSE)
    /\ UNCHANGED <<life, view, leader, rs, dbInit, mongodUp, startPending,
                   stopTimer, initiators, restarts, handovers>>

\* One iteration of _remove_units_from_replica_set.
RemoveMember(u) ==
    /\ pc[u] = "apply" /\ toRemove[u] # {}
    /\ \E m \in toRemove[u] :
          \/ /\ CanReconfig(rs \ {m})
             /\ rs' = rs \ {m}
             /\ toRemove' = [toRemove EXCEPT ![u] = @ \ {m}]
             /\ UNCHANGED <<pc, live0, hosts0, toAdd, adding, errors>>
          \/ /\ \/ DriverError
                \/ ~Majority(rs \ {m}) /\ UNCHANGED errors
             /\ EndPass(u)
             /\ UNCHANGED rs
    /\ UNCHANGED <<life, view, leader, dbInit, secrets, mongodUp, startPending,
                   departed, stopTimer, initiators, restarts, handovers>>

\* Mutant: the "return" after event.defer() dropped, so a member that is
\* not ready is skipped and the loop goes on.
AddMemberNoReturn(u) ==
    /\ pc[u] = "apply" /\ toRemove[u] = {} /\ toAdd[u] # {}
    /\ \E m \in toAdd[u] :
          \/ /\ ~mongodUp[m]
             /\ toAdd' = [toAdd EXCEPT ![u] = @ \ {m}]
             /\ UNCHANGED <<pc, live0, hosts0, toRemove, adding>>
          \/ /\ mongodUp[m]
             /\ pc' = [pc EXCEPT ![u] = "add"]
             /\ adding' = [adding EXCEPT ![u] = m]
             /\ UNCHANGED <<live0, hosts0, toRemove, toAdd>>
    /\ UNCHANGED <<life, view, leader, rs, dbInit, secrets, mongodUp,
                   startPending, departed, stopTimer, initiators, errors,
                   restarts, handovers>>

\* One iteration of _add_units_from_replica_set up to the write: the direct
\* is_ready check of the new member; a member that is not ready defers the
\* event and returns.
AddMember(u) ==
    /\ pc[u] = "apply" /\ toRemove[u] = {} /\ toAdd[u] # {}
    /\ \E m \in toAdd[u] :
          \/ /\ ~mongodUp[m]
             /\ EndPass(u)
          \/ /\ mongodUp[m]
             /\ pc' = [pc EXCEPT ![u] = "add"]
             /\ adding' = [adding EXCEPT ![u] = m]
             /\ UNCHANGED <<live0, hosts0, toRemove, toAdd>>
    /\ UNCHANGED <<life, view, leader, rs, dbInit, secrets, mongodUp,
                   startPending, departed, stopTimer, initiators, errors,
                   restarts, handovers>>

\* The rest of the iteration: mongo.add_replset_member through the primary.
AddReplsetMember(u) ==
    /\ pc[u] = "add"
    /\ \/ /\ CanReconfig(rs \cup {adding[u]})
          /\ rs' = rs \cup {adding[u]}
          /\ toAdd' = [toAdd EXCEPT ![u] = @ \ {adding[u]}]
          /\ pc' = [pc EXCEPT ![u] = "apply"]
          /\ adding' = [adding EXCEPT ![u] = None]
          /\ UNCHANGED <<live0, hosts0, toRemove, errors>>
       \/ /\ \/ DriverError
             \/ ~Majority(rs \cup {adding[u]}) /\ UNCHANGED errors
          /\ EndPass(u)
          /\ UNCHANGED rs
    /\ UNCHANGED <<life, view, leader, dbInit, secrets, mongodUp, startPending,
                   departed, stopTimer, initiators, restarts, handovers>>

\* The pass has applied every change; _update_app_relation_data.
FinishPass(u) ==
    /\ pc[u] = "apply" /\ toRemove[u] = {} /\ toAdd[u] = {}
    /\ EndPass(u)
    /\ UNCHANGED <<life, view, leader, rs, dbInit, secrets, mongodUp,
                   startPending, departed, stopTimer, initiators, errors,
                   restarts, handovers>>

-----------------------------------------------------------------------------
(* Workload and lifecycle hooks                                            *)

\* _on_mongod_pebble_ready: needs the keyfile secret (else MissingSecretError
\* and defer), then adds the mongod layer and replans.
MongodStart(u) ==
    /\ life[u] = "joined" /\ pc[u] = "idle"
    /\ ~mongodUp[u] /\ secrets
    /\ mongodUp' = [mongodUp EXCEPT ![u] = TRUE]
    /\ UNCHANGED <<life, view, leader, rs, dbInit, secrets, startPending,
                   departed, passVars, stopTimer, initiators, errors,
                   restarts, handovers>>

\* init_replset: replSetInitiate on u's own mongod with mongodb_config's
\* hosts (the unit and its peers).  MongoDB answers AlreadyInitialized on a
\* mongod that is a member already, which init_replset ignores.  Otherwise
\* it creates a set of all the hosts when each one is up and none is a
\* member of a set; when one is not, it raises and the hook defers with
\* nothing changed (a stutter, left out).  rs is the first set created; a
\* second one, on hosts outside it, is recorded in initiators only.
Initiate(u, hosts) ==
    \/ /\ u \in rs
       /\ UNCHANGED <<rs, initiators>>
    \/ /\ u \notin rs
       /\ \A h \in hosts : mongodUp[h] /\ h \notin rs
       /\ initiators' = initiators \cup {u}
       /\ rs' = IF rs = {} THEN hosts ELSE rs

\* _initialise_replica_set on the leader while db_initialised is unset:
\* init_replset, then the users; the flag is set only if all of it
\* succeeds.  An ExecError / PyMongoError (or a user creation that fails
\* its three attempts) before or after init_replset defers the start
\* event, and after it the set stays initiated with the flag unset.
InitialiseReplicaSet(u) ==
    \/ /\ TransientError
       /\ UNCHANGED <<rs, dbInit, initiators, startPending>>
    \/ /\ Initiate(u, Hosts(u))
       /\ \/ /\ dbInit' = TRUE
             /\ startPending' = [startPending EXCEPT ![u] = FALSE]
             /\ UNCHANGED errors
          \/ /\ TransientError
             /\ UNCHANGED <<dbInit, startPending>>

\* _on_start: deferred until mongod is ready (a deferred run that changes
\* nothing is a stutter), then _initialise_replica_set, which returns at
\* once when the db is initialised or the unit is not the leader.
Start(u) ==
    /\ startPending[u] /\ life[u] = "joined" /\ pc[u] = "idle"
    /\ mongodUp[u]
    /\ \/ /\ dbInit \/ u # leader
          /\ startPending' = [startPending EXCEPT ![u] = FALSE]
          /\ UNCHANGED <<rs, dbInit, initiators, errors>>
       \/ /\ ~dbInit /\ u = leader
          /\ InitialiseReplicaSet(u)
    /\ UNCHANGED <<life, view, leader, secrets, mongodUp, departed, passVars,
                   stopTimer, restarts, handovers>>

\* The pod of a live unit restarts: mongod goes down, a running hook is
\* killed, and the start event is emitted again.
Restart(u) ==
    /\ life[u] = "joined" /\ restarts < MaxRestarts
    /\ restarts' = restarts + 1
    /\ mongodUp' = [mongodUp EXCEPT ![u] = FALSE]
    /\ startPending' = [startPending EXCEPT ![u] = TRUE]
    /\ EndPass(u)
    /\ UNCHANGED <<life, view, leader, rs, dbInit, secrets, departed,
                   stopTimer, initiators, errors, handovers>>

\* juju add-unit.
ScaleUp(u) ==
    /\ life[u] = "new"
    /\ life' = [life EXCEPT ![u] = "joined"]
    /\ startPending' = [startPending EXCEPT ![u] = TRUE]
    /\ UNCHANGED <<view, leader, rs, dbInit, secrets, mongodUp, departed,
                   passVars, stopTimer, initiators, errors, restarts, handovers>>

\* juju remove-unit, leaving at least one other unit.
ScaleDown(u) ==
    /\ life[u] = "joined"
    /\ Joined \ {u} # {}
    /\ life' = [life EXCEPT ![u] = "departing"]
    /\ UNCHANGED <<view, leader, rs, dbInit, secrets, mongodUp, startPending,
                   departed, passVars, stopTimer, initiators, errors, restarts,
                   handovers>>

\* The pod is gone: _on_stop has returned.
Leave(u) ==
    /\ life' = [life EXCEPT ![u] = "gone"]
    /\ mongodUp' = [mongodUp EXCEPT ![u] = FALSE]
    /\ departed' = [departed EXCEPT ![u] = FALSE]
    /\ stopTimer' = [stopTimer EXCEPT ![u] = 0]

\* The departing unit has seen every peer depart; the stop hook starts.
\* Without "unit_departed" it returns at once.
StopBegin(u) ==
    /\ life[u] = "departing" /\ view[u] = {} /\ pc[u] = "idle"
    /\ \/ /\ departed[u]
          /\ life' = [life EXCEPT ![u] = "stopping"]
          /\ stopTimer' = [stopTimer EXCEPT ![u] = StopTimeout]
          /\ UNCHANGED <<mongodUp, departed>>
       \/ /\ ~departed[u]
          /\ Leave(u)
    /\ UNCHANGED <<view, leader, rs, dbInit, secrets, startPending, passVars,
                   initiators, errors, restarts, handovers>>

\* is_unit_in_replica_set() would return True.
StillMember(u) == Connectable(Hosts(u)) /\ u \in rs

\* Mutant: the loop runs while timeout >= 0, one poll too many.
StopPollOffByOne(u) ==
    /\ life[u] = "stopping"
    /\ \/ /\ StillMember(u) /\ stopTimer[u] >= 0
          /\ stopTimer' = [stopTimer EXCEPT ![u] = @ - 1]
          /\ UNCHANGED <<life, mongodUp, departed, errors>>
       \/ /\ ~StillMember(u)
          /\ Leave(u)
          /\ UNCHANGED errors
       \/ /\ StillMember(u) /\ TransientError
          /\ Leave(u)
    /\ UNCHANGED <<view, leader, rs, dbInit, secrets, startPending, passVars,
                   initiators, restarts, handovers>>

\* One iteration of the loop of _on_stop: is_unit_in_replica_set (False on
\* NotReadyError / PyMongoError), then timeout -= 1; the loop ends when the
\* unit is not seen in the set or the timeout reaches 0.
StopPoll(u) ==
    /\ life[u] = "stopping"
    /\ \/ /\ StillMember(u) /\ stopTimer[u] > 1
          /\ stopTimer' = [stopTimer EXCEPT ![u] = @ - 1]
          /\ UNCHANGED <<life, mongodUp, departed, errors>>
       \/ /\ ~StillMember(u) \/ stopTimer[u] = 1
          /\ Leave(u)
          /\ UNCHANGED errors
       \/ /\ StillMember(u) /\ TransientError
          /\ Leave(u)
    /\ UNCHANGED <<view, leader, rs, dbInit, secrets, startPending, passVars,
                   initiators, restarts, handovers>>

\* Juju elects a new leader once the old one is gone.
Failover(u) ==
    /\ life[leader] = "gone" /\ life[u] = "joined"
    /\ leader' = u
    /\ UNCHANGED <<life, view, rs, dbInit, secrets, mongodUp, startPending,
                   departed, passVars, stopTimer, initiators, errors, restarts,
                   handovers>>

\* Juju moves leadership away from a live leader, between its hooks.
Handover(u) ==
    /\ life[leader] = "joined" /\ pc[leader] = "idle"
    /\ life[u] = "joined" /\ u # leader
    /\ handovers < MaxHandovers
    /\ leader' = u
    /\ handovers' = handovers + 1
    /\ UNCHANGED <<life, view, rs, dbInit, secrets, mongodUp, startPending,
                   departed, passVars, stopTimer, initiators, errors, restarts>>

-----------------------------------------------------------------------------

Init ==
    /\ life = [u \in Unit |-> IF u \in InitialUnits THEN "joined" ELSE "new"]
    /\ view = [u \in Unit |-> {}]
    /\ leader \in InitialUnits
    /\ rs = {}
    /\ dbInit = FALSE
    /\ secrets = FALSE
    /\ mongodUp = [u \in Unit |-> FALSE]
    /\ startPending = [u \in Unit |-> u \in InitialUnits]
    /\ departed = [u \in Unit |-> FALSE]
    /\ pc = [u \in Unit |-> "idle"]
    /\ live0 = [u \in Unit |-> {}]
    /\ hosts0 = [u \in Unit |-> {}]
    /\ toRemove = [u \in Unit |-> {}]
    /\ toAdd = [u \in Unit |-> {}]
    /\ adding = [u \in Unit |-> None]
    /\ stopTimer = [u \in Unit |-> 0]
    /\ initiators = {}
    /\ errors = 0
    /\ restarts = 0
    /\ handovers = 0

Next ==
    \/ \E u, v \in Unit : SeeJoin(u, v) \/ SeeDepart(u, v)
    \/ \E u \in Unit :
          \/ RelationChanged(u) \/ RemoveMember(u) \/ AddMember(u)
          \/ AddReplsetMember(u)
          \/ FinishPass(u) \/ MongodStart(u) \/ Start(u) \/ Restart(u)
          \/ ScaleUp(u) \/ ScaleDown(u) \/ StopBegin(u) \/ StopPoll(u)
          \/ Failover(u) \/ Handover(u)

\* Juju queues the hooks of a unit and delivers each one eventually, after
\* the hook that is running (so a pending relation, pebble-ready, start or
\* stop hook gets strong fairness: it is disabled while another hook of the
\* unit runs); the leader's handler runs again and again (update-status is
\* periodic, deferred events are re-emitted), and a new leader is elected
\* once the old one is gone.  Scaling, restarts and handovers are the
\* environment's choice and get no fairness.
Fairness ==
    /\ \A u \in Unit :
          /\ SF_vars(\E v \in Unit : SeeJoin(u, v))
          /\ SF_vars(\E v \in Unit : SeeDepart(u, v))
          /\ SF_vars(MongodStart(u))
          /\ SF_vars(Start(u))
          /\ SF_vars(StopBegin(u))
          /\ WF_vars(RelationChanged(u))
          /\ WF_vars(RemoveMember(u))
          /\ WF_vars(AddMember(u))
          /\ WF_vars(AddReplsetMember(u))
          /\ WF_vars(FinishPass(u))
          /\ WF_vars(StopPoll(u))
    /\ WF_vars(\E u \in Unit : Failover(u))

Spec == Init /\ [][Next]_vars
FairSpec == Spec /\ Fairness

-----------------------------------------------------------------------------
(* Properties                                                              *)

TypeOK ==
    /\ life \in [Unit -> Life]
    /\ view \in [Unit -> SUBSET Unit]
    /\ leader \in Unit
    /\ rs \in SUBSET Unit
    /\ dbInit \in BOOLEAN
    /\ secrets \in BOOLEAN
    /\ mongodUp \in [Unit -> BOOLEAN]
    /\ startPending \in [Unit -> BOOLEAN]
    /\ departed \in [Unit -> BOOLEAN]
    /\ pc \in [Unit -> {"idle", "apply", "add"}]
    /\ live0 \in [Unit -> SUBSET Unit]
    /\ hosts0 \in [Unit -> SUBSET Unit]
    /\ toRemove \in [Unit -> SUBSET Unit]
    /\ toAdd \in [Unit -> SUBSET Unit]
    /\ adding \in [Unit -> Unit \cup {None}]
    /\ \A u \in Unit : pc[u] = "add" => adding[u] \in Unit
    /\ stopTimer \in [Unit -> 0..StopTimeout]
    /\ initiators \in SUBSET Unit
    /\ errors \in 0..MaxErrors
    /\ restarts \in 0..MaxRestarts
    /\ handovers \in 0..MaxHandovers

\* The replica set the leader read at the start of its pass is still the
\* truth at each of its writes: what MongoDB holds is exactly the members
\* read (replset_members) minus the removals done so far plus the
\* additions done so far.  Other units' hooks, Juju and the start hook
\* never change the configuration under a running pass (the handler reads
\* replset_members once, lines 414-415, and acts on it at 426 and 433).
SnapshotFresh ==
    \A u \in Unit : pc[u] # "idle" =>
        rs = (live0[u] \cap hosts0[u]) \cup toRemove[u]
                 \cup ((hosts0[u] \ live0[u]) \ toAdd[u])

\* Every change of the replica-set configuration is either init_replset of
\* the leader's start hook creating the set, before the db is initialised,
\* with exactly the hosts the leader sees, all of them up, or a write of
\* the leader's current pass of
\* _relation_changes_handler that adds only a host the pass read as
\* missing and removes only a member the pass read as no longer a host.
\* No other unit's hook, no restart and no leadership change reconfigures
\* the set.
OnlyLeaderReconfigures ==
    [][rs' # rs =>
        \/ /\ ~dbInit /\ rs = {} /\ rs' = Hosts(leader)
           /\ \A h \in rs' : mongodUp[h]
        \/ /\ dbInit /\ pc[leader] # "idle"
           /\ rs' \ rs \subseteq hosts0[leader] \ live0[leader]
           /\ rs \ rs' \subseteq live0[leader] \ hosts0[leader]]_vars

\* Only one replica set is ever created: _initialise_replica_set says "The
\* replica set should be initialised only once".
InitOnce == Cardinality(initiators) <= 1

\* A unit's pod goes away only once it has been removed from the replica
\* set: the point of the blocking loop in _on_stop.
StopOnlyWhenRemoved == \A u \in Unit : life[u] = "gone" => u \notin rs

\* A member is added to the replica set only while its mongod is up: the
\* is_ready check before add_replset_member, which the spec (4.2, step 5)
\* says "avoids adding an unreachable member".
AddsOnlyReady == [][\A m \in rs' \ rs : mongodUp[m]]_vars

\* The leader removes from the replica set only units that have left the
\* application (_remove_units_from_replica_set with replset_members -
\* mongodb_hosts).
RemovesOnlyDeparted ==
    [][\A m \in rs \ rs' : life[m] # "joined"]_vars

\* Whenever the deployment settles with a primary, the leader eventually
\* makes the replica set equal to the hosts of the live units and keeps it
\* so: the convergence _relation_changes_handler exists for.
Converged ==
    /\ life[leader] = "joined"
    /\ view[leader] = Joined \ {leader}
    /\ rs = Joined

Convergence == (<>[](dbInit /\ HasPrimary)) => <>[]Converged

\* The replica set eventually gets initialised: "it is guaranteed that
\* another attempt at initialisation will be made" (_on_start docstring).
EventuallyInitialised == <>dbInit

=============================================================================
