# TLA+ models of the MongoDB k8s charm

This directory holds TLA+ models of the control logic in `src/`:
- `src/src/charm.py`, the MongoDB Kubernetes charm;
- `src/lib/charms/mongodb/v0/mongodb_backups.py`, its backup manager.

Alongside the models are TLC configurations that check them on small instances, and TLAPS proofs that cover every instance.

## The system

The charm runs as one Juju unit per MongoDB pod. Each unit handles its own hooks one at a time: relation-joined/-changed/-departed, leader-elected, pebble-ready, start, stop, update-status, s3 credentials-changed and actions. Units run concurrently with each other. Juju makes one unit the leader (`is_leader()`).

The units share four things, and interact only through them:
- **The MongoDB replica-set configuration.** Reached through the driver.
- **The application peer data.** It holds `db_initialised` and the secrets.
- **Each unit's view of the peer relation** (`relation.units`). A unit's view changes only when that unit runs its relation hooks.
- **The pbm (Percona Backup for MongoDB) configuration and daemon.** Cluster-wide, reached through the `pbm` CLI in each unit's container.

The components are:

| Component | Code | Module |
|---|---|---|
| Replica-set reconciler | `_relation_changes_handler`, `_remove_units_from_replica_set`, `_add_units_from_replica_set`, `_unit_hosts`, `_update_app_relation_data` | `ReplicaSet` |
| Unit lifecycle | `_on_mongod_pebble_ready`, `_on_start` with `_initialise_replica_set`, `_on_stop` with `is_unit_in_replica_set`, `_generate_secrets` | `ReplicaSet` |
| Backup configurator and sync coordinator | `_on_s3_credential_changed`, `_configure_pbm_options`, `_set_config_options`, `_resync_config_options`, `_wait_pbm_status`, `_get_pbm_status`, the backup actions, `_connect_pbm_agent`, `start_backup_service` | `Backups` |
| Secret store and password actions | `_juju_secrets_get`, `get_secret`, `_juju_secret_set`, `_on_get_password`, `_on_set_password`, the reconnection at the top of `_relation_changes_handler` | `Secrets`, with the abstract `PasswordStore` |
| Exporter and pbm-agent layers | `_connect_mongodb_exporter`, `_connect_pbm_agent` | `Secrets` (the password each layer carries) |
| Status projector | `_on_update_status`, a stateless projection of statuses read in the hook | not modelled |
| Log forwarding, metrics, `config.py` | pure I/O and constants | not modelled |

`PROJECT.json` lists, for every TLA+ definition that models code, the lines it translates (`map`). It also lists the runs, the mutants, the findings and the hazards.

## ReplicaSet.tla

**State.**
- `life` of each unit: new, joined, departing, stopping, gone.
- `view`: each unit's own peer-relation units.
- `leader`.
- `rs`: the members of the replica-set configuration.
- `dbInit`: the `db_initialised` flag.
- `secrets`: the keyfile and passwords exist.
- `mongodUp`: the unit's mongod is ready.
- `startPending`: the start event is still to be handled.
- `departed`: the `unit_departed` flag in the unit's peer data.
- `stopTimer`: the stop hook's remaining timeout.
- `initiators`: the units on which `init_replset` created a set.

A host is the unit itself, because `get_hostname_for_unit` is injective.

**The reconciliation pass.** The leader's pass is split at each MongoDB write, so that other units, Juju and pods can move between the writes:
- `RelationChangesHandler` is the handler up to the read of `replset_members`.
- `pc`, `live0`, `hosts0`, `toRemove` and `toAdd` are the pass's local variables.
- `RemoveMember` is one iteration of the removal loop.
- `AddMember` is the readiness check of one addition, with its `event.defer(); return`. `AddReplsetMember` is the `add_replset_member` call that follows it (line 797). The member being added is kept in `adding`, so units, pods and Juju can move between the check and the add.
- `FinishPass` is `_update_app_relation_data`.

The exclusion of `event.unit` at lines 430-431 is not modelled. During a departed hook `event.unit` is never in `relation.units`, so the exclusion is a no-op.

**The hooks.**
- `SeeJoin(u, v)` and `SeeDepart(u, v)` are the relation hooks of unit `u` about peer `v`.
  - A departing unit receives relation-departed for every peer, with itself as `departing_unit`.
  - That is when `unit_departed` is set.
- `RelationChanged` is relation-changed, leader-elected or a re-run deferred event on the leader.
- `Start` uses `InitialiseReplicaSet`. A failure before or after `init_replset` (an `ExecError`, a `PyMongoError`, or a user creation that exhausts its retries) defers the event.
- `init_replset` is called with `mongodb_config`, whose hosts are the unit and its view of the peers (`Hosts`, lines 129-140 and 160). `Initiate` gives it MongoDB's semantics, since the helper library is not in the repository:
  - on a mongod that is already a member, replSetInitiate fails with AlreadyInitialized, which `init_replset` ignores;
  - otherwise it needs every host up and in no set, and creates a set of all of them.
- `StopBegin` and `StopPoll` model `_on_stop`: its loop, its timeout, and `is_unit_in_replica_set`, which returns False on errors.

**The environment.**
- `Restart`: a pod restart.
- `ScaleUp` and `ScaleDown`.
- `Failover`: a new leader once the old leader's unit is gone.
- `Handover`: leadership moves between hooks.
- MongoDB has a primary when a majority of the members is up (`HasPrimary`).
- `add_replset_member` and `remove_replset_member` are replSetReconfig calls. They pass only with a primary and a majority of the new configuration up (`CanReconfig`); otherwise they fail like any driver error.
- A driver call fails when there is no primary, or with a bounded transient error (`TransientError`).

**Assumptions about Juju:**
- leadership moves only between a leader's hooks, and a departing leader keeps leadership until its unit is gone;
- views are per unit and change only in that unit's relation hooks;
- a second `init_replset` on another unit starts a separate set, which `rs` does not track (`initiators` records it).

## Backups.tla

**State.**
- `pbmCfg`: the pbm configuration, giving for each key the credentials version it was written from.
- `pbmOp`: "none" or "resync".
- Per unit:
  - the handler's `step`;
  - `snap`: the credentials it read;
  - `left`: the keys it still has to set;
  - the counters `tries`, `inner` and `outer` of the three retry loops;
  - `pending`: a credentials-changed event is queued;
  - `svc`: the pbm-agent service is in the pebble plan;
  - `bstatus`: the unit status the backup code set.

**The credentials-changed handler.** Every unit runs it. It is split at each pbm command:
- `OnS3CredentialChanged` reads the credentials. With no service it defers and goes on: there is no `return` after the defer at line 112.
- `SetConfigOption` is one `pbm config --set`. A failure sets Blocked and returns without deferring.
- `StartBackupService` follows; with no service the hook fails and Juju re-runs it.
- `PreCheck` is one pre-check attempt. On Waiting it restarts the agent, which stops the resync.
- `ForceResync` requests the resync.
- `WaitPbmStatus` is one poll of the nested 3×20 loop. Exhaustion defers the event.

**The environment.**
- `CredentialsChanged` queues the event on every unit.
- `ResyncDone` is the daemon finishing a resync.

The charm never starts a backup or restore: both actions end in a TODO. pbm is therefore never in maintenance, and `BackupAction` only reads the status into the unit status.

## Secrets.tla

**State.**
- `content`: the latest revision of the application secret (a password per charm user).
- `dbPwd`: the password MongoDB accepts for each user.
- `svcPwd[u][s]`: the password in unit `u`'s pebble layer of `pbm-agent` (backup user) or `mongodb_exporter` (monitor user).
- `act[u]`: `u`'s set-password between its MongoDB write and its secret write. It holds the user, the new password and the hook's cache of the secret.
- `leader`, and the counters `sets` and `setErrors`.

**Actions.**
- `SetPasswordDb` is `_on_set_password` up to `set_user_password`, on the leader. The hook's cache is loaded on its first `get_secret` (`self.secrets` is reset in `__init__` for every hook).
- `SetPasswordSecret` is the rest of the action:
  - `_juju_secret_set` writes the whole cache back (`JujuSecretSet`);
  - the user's service is reconnected;
  - a failing `set_content` is either an OSError, which is logged and swallowed (line 885), or another error, which fails the action.
- `Reconnect` is the start of every relation hook. It reconnects both services from a fresh cache.
- `Handover` moves leadership between hooks.

**Assumptions about Juju.** The secret is created by the application (`_scope_opj(APP_SCOPE).add_secret`, line 896), so every unit belongs to its owner:
- `get_content` returns the latest revision to a unit of the owning application. Without this, no unit would ever read a rotated password, since `_juju_secrets_get` calls `get_content()` without `refresh=True`.
- Juju sends secret-changed only to observers, never to the owner's units. So `_on_secret_changed` has no action here. Even for an observer it would not help: it would read the tracked revision, the old one.
- Only relation hooks reconnect the other units' services, and they come from changes of the deployment, so they get no fairness.

## PasswordStore.tla and the refinement

`PasswordStore` is what get-password and set-password promise together. It has one password per user, which is both MongoDB's and the store's. `SetPassword` replaces one user's password in both at once.

`Secrets` instantiates it as `AtomicStore` with this mapping:
- `db <- dbPwd`;
- `secret <- StoreView`: the content, with the leader's pending write applied if there is one.

`AtomicPasswords == AtomicStore!Spec` is the refinement property. Under it:
- the MongoDB write of set-password is the abstract `SetPassword`;
- every other step is a stutter.

It holds only when `set_content` does not fail.

## Runs

All runs use model values for units, keys, passwords and credential versions. Each row gives the cfg, the properties it checks and the expected result.

- **`MCReplicaSet_Convergence.cfg`**: TypeOK, SnapshotFresh, OnlyLeaderReconfigures and Convergence. Expected: pass.
  - Instance: 2 units (1 deployed, 1 added by scale-up), 1 transient error, 1 restart, 1 handover, fairness. Every ReplicaSet action fires.
  - SnapshotFresh: during a pass, the set is always the pass's snapshot changed by its own writes. The proof covers every number of units.
  - OnlyLeaderReconfigures: every change of the set is one of two writes. The first is the leader's `init_replset` before the db is initialised, which creates the set from all the hosts of its view, every one of them up. The second is a write of the leader's running pass, within the differences that pass read. It is also proved.
  - Convergence: once the db is initialised and has a primary, the set ends up equal to the joined units, and the leader's view is right.
- **`MCReplicaSet_InitOnce.cfg`**: InitOnce. Expected: violation.
  - Two units start before they see each other. The leader's `init_replset` creates {u1} and a user creation fails. Leadership moves, and u2's start hook runs `init_replset` on its own mongod, which is in no set, so a second set {u2} is created.
- **`MCReplicaSet_StopOnlyWhenRemoved.cfg`**: StopOnlyWhenRemoved. Expected: violation.
  - A leader that never saw a peer depart stops at once while still a member.
- **`MCReplicaSet_RemovesOnlyDeparted.cfg`**: RemovesOnlyDeparted. Expected: violation.
  - A departing leader sees its peers "depart" and removes them.
- **`MCReplicaSet_EventuallyInitialised.cfg`**: EventuallyInitialised. Expected: violation.
  - The leader leaves before its start hook, and the new leader never initialises.
- **`MCReplicaSet_AddsOnlyReady.cfg`**: AddsOnlyReady. Expected: violation.
  - The spec (4.2) says the readiness check avoids adding an unreachable member.
  - Between `is_ready` and `add_replset_member`, the unit is scaled down. The reconfig still passes MongoDB's majority check, so {u1, u2} becomes {u1, u2, gone u3}, one failure away from losing its primary.
- **`MCBackups.cfg`**: TypeOK and QuiescentConfigured. Expected: pass.
  - Instance: 2 units, 2 keys, 2 credential versions, 2 changes, 1 set failure, all loops at 2 attempts.
  - The three retry counters stay within their bounds (also proved).
  - QuiescentConfigured (also proved) is the safety core of EventuallyConfigured. Assume every handler has returned, no event is queued and no `--set` has failed. Then pbm holds the current credentials, even when a handler that read older credentials wrote after a newer one. After a failure it says nothing (line 209, see `MCBackups_Converge.cfg`).
- **`MCBackups_Converge.cfg`**: EventuallyConfigured. Expected: pass.
  - There are no `config --set` failures: a failure returns without deferring, so the keys written so far stay mixed until the next credentials change (line 209).
  - The units' racing writes and resyncs end with pbm holding the current credentials.
- **`MCSecrets.cfg`**: WriteBackKeepsOthers. Expected: pass.
  - Instance: 3 units, 2 passwords, 2 set-password actions, 1 `set_content` failure.
  - A user's entry in the secret changes only through a set-password for that user, although `_juju_secret_set` writes back the whole cache.
- **`MCSecrets_Rotation.cfg`**: SecretMatchesDb and AtomicPasswords. Expected: pass.
  - No `set_content` failures.
  - get-password agrees with MongoDB, except during the leader's action.
  - The two writes implement `PasswordStore`.
- **`MCSecrets_SetError.cfg`**: SecretMatchesDb. Expected: violation.
  - `set_content` raises an OSError after MongoDB has the new password. The action reports success, and the secret keeps the old password for good.
- **`MCSecrets_Services.cfg`**: ServicesEventuallyCurrent. Expected: violation.
  - The docstring of `_on_secret_changed` says the other units restart pbm-agent and the exporter on secret-changed after set-password.
  - One rotation of the backup password by the leader, with the running action fair. No secret-changed reaches the other units, so a unit that runs no relation hook keeps the old password in its pbm-agent for good.

**Bounds.** Each bound is the smallest that makes the interesting case happen:
- Two credential versions make stale writers visible.
- Two passwords make a stale cache visible.
- One error is enough to take every failure branch.
- Loop bounds of 2 make both "retry" and "give up" reachable.
- The violation runs use 3 units, because a scale-up during a pass needs a third unit.

The code's real bounds (20, 3, UNIT_REMOVAL_TIMEOUT) only lengthen the runs. The ReplicaSet liveness run uses 2 units: the 3-unit liveness graphs take too long for TLC.

**Mutants.** Each property of a passing run is broken by a mutant of the code it is about:
- a dropped `return` after the defer in `_add_units_from_replica_set`;
- an off-by-one in the stop loop;
- `_unit_hosts` without the unit itself;
- an off-by-one in the inner wait loop;
- an option loop that stops one key early;
- set-password without the leader check (breaks both WriteBackKeepsOthers and AtomicPasswords);
- `set_content` from the cache before the new value is put in;
- credentials-changed using the credentials an earlier hook read (breaks QuiescentConfigured);
- `_relation_changes_handler` without its `is_leader` check (breaks OnlyLeaderReconfigures).

## Fairness

Juju queues each unit's hooks and delivers every queued one eventually. A pending hook can be disabled while another hook of the same unit runs, so in ReplicaSet:
- the pending relation, pebble-ready, start and stop hooks get strong fairness;
- the leader's handler re-runs (update-status is periodic, deferred events are re-emitted) and gets weak fairness, as do the steps of a running pass and the stop loop;
- a new leader is elected once the old one is gone (weak fairness).

In Backups:
- each step of a running handler follows the previous one;
- `_connect_pbm_agent` runs in every relation hook;
- the daemon ends a resync;
- the db gets initialised (ReplicaSet's EventuallyInitialised shows when it does not).

These are weak fairness. Scaling, restarts, handovers, credential changes and actions are the environment's choice and get no fairness.

In Secrets, a running set-password finishes (weak fairness). Relation hooks get none (see the assumptions about Juju).

## What is proved

Three modules hold proofs that TLAPS checks for every value of the constants.

**`ReplicaSetProofs.tla`** uses only `UnitAssumption` and `BoundAssumption`.
- **`TypeCorrect`**: `Spec => []TypeOK`. It rests on:
  - lemmas for the handler's effects and `EndPass`;
  - `InitType` and `TypeStep`, with one step per action.
- **`SnapshotFreshness`**: `Spec => []SnapshotFresh`. SnapshotFresh is not inductive on its own, because a step of another unit could write `rs` during a pass. The inductive invariant `IInv` is TypeOK plus, for every unit in a pass (`PassInv`):
  - it is the leader and alive;
  - the db is initialised;
  - its remaining removals and additions lie in `live0 \ hosts0` and `hosts0 \ live0`;
  - the member it is adding is one of them;
  - `rs` equals its snapshot changed by its own writes.

  These conjuncts rule out every other writer:
  - **Failover** needs the leader gone, but the leader in a pass is alive.
  - **Handover** needs the leader idle.
  - **Start** writes only while the db is not initialised.
  - **Other units' handlers** do not start a pass, because only the leader does.

  TLC checked `IInv` as an invariant before the proof. The proof has `InitInv` and `InvStep` (one step per action), and the lemmas `HandlerInv`, `EndPassInv`, `QuietInv` and `OnlyLeaderApplies`.
- **`LeaderReconfigures`**: `Spec => OnlyLeaderReconfigures`, for every number of units and every bound. It uses the same `IInv`:
  - `WritersOfSet` shows that only `Start`, `RemoveMember` and `AddReplsetMember` change `rs`;
  - `PassInv` makes the writer of a pass the leader of an initialised db;
  - it also puts the member removed in `live0 \ hosts0` and the member added in `hosts0 \ live0`;
  - `Start` changes `rs` only on the leader with the db not initialised, and only when `rs = {}`: then `Initiate` needs every host of the leader's view up and sets `rs` to them. On a unit already in the set it changes nothing, and on a unit outside a non-empty set it creates a separate set, which leaves `rs` alone.

**`BackupsProofs.tla`** uses `BackupAssumption`.
- **`TypeCorrect`**: `Spec => []TypeOK`. TypeOK bounds the pre-check counter below `PreAttempts`, and the counters of `_wait_pbm_status` below `WaitInner` and `WaitOuter`. Each loop step either increments a counter that is still below its limit minus one, resets it, or ends the handler (`EndHandlerType`).
- **`QuiescentSafe`**: `Spec => []QuiescentConfigured`, for every number of units, options and credential versions. `BackupAssumption` includes `Unit # {}`: with no unit, nobody configures pbm. QuiescentConfigured is not inductive, because a handler that read older credentials may still overwrite an option. The inductive invariant `IInv` is TypeOK plus two facts:
  - `StaleDeferred`: a running handler whose credentials are no longer current has its event queued. `CredentialsChanged` queues the event on every unit, and a handler only keeps or sets that flag when it returns.
  - `Owed`: if no `--set` has failed, every option that does not hold the current credentials is owed by some unit. That unit has the event queued, or it is a handler with the current credentials that still has the option to set.

  A stale write is owed by its own unit through `StaleDeferred`. A unit stops owing only by starting a fresh handler, which then owes every option. TLC checked `StaleDeferred` and `Owed` as invariants on the `backup_safety` instance before the proof. The lemmas `EndHandlerIInv`, `SetOptionIInv` and `PhaseIInv` cover the handler's returns, its writes and its moves between phases.

**`SecretsProofs.tla`** uses `SecretsAssumption`, which includes that `None` is no pending action.
- **`TypeCorrect`**: `Spec => []TypeOK`.
- **`WriteBackSafe`**: `Spec => WriteBackKeepsOthers`, for every instance, including failing `set_content`. It rests on the inductive invariant `CacheInv`: only the leader is between the two writes, and its cache equals the content. This holds because:
  - `SetPasswordDb` needs the leader;
  - `Handover` needs the leader idle;
  - only the leader's own write changes the content.
- **`SecretsConsistent`**: if `MaxSetErrors = 0`, then `Spec => []SecretMatchesDb`. It adds `DbInv`, `dbPwd = StoreView`, to the inductive invariant.
- **`SecretsRefinement`**: if `MaxSetErrors = 0`, then `Spec => AtomicPasswords`. The initial states map to `PasswordStore`'s initial states. Using `DbInv` before and after the step:
  - `SetPasswordDb` maps to `SetPassword`;
  - every other step leaves `dbPwd` and `StoreView` unchanged.

**Only model-checked.** Everything else is checked only by TLC:
- all liveness properties (Convergence, EventuallyConfigured, ServicesEventuallyCurrent). They need fairness and ENABLED, which are beyond TLAPS.
- the violations.

## Not modelled

- **Log forwarding, metrics endpoints, TLS files and the layers' contents beyond the passwords.** They are I/O, and no property tells them apart.
- **Which charm user exists.** User creation is success or a deferring failure.
- **pbm's own status parsing and the replica-set member status.** `process_pbm_status` and `build_unit_status` are not in the repository. In Backups pbm is waiting, blocked or active.
- **Backups and restores.** The charm never starts one: both actions end in a TODO.
- **Unit-scope (TLS) secrets and the creation branch of `_juju_secret_set`.** No path from a charm user's password reaches them.
- **MongoDB's internal elections.** They are abstracted to "a majority of members is up".
- **`config.py`.** It holds constants only. `UNIT_REMOVAL_TIMEOUT` is the `StopTimeout` constant.
