------------------------------- MODULE Backups -------------------------------
(***************************************************************************)
(* The backup side of the charm: MongoDBBackups                            *)
(* (src/lib/charms/mongodb/v0/mongodb_backups.py) with the charm's pbm     *)
(* helpers (src/src/charm.py).  Every unit handles the s3 credentials-     *)
(* changed event on its own: it writes the pbm options one key at a time   *)
(* into the cluster-wide pbm configuration, starts its pbm-agent, waits    *)
(* until pbm is not resyncing, asks for a resync and polls the status.     *)
(*                                                                         *)
(* pbm itself is one shared daemon state: the configuration (a value per   *)
(* key, each the value of some version of the credentials) and whether a  *)
(* resync is running.  A credentials record is a model value; a key holds *)
(* the version of the record it was last written from.  The charm never   *)
(* starts a backup or a restore (both actions end in a TODO), so pbm is    *)
(* never in "maintenance".                                                 *)
(***************************************************************************)
EXTENDS Naturals

CONSTANTS
    Unit,            \* the units of the application
    Key,             \* the pbm options of S3_PBM_OPTION_MAP plus storage.type
    Cred,            \* versions of the s3-integrator credentials record
    None,            \* no value
    MaxCredChanges,  \* bound on changes of the credentials
    MaxErrors,       \* bound on failures of "pbm config --set"
    PreAttempts,     \* stop_after_attempt(20) of the pre-check in _resync_config_options
    WaitInner,       \* stop_after_attempt(3) of the loop in _wait_pbm_status
    WaitOuter        \* stop_after_attempt(20) of the @retry on _wait_pbm_status

ASSUME BackupAssumption ==
    /\ Unit # {} /\ Cred # {} /\ None \notin Cred
    /\ MaxCredChanges \in Nat /\ MaxErrors \in Nat
    /\ PreAttempts \in Nat \ {0}
    /\ WaitInner \in Nat \ {0} /\ WaitOuter \in Nat \ {0}

VARIABLES
    cred,         \* the credentials in the s3 relation
    credChanges,  \* changes of the credentials so far
    pending,      \* pending[u]: a credentials-changed event is queued on u
    dbInit,       \* "db_initialised" in the application peer data
    svc,          \* svc[u]: the pbm-agent service is in u's pebble plan
    pbmCfg,       \* pbm's configuration: key -> credentials version or None
    pbmOp,        \* "none" or "resync": what the pbm daemon is doing
    step,         \* where u's credentials-changed handler is
    snap,         \* the credentials u's handler read (_get_pbm_configs)
    left,         \* the keys u's handler has still to set
    tries,        \* attempts of the pre-check loop so far
    inner,        \* attempts of the inner loop of _wait_pbm_status so far
    outer,        \* retries of _wait_pbm_status so far
    bstatus,      \* the unit status the backup code last set
    errors        \* failures of "pbm config --set" so far

handlerVars == <<step, snap, left, tries, inner, outer>>
vars == <<cred, credChanges, pending, dbInit, svc, pbmCfg, pbmOp, handlerVars,
          bstatus, errors>>

Step == {"idle", "set", "precheck", "resync", "wait"}
Status == {"none", "active", "waiting", "blocked"}

-----------------------------------------------------------------------------
(* Helpers                                                                 *)

\* pbm's configuration is the full translation of one credentials record.
ValidConfig == \E c \in Cred : \A k \in Key : pbmCfg[k] = c

\* _get_pbm_status with process_pbm_status: waiting without the pbm-agent
\* service (ModelError) or while resyncing, blocked when pbm reports a
\* configuration error, active otherwise.
PbmStatus(u) ==
    CASE ~svc[u]             -> "waiting"
      [] pbmOp = "resync"    -> "waiting"
      [] ~ValidConfig        -> "blocked"
      [] OTHER               -> "active"

\* The handler returns; "defer" says whether it called event.defer().
EndHandler(u, defer) ==
    /\ step' = [step EXCEPT ![u] = "idle"]
    /\ pending' = [pending EXCEPT ![u] = defer]
    /\ left' = [left EXCEPT ![u] = {}]
    /\ tries' = [tries EXCEPT ![u] = 0]
    /\ inner' = [inner EXCEPT ![u] = 0]
    /\ outer' = [outer EXCEPT ![u] = 0]
    /\ UNCHANGED snap

-----------------------------------------------------------------------------
(* The environment: the s3 relation, the replica set, the pebble plan and *)
(* the pbm daemon.                                                         *)

\* The s3-integrator publishes new credentials: credentials-changed is
\* queued on every unit, also on one that is running the handler.
CredentialsChanged ==
    /\ credChanges < MaxCredChanges
    /\ \E c \in Cred \ {cred} : cred' = c
    /\ credChanges' = credChanges + 1
    /\ pending' = [u \in Unit |-> TRUE]
    /\ UNCHANGED <<dbInit, svc, pbmCfg, pbmOp, handlerVars, bstatus, errors>>

\* The leader's start hook sets "db_initialised".
DbInitialised ==
    /\ ~dbInit
    /\ dbInit' = TRUE
    /\ UNCHANGED <<cred, credChanges, pending, svc, pbmCfg, pbmOp, handlerVars,
                   bstatus, errors>>

\* _connect_pbm_agent: once the db is initialised (and the backup password
\* is set) the pbm-agent layer is added to the plan.
ConnectPbmAgent(u) ==
    /\ step[u] = "idle" /\ dbInit /\ ~svc[u]
    /\ svc' = [svc EXCEPT ![u] = TRUE]
    /\ UNCHANGED <<cred, credChanges, pending, dbInit, pbmCfg, pbmOp,
                   handlerVars, bstatus, errors>>

\* The pbm daemon finishes (or gives up) a resync.
ResyncDone ==
    /\ pbmOp = "resync"
    /\ pbmOp' = "none"
    /\ UNCHANGED <<cred, credChanges, pending, dbInit, svc, pbmCfg, handlerVars,
                   bstatus, errors>>

-----------------------------------------------------------------------------
(* _on_s3_credential_changed and _configure_pbm_options, one step per pbm  *)
(* command.  Before the db is initialised the event is deferred (a         *)
(* stutter).  Without the pbm-agent service the event is deferred but the  *)
(* handler goes on (there is no return after event.defer()).  It reads    *)
(* the credentials once, then set_pbm_config_file.                          *)

\* Mutant: the handler uses the credentials an earlier hook read.
OnS3CredentialChangedCached(u) ==
    /\ pending[u] /\ step[u] = "idle" /\ dbInit
    /\ pending' = [pending EXCEPT ![u] = ~svc[u]]
    /\ left' = [left EXCEPT ![u] = Key]
    /\ step' = [step EXCEPT ![u] = "set"]
    /\ UNCHANGED <<cred, credChanges, dbInit, svc, pbmCfg, pbmOp, snap, tries,
                   inner, outer, bstatus, errors>>

OnS3CredentialChanged(u) ==
    /\ pending[u] /\ step[u] = "idle" /\ dbInit
    /\ pending' = [pending EXCEPT ![u] = ~svc[u]]
    /\ snap' = [snap EXCEPT ![u] = cred]
    /\ left' = [left EXCEPT ![u] = Key]
    /\ step' = [step EXCEPT ![u] = "set"]
    /\ UNCHANGED <<cred, credChanges, dbInit, svc, pbmCfg, pbmOp, tries, inner,
                   outer, bstatus, errors>>

\* One "pbm config --set key=value" of _set_config_options; a failure is
\* SetPBMConfigError: blocked, and the handler returns without deferring.
SetConfigOption(u) ==
    /\ step[u] = "set" /\ left[u] # {}
    /\ \E k \in left[u] :
          \/ /\ pbmCfg' = [pbmCfg EXCEPT ![k] = snap[u]]
             /\ left' = [left EXCEPT ![u] = @ \ {k}]
             /\ UNCHANGED <<pending, step, tries, inner, outer, bstatus, errors>>
          \/ /\ errors < MaxErrors
             /\ errors' = errors + 1
             /\ bstatus' = [bstatus EXCEPT ![u] = "blocked"]
             /\ EndHandler(u, pending[u])
             /\ UNCHANGED pbmCfg
    /\ UNCHANGED <<cred, credChanges, dbInit, svc, pbmOp, snap>>

\* Mutant: the option loop stops one key early.
StartBackupServiceEarly(u) ==
    /\ step[u] = "set" /\ left[u] \in {{}} \cup {{k} : k \in Key}
    /\ \/ /\ svc[u]
          /\ step' = [step EXCEPT ![u] = "precheck"]
          /\ UNCHANGED <<pending, left, tries, inner, outer>>
       \/ /\ ~svc[u]
          /\ EndHandler(u, TRUE)
    /\ UNCHANGED <<cred, credChanges, dbInit, svc, pbmCfg, pbmOp, snap,
                   bstatus, errors>>

\* All options are set; start_backup_service.  Without the service in the
\* plan, container.start raises and the hook fails: Juju runs the event
\* again.
StartBackupService(u) ==
    /\ step[u] = "set" /\ left[u] = {}
    /\ \/ /\ svc[u]
          /\ step' = [step EXCEPT ![u] = "precheck"]
          /\ UNCHANGED <<pending, left, tries, inner, outer>>
       \/ /\ ~svc[u]
          /\ EndHandler(u, TRUE)
    /\ UNCHANGED <<cred, credChanges, dbInit, svc, pbmCfg, pbmOp, snap,
                   bstatus, errors>>

\* One attempt of the pre-check of _resync_config_options.  A running
\* resync (WaitingStatus) restarts the pbm-agent, which stops the resync,
\* and raises PBMBusyError; after the last attempt the error reaches
\* _configure_pbm_options: waiting, and the event is deferred.  Any other
\* status ends the loop.
PreCheck(u) ==
    /\ step[u] = "precheck"
    /\ \/ /\ PbmStatus(u) = "waiting"
          /\ pbmOp' = "none"
          /\ \/ /\ tries[u] + 1 < PreAttempts
                /\ tries' = [tries EXCEPT ![u] = @ + 1]
                /\ UNCHANGED <<pending, step, left, inner, outer, bstatus>>
             \/ /\ tries[u] + 1 = PreAttempts
                /\ bstatus' = [bstatus EXCEPT ![u] = "waiting"]
                /\ EndHandler(u, TRUE)
       \/ /\ PbmStatus(u) # "waiting"
          /\ step' = [step EXCEPT ![u] = "resync"]
          /\ UNCHANGED <<pending, left, tries, inner, outer, bstatus, pbmOp>>
    /\ UNCHANGED <<cred, credChanges, dbInit, svc, pbmCfg, snap, errors>>

\* "pbm config --force-resync".
ForceResync(u) ==
    /\ step[u] = "resync"
    /\ pbmOp' = "resync"
    /\ step' = [step EXCEPT ![u] = "wait"]
    /\ UNCHANGED <<cred, credChanges, pending, dbInit, svc, pbmCfg, snap, left,
                   tries, inner, outer, bstatus, errors>>

\* Mutant: the inner loop of _wait_pbm_status makes one attempt too many.
WaitPbmStatusOffByOne(u) ==
    /\ step[u] = "wait"
    /\ \/ /\ pbmOp = "resync"
          /\ bstatus' = [bstatus EXCEPT ![u] = "waiting"]
          /\ \/ /\ inner[u] < WaitInner
                /\ inner' = [inner EXCEPT ![u] = @ + 1]
                /\ UNCHANGED <<pending, step, left, tries, outer>>
             \/ /\ inner[u] = WaitInner /\ outer[u] + 1 < WaitOuter
                /\ inner' = [inner EXCEPT ![u] = 0]
                /\ outer' = [outer EXCEPT ![u] = @ + 1]
                /\ UNCHANGED <<pending, step, left, tries>>
             \/ /\ inner[u] = WaitInner /\ outer[u] + 1 = WaitOuter
                /\ EndHandler(u, TRUE)
       \/ /\ pbmOp # "resync"
          /\ bstatus' = [bstatus EXCEPT ![u] = PbmStatus(u)]
          /\ EndHandler(u, pending[u])
    /\ UNCHANGED <<cred, credChanges, dbInit, svc, pbmCfg, pbmOp, snap, errors>>

\* One poll of _wait_pbm_status.  A resync in progress sets waiting and
\* raises ResyncError: the inner loop retries it, then the @retry, and
\* after the last one _configure_pbm_options defers the event.  Otherwise
\* the poll returns (an ExecError only sets blocked) and the handler ends
\* with the status from _get_pbm_status.
WaitPbmStatus(u) ==
    /\ step[u] = "wait"
    /\ \/ /\ pbmOp = "resync"
          /\ bstatus' = [bstatus EXCEPT ![u] = "waiting"]
          /\ \/ /\ inner[u] + 1 < WaitInner
                /\ inner' = [inner EXCEPT ![u] = @ + 1]
                /\ UNCHANGED <<pending, step, left, tries, outer>>
             \/ /\ inner[u] + 1 = WaitInner /\ outer[u] + 1 < WaitOuter
                /\ inner' = [inner EXCEPT ![u] = 0]
                /\ outer' = [outer EXCEPT ![u] = @ + 1]
                /\ UNCHANGED <<pending, step, left, tries>>
             \/ /\ inner[u] + 1 = WaitInner /\ outer[u] + 1 = WaitOuter
                /\ EndHandler(u, TRUE)
       \/ /\ pbmOp # "resync"
          /\ bstatus' = [bstatus EXCEPT ![u] = PbmStatus(u)]
          /\ EndHandler(u, pending[u])
    /\ UNCHANGED <<cred, credChanges, dbInit, svc, pbmCfg, pbmOp, snap, errors>>

\* The create-backup, list-backups and restore actions: with the s3
\* relation present (and, for create and restore, on the leader with a
\* backup-id) they read _get_pbm_status into the unit status and then
\* fail, defer or reach their TODO.  list-backups has no leader check, so
\* on every unit the effect is this one.
BackupAction(u) ==
    /\ step[u] = "idle"
    /\ bstatus' = [bstatus EXCEPT ![u] = PbmStatus(u)]
    /\ UNCHANGED <<cred, credChanges, pending, dbInit, svc, pbmCfg, pbmOp,
                   handlerVars, errors>>

-----------------------------------------------------------------------------

Init ==
    /\ cred \in Cred
    /\ credChanges = 0
    /\ pending = [u \in Unit |-> TRUE]
    /\ dbInit = FALSE
    /\ svc = [u \in Unit |-> FALSE]
    /\ pbmCfg = [k \in Key |-> None]
    /\ pbmOp = "none"
    /\ step = [u \in Unit |-> "idle"]
    /\ snap = [u \in Unit |-> cred]
    /\ left = [u \in Unit |-> {}]
    /\ tries = [u \in Unit |-> 0]
    /\ inner = [u \in Unit |-> 0]
    /\ outer = [u \in Unit |-> 0]
    /\ bstatus = [u \in Unit |-> "none"]
    /\ errors = 0

Next ==
    \/ CredentialsChanged \/ DbInitialised \/ ResyncDone
    \/ \E u \in Unit :
          \/ ConnectPbmAgent(u) \/ OnS3CredentialChanged(u)
          \/ SetConfigOption(u) \/ StartBackupService(u) \/ PreCheck(u)
          \/ ForceResync(u) \/ WaitPbmStatus(u) \/ BackupAction(u)

Spec == Init /\ [][Next]_vars

\* Juju delivers every queued event of a unit and each step of a running
\* handler follows the previous one (a handler is one process that runs
\* to its end); _connect_pbm_agent runs at the top of every relation hook;
\* the pbm daemon ends a resync; the leader's start hook initialises the
\* db (ReplicaSet's EventuallyInitialised shows when it does not).
\* Credentials changes and backup actions are the user's choice.
Fairness ==
    /\ WF_vars(DbInitialised)
    /\ WF_vars(ResyncDone)
    /\ \A u \in Unit :
          /\ WF_vars(ConnectPbmAgent(u))
          /\ WF_vars(OnS3CredentialChanged(u))
          /\ WF_vars(SetConfigOption(u))
          /\ WF_vars(StartBackupService(u))
          /\ WF_vars(PreCheck(u))
          /\ WF_vars(ForceResync(u))
          /\ WF_vars(WaitPbmStatus(u))

FairSpec == Spec /\ Fairness

-----------------------------------------------------------------------------
(* Properties                                                              *)

TypeOK ==
    /\ cred \in Cred
    /\ credChanges \in 0..MaxCredChanges
    /\ pending \in [Unit -> BOOLEAN]
    /\ dbInit \in BOOLEAN
    /\ svc \in [Unit -> BOOLEAN]
    /\ pbmCfg \in [Key -> Cred \cup {None}]
    /\ pbmOp \in {"none", "resync"}
    /\ step \in [Unit -> Step]
    /\ snap \in [Unit -> Cred]
    /\ left \in [Unit -> SUBSET Key]
    /\ tries \in [Unit -> 0..PreAttempts - 1]
    /\ inner \in [Unit -> 0..WaitInner - 1]
    /\ outer \in [Unit -> 0..WaitOuter - 1]
    /\ bstatus \in [Unit -> Status]
    /\ errors \in 0..MaxErrors

\* pbm holds the current credentials in every option.
Configured == \A k \in Key : pbmCfg[k] = cred

\* Once the credentials stop changing, pbm ends up configured with them for
\* good, whatever the order in which the units' credentials-changed
\* handlers (which all write the shared pbm configuration, each from the
\* credentials it read) interleave.  The spec (4.3) says a failed
\* "pbm config --set" leaves the keys set so far and that the system
\* relies on the subsequent resync/retry to converge.
EventuallyConfigured == <>[]Configured

\* Whenever every unit has finished its credentials-changed handler and has
\* no such event queued, and no "pbm config --set" has failed, pbm holds
\* the current credentials in every option: a handler that read older
\* credentials and wrote them after a newer handler (the shared pbm
\* configuration of _set_config_options) always leaves its event deferred,
\* so its unit runs the handler again with the new credentials.
QuiescentConfigured ==
    (errors = 0 /\ \A u \in Unit : step[u] = "idle" /\ ~pending[u])
        => Configured

====
