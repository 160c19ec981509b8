---------------------------- MODULE BackupsProofs ----------------------------
(***************************************************************************)
(* Type correctness of the backup model (Backups), for every set of units, *)
(* keys and credential versions and every bound.  TypeOK bounds the three  *)
(* retry counters of _resync_config_options and _wait_pbm_status below     *)
(* their stop_after_attempt limits: each loop step either increments a     *)
(* counter still below the limit minus one, or resets it, or ends the      *)
(* handler.                                                                *)
(***************************************************************************)
EXTENDS Backups, TLAPS

LEMMA InitType == Init => TypeOK
<1> SUFFICES ASSUME Init PROVE TypeOK
  OBVIOUS
<1>1. /\ 0 \in 0..PreAttempts - 1 /\ 0 \in 0..WaitInner - 1
      /\ 0 \in 0..WaitOuter - 1 /\ 0 \in 0..MaxCredChanges
      /\ 0 \in 0..MaxErrors
  BY BackupAssumption
<1>2. QED
  BY <1>1 DEF Init, TypeOK, Step, Status

\* _get_pbm_status always returns one of the statuses the model knows.
LEMMA PbmStatusType ==
    ASSUME NEW u \in Unit
    PROVE  PbmStatus(u) \in Status
BY DEF PbmStatus, Status

\* Returning from the handler resets its loop state.
LEMMA EndHandlerType ==
    ASSUME TypeOK, NEW u \in Unit, NEW defer \in BOOLEAN, EndHandler(u, defer)
    PROVE  /\ step' \in [Unit -> Step]
           /\ pending' \in [Unit -> BOOLEAN]
           /\ left' \in [Unit -> SUBSET Key]
           /\ tries' \in [Unit -> 0..PreAttempts - 1]
           /\ inner' \in [Unit -> 0..WaitInner - 1]
           /\ outer' \in [Unit -> 0..WaitOuter - 1]
           /\ snap' = snap
BY BackupAssumption DEF EndHandler, TypeOK, Step

LEMMA TypeStep == TypeOK /\ [Next]_vars => TypeOK'
<1> SUFFICES ASSUME TypeOK, [Next]_vars PROVE TypeOK'
  OBVIOUS
<1>1. CASE CredentialsChanged
  BY <1>1, BackupAssumption DEF CredentialsChanged, TypeOK, handlerVars
<1>2. CASE DbInitialised
  BY <1>2 DEF DbInitialised, TypeOK, handlerVars
<1>3. CASE ResyncDone
  BY <1>3 DEF ResyncDone, TypeOK, handlerVars
<1>4. ASSUME NEW u \in Unit, ConnectPbmAgent(u) PROVE TypeOK'
  BY <1>4 DEF ConnectPbmAgent, TypeOK, handlerVars
<1>5. ASSUME NEW u \in Unit, OnS3CredentialChanged(u) PROVE TypeOK'
  BY <1>5 DEF OnS3CredentialChanged, TypeOK, Step
<1>6. ASSUME NEW u \in Unit, SetConfigOption(u) PROVE TypeOK'
  <2>1. PICK k \in left[u] :
           \/ /\ pbmCfg' = [pbmCfg EXCEPT ![k] = snap[u]]
              /\ left' = [left EXCEPT ![u] = @ \ {k}]
              /\ UNCHANGED <<pending, step, tries, inner, outer, bstatus,
                             errors>>
           \/ /\ errors < MaxErrors
              /\ errors' = errors + 1
              /\ bstatus' = [bstatus EXCEPT ![u] = "blocked"]
              /\ EndHandler(u, pending[u])
              /\ UNCHANGED pbmCfg
    BY <1>6 DEF SetConfigOption
  <2>2. k \in Key
    BY <2>1 DEF TypeOK
  <2>3. CASE pbmCfg' = [pbmCfg EXCEPT ![k] = snap[u]]
             /\ left' = [left EXCEPT ![u] = @ \ {k}]
             /\ UNCHANGED <<pending, step, tries, inner, outer, bstatus, errors>>
    BY <1>6, <2>2, <2>3 DEF SetConfigOption, TypeOK
  <2>4. CASE /\ errors < MaxErrors
             /\ errors' = errors + 1
             /\ bstatus' = [bstatus EXCEPT ![u] = "blocked"]
             /\ EndHandler(u, pending[u])
             /\ UNCHANGED pbmCfg
    <3>1. pending[u] \in BOOLEAN
      BY DEF TypeOK
    <3>2. QED
      BY <1>6, <2>4, <3>1, EndHandlerType, BackupAssumption
         DEF SetConfigOption, TypeOK, Status
  <2>5. QED
    BY <2>1, <2>3, <2>4
<1>7. ASSUME NEW u \in Unit, StartBackupService(u) PROVE TypeOK'
  <2>1. CASE svc[u]
    BY <1>7, <2>1 DEF StartBackupService, TypeOK, Step
  <2>2. CASE ~svc[u]
    BY <1>7, <2>2, EndHandlerType DEF StartBackupService, TypeOK
  <2>3. QED
    BY <2>1, <2>2
<1>8. ASSUME NEW u \in Unit, PreCheck(u) PROVE TypeOK'
  <2>0. UNCHANGED <<cred, credChanges, dbInit, svc, pbmCfg, snap, errors>>
    BY <1>8 DEF PreCheck
  <2>1. CASE /\ tries[u] + 1 < PreAttempts
             /\ tries' = [tries EXCEPT ![u] = @ + 1]
             /\ UNCHANGED <<pending, step, left, inner, outer, bstatus>>
             /\ pbmOp' = "none"
    BY <2>0, <2>1, BackupAssumption DEF TypeOK
  <2>2. CASE /\ bstatus' = [bstatus EXCEPT ![u] = "waiting"]
             /\ EndHandler(u, TRUE)
             /\ pbmOp' = "none"
    BY <2>0, <2>2, EndHandlerType DEF TypeOK, Status
  <2>3. CASE /\ step' = [step EXCEPT ![u] = "resync"]
             /\ UNCHANGED <<pending, left, tries, inner, outer, bstatus, pbmOp>>
    BY <2>0, <2>3 DEF TypeOK, Step
  <2>4. QED
    BY <1>8, <2>1, <2>2, <2>3 DEF PreCheck
<1>9. ASSUME NEW u \in Unit, ForceResync(u) PROVE TypeOK'
  BY <1>9 DEF ForceResync, TypeOK, Step
<1>10. ASSUME NEW u \in Unit, WaitPbmStatus(u) PROVE TypeOK'
  <2>0. UNCHANGED <<cred, credChanges, dbInit, svc, pbmCfg, pbmOp, snap, errors>>
    BY <1>10 DEF WaitPbmStatus
  <2>1. CASE /\ bstatus' = [bstatus EXCEPT ![u] = "waiting"]
             /\ inner[u] + 1 < WaitInner
             /\ inner' = [inner EXCEPT ![u] = @ + 1]
             /\ UNCHANGED <<pending, step, left, tries, outer>>
    BY <2>0, <2>1, BackupAssumption DEF TypeOK, Status
  <2>2. CASE /\ bstatus' = [bstatus EXCEPT ![u] = "waiting"]
             /\ outer[u] + 1 < WaitOuter
             /\ inner' = [inner EXCEPT ![u] = 0]
             /\ outer' = [outer EXCEPT ![u] = @ + 1]
             /\ UNCHANGED <<pending, step, left, tries>>
    BY <2>0, <2>2, BackupAssumption DEF TypeOK, Status
  <2>3. CASE /\ bstatus' = [bstatus EXCEPT ![u] = "waiting"]
             /\ EndHandler(u, TRUE)
    BY <2>0, <2>3, EndHandlerType DEF TypeOK, Status
  <2>4. CASE /\ bstatus' = [bstatus EXCEPT ![u] = PbmStatus(u)]
             /\ EndHandler(u, pending[u])
    <3>1. pending[u] \in BOOLEAN /\ PbmStatus(u) \in Status
      BY PbmStatusType DEF TypeOK
    <3>2. QED
      BY <2>0, <2>4, <3>1, EndHandlerType DEF TypeOK
  <2>5. QED
    BY <1>10, <2>1, <2>2, <2>3, <2>4 DEF WaitPbmStatus
<1>11. ASSUME NEW u \in Unit, BackupAction(u) PROVE TypeOK'
  BY <1>11, PbmStatusType DEF BackupAction, TypeOK, handlerVars
<1>12. CASE UNCHANGED vars
  BY <1>12 DEF vars, handlerVars, TypeOK
<1>13. QED
  BY <1>1, <1>2, <1>3, <1>4, <1>5, <1>6, <1>7, <1>8, <1>9, <1>10, <1>11,
     <1>12 DEF Next

\* Every reachable state of the backup model is well typed; in particular
\* the pre-check counter stays below PreAttempts and the two counters of
\* _wait_pbm_status below WaitInner and WaitOuter, whatever the resyncs
\* and the other units do.
THEOREM TypeCorrect == Spec => []TypeOK
BY InitType, TypeStep, PTL DEF Spec

-----------------------------------------------------------------------------
(* Stale handlers always run again.  A credentials-changed handler that    *)
(* read older credentials than the relation's current ones has its event  *)
(* queued again (CredentialsChanged queues it on every unit, the handler   *)
(* only ever keeps or sets that flag).  And every pbm option that does not *)
(* hold the current credentials is owed by some unit: one with the event  *)
(* queued, or one whose handler read the current credentials and has the   *)
(* option still to set.  The second fact alone is not inductive: a stale   *)
(* handler's write breaks it unless the first tells that its unit is owed. *)

StaleDeferred ==
    \A u \in Unit : step[u] # "idle" /\ snap[u] # cred => pending[u]

Owes(u, k) == pending[u] \/ (step[u] = "set" /\ snap[u] = cred /\ k \in left[u])

Owed == errors = 0 => \A k \in Key : pbmCfg[k] # cred => \E u \in Unit : Owes(u, k)

IInv == TypeOK /\ StaleDeferred /\ Owed

LEMMA InitIInv == Init => IInv
<1> SUFFICES ASSUME Init PROVE IInv
  OBVIOUS
<1>1. PICK w \in Unit : TRUE
  BY BackupAssumption
<1>2. QED
  BY <1>1, InitType DEF Init, IInv, StaleDeferred, Owed, Owes

\* A handler that returns with the event deferred whenever it was queued,
\* or whenever it still had options to set, keeps both facts.
LEMMA EndHandlerIInv ==
    ASSUME IInv, NEW u \in Unit, NEW d \in BOOLEAN, EndHandler(u, d),
           pending[u] => d, step[u] = "set" => d,
           UNCHANGED <<cred, pbmCfg, errors>>
    PROVE  StaleDeferred' /\ Owed'
<1>1. StaleDeferred'
  BY DEF IInv, TypeOK, StaleDeferred, EndHandler
<1>2. Owed'
  <2> SUFFICES ASSUME errors' = 0, NEW k \in Key, pbmCfg'[k] # cred'
               PROVE  \E v \in Unit : Owes(v, k)'
    BY DEF Owed
  <2>1. PICK w \in Unit : Owes(w, k)
    BY DEF IInv, Owed
  <2>2. CASE w = u
    BY <2>1, <2>2 DEF IInv, TypeOK, Owes, EndHandler
  <2>3. CASE w # u
    BY <2>1, <2>3 DEF IInv, TypeOK, Owes, EndHandler
  <2>4. QED
    BY <2>2, <2>3
<1>3. QED
  BY <1>1, <1>2

\* One "pbm config --set": the option gets the credentials the handler
\* read; if they are stale, StaleDeferred makes the unit owe it.
LEMMA SetOptionIInv ==
    ASSUME IInv, NEW u \in Unit, NEW k \in Key, step[u] = "set", k \in left[u],
           pbmCfg' = [pbmCfg EXCEPT ![k] = snap[u]],
           left' = [left EXCEPT ![u] = @ \ {k}],
           UNCHANGED <<pending, step, errors, cred, snap>>
    PROVE  StaleDeferred' /\ Owed'
<1>1. StaleDeferred'
  BY DEF IInv, StaleDeferred
<1>2. Owed'
  <2> SUFFICES ASSUME errors' = 0, NEW j \in Key, pbmCfg'[j] # cred'
               PROVE  \E v \in Unit : Owes(v, j)'
    BY DEF Owed
  <2>1. CASE j = k
    <3>1. snap[u] # cred
      BY <2>1 DEF IInv, TypeOK
    <3>2. pending[u]
      BY <3>1 DEF IInv, StaleDeferred
    <3>3. QED
      BY <3>2 DEF Owes
  <2>2. CASE j # k
    <3>1. PICK w \in Unit : Owes(w, j)
      BY <2>2 DEF IInv, TypeOK, Owed
    <3>2. Owes(w, j)'
      BY <2>2, <3>1 DEF IInv, TypeOK, Owes
    <3>3. QED
      BY <3>2
  <2>3. QED
    BY <2>1, <2>2
<1>3. QED
  BY <1>1, <1>2

\* A step that moves a handler between its phases after the option loop
\* (or changes nothing the two facts read) keeps them.
LEMMA PhaseIInv ==
    ASSUME IInv, NEW u \in Unit, step[u] \notin {"idle", "set"}, step'[u] # "idle",
           step' \in [Unit -> Step],
           \A v \in Unit \ {u} : step'[v] = step[v],
           UNCHANGED <<pending, cred, pbmCfg, errors, snap, left>>
    PROVE  StaleDeferred' /\ Owed'
<1>1. StaleDeferred'
  BY DEF IInv, TypeOK, StaleDeferred
<1>2. Owed'
  <2> SUFFICES ASSUME errors' = 0, NEW j \in Key, pbmCfg'[j] # cred'
               PROVE  \E v \in Unit : Owes(v, j)'
    BY DEF Owed
  <2>1. PICK w \in Unit : Owes(w, j)
    BY DEF IInv, Owed
  <2>2. Owes(w, j)'
    BY <2>1 DEF Owes
  <2>3. QED
    BY <2>2
<1>3. QED
  BY <1>1, <1>2

LEMMA IInvStep == IInv /\ [Next]_vars => IInv'
<1> SUFFICES ASSUME IInv, [Next]_vars PROVE IInv'
  OBVIOUS
<1>0. TypeOK'
  BY TypeStep DEF IInv
<1> USE DEF IInv
\* New credentials queue the event on every unit, which all owe every option.
<1>1. CASE CredentialsChanged
  <2>1. pending' = [v \in Unit |-> TRUE]
    BY <1>1 DEF CredentialsChanged
  <2>2. PICK w \in Unit : TRUE
    BY BackupAssumption
  <2>3. QED
    BY <1>0, <2>1, <2>2 DEF StaleDeferred, Owed, Owes
<1>2. CASE DbInitialised \/ ResyncDone
  BY <1>0, <1>2 DEF DbInitialised, ResyncDone, handlerVars, StaleDeferred,
                    Owed, Owes
<1>3. ASSUME NEW u \in Unit, ConnectPbmAgent(u) \/ BackupAction(u)
      PROVE  IInv'
  BY <1>0, <1>3 DEF ConnectPbmAgent, BackupAction, handlerVars, StaleDeferred,
                    Owed, Owes
\* A handler starting with the current credentials owes every option.
<1>4. ASSUME NEW u \in Unit, OnS3CredentialChanged(u) PROVE IInv'
  <2>1. StaleDeferred'
    BY <1>4 DEF OnS3CredentialChanged, TypeOK, StaleDeferred
  <2>2. Owed'
    <3> SUFFICES ASSUME errors' = 0, NEW k \in Key, pbmCfg'[k] # cred'
                 PROVE  \E v \in Unit : Owes(v, k)'
      BY DEF Owed
    <3>1. PICK w \in Unit : Owes(w, k)
      BY <1>4 DEF OnS3CredentialChanged, Owed
    <3>2. CASE w = u
      BY <1>4, <3>2 DEF OnS3CredentialChanged, TypeOK, Owes
    <3>3. CASE w # u
      BY <1>4, <3>1, <3>3 DEF OnS3CredentialChanged, TypeOK, Owes
    <3>4. QED
      BY <3>2, <3>3
  <2>3. QED
    BY <1>0, <2>1, <2>2
<1>5. ASSUME NEW u \in Unit, SetConfigOption(u) PROVE IInv'
  <2>1. PICK k \in left[u] :
           \/ /\ pbmCfg' = [pbmCfg EXCEPT ![k] = snap[u]]
              /\ left' = [left EXCEPT ![u] = @ \ {k}]
              /\ UNCHANGED <<pending, step, tries, inner, outer, bstatus,
                             errors>>
           \/ /\ errors < MaxErrors
              /\ errors' = errors + 1
              /\ bstatus' = [bstatus EXCEPT ![u] = "blocked"]
              /\ EndHandler(u, pending[u])
              /\ UNCHANGED pbmCfg
    BY <1>5 DEF SetConfigOption
  <2>0. k \in Key /\ step[u] = "set" /\ UNCHANGED <<cred, snap>>
    BY <1>5, <2>1 DEF SetConfigOption, TypeOK
  <2>2. CASE pbmCfg' = [pbmCfg EXCEPT ![k] = snap[u]]
             /\ left' = [left EXCEPT ![u] = @ \ {k}]
             /\ UNCHANGED <<pending, step, tries, inner, outer, bstatus, errors>>
    BY <1>0, <2>0, <2>1, <2>2, SetOptionIInv
  \* A failed --set ends the handler; Owed only speaks of runs without one.
  <2>3. CASE /\ errors < MaxErrors
             /\ errors' = errors + 1
             /\ bstatus' = [bstatus EXCEPT ![u] = "blocked"]
             /\ EndHandler(u, pending[u])
             /\ UNCHANGED pbmCfg
    <3>1. StaleDeferred'
      BY <2>0, <2>3 DEF TypeOK, StaleDeferred, EndHandler
    <3>2. Owed'
      BY <2>3 DEF TypeOK, Owed
    <3>3. QED
      BY <1>0, <3>1, <3>2
  <2>4. QED
    BY <2>1, <2>2, <2>3
<1>6. ASSUME NEW u \in Unit, StartBackupService(u) PROVE IInv'
  <2>0. step[u] = "set" /\ left[u] = {}
        /\ UNCHANGED <<cred, pbmCfg, errors, snap>>
    BY <1>6 DEF StartBackupService
  <2>1. CASE svc[u] /\ step' = [step EXCEPT ![u] = "precheck"]
             /\ UNCHANGED <<pending, left, tries, inner, outer>>
    <3>1. StaleDeferred'
      BY <2>0, <2>1 DEF TypeOK, StaleDeferred
    <3>2. Owed'
      <4> SUFFICES ASSUME errors' = 0, NEW j \in Key, pbmCfg'[j] # cred'
                   PROVE  \E v \in Unit : Owes(v, j)'
        BY DEF Owed
      <4>1. PICK w \in Unit : Owes(w, j)
        BY <2>0 DEF Owed
      <4>2. Owes(w, j)'
        BY <2>0, <2>1, <4>1 DEF TypeOK, Owes
      <4>3. QED
        BY <4>2
    <3>3. QED
      BY <1>0, <3>1, <3>2
  <2>2. CASE ~svc[u] /\ EndHandler(u, TRUE)
    BY <1>0, <2>0, <2>2, EndHandlerIInv
  <2>3. QED
    BY <1>6, <2>1, <2>2 DEF StartBackupService
<1>7. ASSUME NEW u \in Unit, PreCheck(u) PROVE IInv'
  <2>0. step[u] = "precheck"
        /\ UNCHANGED <<cred, credChanges, dbInit, svc, pbmCfg, snap, errors>>
    BY <1>7 DEF PreCheck
  <2>1. CASE UNCHANGED <<pending, step, left>>
    BY <1>0, <2>0, <2>1 DEF StaleDeferred, Owed, Owes
  <2>2. CASE EndHandler(u, TRUE)
    BY <1>0, <2>0, <2>2, EndHandlerIInv
  <2>3. CASE step' = [step EXCEPT ![u] = "resync"] /\ UNCHANGED <<pending, left>>
    BY <1>0, <2>0, <2>3, PhaseIInv DEF TypeOK, Step
  <2>4. QED
    BY <1>7, <2>1, <2>2, <2>3 DEF PreCheck
<1>8. ASSUME NEW u \in Unit, ForceResync(u) PROVE IInv'
  BY <1>0, <1>8, PhaseIInv DEF ForceResync, TypeOK, Step
<1>9. ASSUME NEW u \in Unit, WaitPbmStatus(u) PROVE IInv'
  <2>0. step[u] = "wait"
        /\ UNCHANGED <<cred, credChanges, dbInit, svc, pbmCfg, snap, errors>>
    BY <1>9 DEF WaitPbmStatus
  <2>1. CASE UNCHANGED <<pending, step, left>>
    BY <1>0, <2>0, <2>1 DEF StaleDeferred, Owed, Owes
  <2>2. CASE EndHandler(u, TRUE)
    BY <1>0, <2>0, <2>2, EndHandlerIInv
  <2>3. CASE EndHandler(u, pending[u])
    <3>1. pending[u] \in BOOLEAN
      BY DEF TypeOK
    <3>2. QED
      BY <1>0, <2>0, <2>3, <3>1, EndHandlerIInv
  <2>4. QED
    BY <1>9, <2>1, <2>2, <2>3 DEF WaitPbmStatus
<1>10. CASE UNCHANGED vars
  BY <1>0, <1>10 DEF vars, handlerVars, StaleDeferred, Owed, Owes
<1>11. QED
  BY <1>1, <1>2, <1>3, <1>4, <1>5, <1>6, <1>7, <1>8, <1>9, <1>10 DEF Next

\* Whenever every unit has finished its credentials-changed handler, none
\* has the event queued and no "pbm config --set" has failed, pbm holds the
\* relation's current credentials in every option: the stale writes that
\* the units' interleaved handlers make to the shared pbm configuration
\* are always overwritten, for every number of units, options and
\* credential versions.
THEOREM QuiescentSafe == Spec => []QuiescentConfigured
<1>1. IInv => QuiescentConfigured
  BY DEF IInv, Owed, Owes, QuiescentConfigured, Configured
<1>2. QED
  BY <1>1, InitIInv, IInvStep, PTL DEF Spec

====
