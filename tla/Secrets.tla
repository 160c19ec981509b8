------------------------------- MODULE Secrets -------------------------------
(***************************************************************************)
(* The application secret that holds the charm users' passwords, and the   *)
(* set-password action that rotates one of them (src/src/charm.py).        *)
(*                                                                         *)
(* The secret already exists: ReplicaSet's GenerateSecrets creates it and  *)
(* the start hook creates the users with its passwords.  What is modelled  *)
(* is the life of a password after that:                                   *)
(*   - the leader's set-password writes MongoDB first, then the secret;    *)
(*   - the secret is written from the hook's cache (self.secrets), loaded  *)
(*     on the hook's first get_secret and kept for the rest of the hook;   *)
(*   - set_content may fail: an OSError is logged and swallowed, any other *)
(*     error fails the action; either way MongoDB already has the new      *)
(*     password, and Juju does not retry an action;                        *)
(*   - the application owns the secret, so every unit reads its latest     *)
(*     revision and Juju sends secret-changed to none of them: the         *)
(*     handler _on_secret_changed never runs for it, and the other units   *)
(*     reconnect their pbm-agent and mongodb_exporter only in the relation *)
(*     hooks, whose top reconnects both services.                          *)
(* A password is a model value; a service's password is the one in the     *)
(* URI of its pebble layer.                                                *)
(***************************************************************************)
EXTENDS Naturals

CONSTANTS
    Unit,          \* the units of the application
    Operator,      \* the charm users of CHARM_USERS
    Backup,
    Monitor,
    Pwd,           \* passwords (generate_password or the action's parameter)
    None,          \* no value
    MaxSets,       \* bound on set-password actions that reach MongoDB
    MaxSetErrors   \* bound on failures of secret.set_content

User == {Operator, Backup, Monitor}

\* The users with a service on every unit: pbm-agent runs as the backup
\* user, mongodb_exporter as the monitor user.
Service == {Backup, Monitor}

\* What a set-password hook carries from its MongoDB write to its secret
\* write: the user, the new password and the hook's cache of the secret.
Act == [user : User, pwd : Pwd, cache : [User -> Pwd]]

ASSUME SecretsAssumption ==
    /\ Pwd # {} /\ None \notin Pwd /\ None \notin Act
    /\ Operator # Backup /\ Operator # Monitor /\ Backup # Monitor
    /\ MaxSets \in Nat /\ MaxSetErrors \in Nat

VARIABLES
    leader,     \* the unit for which is_leader() is true
    content,    \* the latest revision of the application secret
    dbPwd,      \* the password MongoDB has for each user
    svcPwd,     \* svcPwd[u][s]: the password of s in u's pebble plan
    act,        \* act[u]: u's set-password between its two writes, or None
    sets,       \* set-password actions that reached MongoDB so far
    setErrors   \* failures of set_content so far

vars == <<leader, content, dbPwd, svcPwd, act, sets, setErrors>>

-----------------------------------------------------------------------------
(* Helpers                                                                 *)

\* _juju_secrets_get: a hook's first access downloads the secret's content
\* (get_content: the latest revision, for a unit of the owning
\* application) into its cache; later accesses in the same hook use it.
SecretsGet == content

\* get_secret / _juju_secret_get_key on a hook's cache.
GetSecret(cache, usr) == cache[usr]

\* _on_get_password: the action returns the user's password from the secret.
GetPassword(usr) == GetSecret(SecretsGet, usr)

\* _connect_mongodb_exporter and _connect_pbm_agent for the services S: the
\* layer is rebuilt from the hook's cache of the secret and replanned when
\* it differs.  Their guards (container reachable, db_initialised, password
\* present) hold once the users exist.
ConnectServices(u, cache, S) ==
    svcPwd' = [svcPwd EXCEPT ![u] =
                  [s \in Service |-> IF s \in S THEN GetSecret(cache, s)
                                                ELSE svcPwd[u][s]]]

-----------------------------------------------------------------------------
(* Actions                                                                 *)

\* Mutant: the is_leader() check dropped.
SetPasswordDbAnyUnit(u, usr, p) ==
    /\ act[u] = None
    /\ sets < MaxSets
    /\ p # GetSecret(SecretsGet, usr)
    /\ dbPwd' = [dbPwd EXCEPT ![usr] = p]
    /\ act' = [act EXCEPT ![u] = [user |-> usr, pwd |-> p, cache |-> SecretsGet]]
    /\ sets' = sets + 1
    /\ UNCHANGED <<leader, content, svcPwd, setErrors>>

\* _on_set_password up to mongo.set_user_password.  A non-leader, a user
\* outside CHARM_USERS, a password equal to the stored one and a failing
\* driver call all end the action with no change, and are left out.
SetPasswordDb(u, usr, p) ==
    /\ act[u] = None
    /\ u = leader
    /\ sets < MaxSets
    /\ p # GetSecret(SecretsGet, usr)
    /\ dbPwd' = [dbPwd EXCEPT ![usr] = p]
    /\ act' = [act EXCEPT ![u] = [user |-> usr, pwd |-> p, cache |-> SecretsGet]]
    /\ sets' = sets + 1
    /\ UNCHANGED <<leader, content, svcPwd, setErrors>>

\* Mutant: set_content called before the new value is put in the cache.
JujuSecretSetStale(u, a, ok) ==
    \/ ok /\ content' = a.cache
    \/ ~ok /\ UNCHANGED content

\* _juju_secret_set on an existing secret: the value goes into the hook's
\* cache and the whole cache is written as the new content.  The "already
\* defined" branch is not reachable from set-password: the action compared
\* the password with the same cache.  "ok" says whether set_content
\* raised nothing.
JujuSecretSet(u, a, ok) ==
    LET cache == [a.cache EXCEPT ![a.user] = a.pwd]
    IN  \/ ok /\ content' = cache
        \/ ~ok /\ UNCHANGED content

\* The rest of _on_set_password: set_secret, then the service of the user
\* is reconnected from the cache.  set_content may fail: an OSError is
\* swallowed and the action goes on; another error fails the action.
SetPasswordSecret(u) ==
    /\ act[u] # None
    /\ LET a == act[u]
           cache == [a.cache EXCEPT ![a.user] = a.pwd]
       IN  \/ /\ JujuSecretSet(u, a, TRUE)
              /\ ConnectServices(u, cache, {a.user} \cap Service)
              /\ UNCHANGED setErrors
           \/ /\ setErrors < MaxSetErrors
              /\ setErrors' = setErrors + 1
              /\ JujuSecretSet(u, a, FALSE)
              /\ \/ ConnectServices(u, cache, {a.user} \cap Service)
                 \/ UNCHANGED svcPwd
    /\ act' = [act EXCEPT ![u] = None]
    /\ UNCHANGED <<leader, dbPwd, sets>>

\* The start of _relation_changes_handler, run by every unit on every
\* relation event: both services are reconnected from a fresh cache.
Reconnect(u) ==
    /\ act[u] = None
    /\ ConnectServices(u, SecretsGet, Service)
    /\ UNCHANGED <<leader, content, dbPwd, act, sets, setErrors>>

\* Leadership moves between the leader's hooks.
Handover ==
    /\ act[leader] = None
    /\ \E v \in Unit \ {leader} : leader' = v
    /\ UNCHANGED <<content, dbPwd, svcPwd, act, sets, setErrors>>

-----------------------------------------------------------------------------

\* The users exist and every service runs with the stored passwords.
Init ==
    /\ leader \in Unit
    /\ content \in [User -> Pwd]
    /\ dbPwd = content
    /\ svcPwd = [u \in Unit |-> [s \in Service |-> content[s]]]
    /\ act = [u \in Unit |-> None]
    /\ sets = 0
    /\ setErrors = 0

Next ==
    \/ \E u \in Unit :
          \/ \E usr \in User, p \in Pwd : SetPasswordDb(u, usr, p)
          \/ SetPasswordSecret(u)
          \/ Reconnect(u)
    \/ Handover

\* A running action finishes.  Relation hooks come from changes of the
\* deployment and get no fairness.
Fairness ==
    \A u \in Unit : WF_vars(SetPasswordSecret(u))

Spec == Init /\ [][Next]_vars
FairSpec == Spec /\ Fairness

-----------------------------------------------------------------------------
(* Properties                                                              *)

TypeOK ==
    /\ leader \in Unit
    /\ content \in [User -> Pwd]
    /\ dbPwd \in [User -> Pwd]
    /\ svcPwd \in [Unit -> [Service -> Pwd]]
    /\ act \in [Unit -> Act \cup {None}]
    /\ sets \in 0..MaxSets
    /\ setErrors \in 0..MaxSetErrors

\* get-password returns the password MongoDB accepts for the user, except
\* while a set-password for that user is between its MongoDB write and its
\* secret write (_on_set_password writes MongoDB first).
SecretMatchesDb ==
    \A usr \in User :
        \/ GetPassword(usr) = dbPwd[usr]
        \/ \E u \in Unit : act[u] # None /\ act[u].user = usr
                           /\ act[u].pwd = dbPwd[usr]

\* set_content writes back the hook's whole cache, so a stale cache would
\* undo another write.  A user's entry in the secret changes only through
\* a set-password for that user; it relies on the leader check of
\* _on_set_password and on leadership not moving inside a hook.
WriteBackKeepsOthers ==
    [][\A usr \in User :
          content'[usr] # content[usr] =>
              \E u \in Unit : act[u] # None /\ act[u].user = usr]_vars

\* Every unit's pbm-agent and mongodb_exporter end up running with the
\* passwords MongoDB accepts.  The docstring of _on_secret_changed says the
\* leader changes the password and the secret, and secret-changed restarts
\* both tools on the non-leader units.
ServicesEventuallyCurrent ==
    <>[](\A u \in Unit : \A s \in Service : svcPwd[u][s] = dbPwd[s])

-----------------------------------------------------------------------------
(* Refinement                                                              *)

\* The passwords the store holds once the leader's set-password in flight,
\* if any, has written its cache back: the only write pending is the
\* leader's, and its cache is the current content.
StoreView ==
    IF act[leader] # None
    THEN [content EXCEPT ![act[leader].user] = act[leader].pwd]
    ELSE content

AtomicStore == INSTANCE PasswordStore WITH Users <- User, db <- dbPwd,
                                           secret <- StoreView

\* Without a failing set_content, _on_set_password's two writes (MongoDB,
\* then the secret from the hook's cache) implement an atomic set-password:
\* every step is one atomic password change or leaves MongoDB and the
\* store unchanged.
AtomicPasswords == AtomicStore!Spec

=============================================================================
