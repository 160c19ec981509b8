---------------------------- MODULE PasswordStore ----------------------------
(***************************************************************************)
(* What the get-password and set-password actions promise together: one    *)
(* password per charm user, which is both the password MongoDB accepts and *)
(* the one get-password returns; set-password replaces one user's password *)
(* in both at once.  Secrets is the charm's two-write implementation.      *)
(***************************************************************************)
CONSTANTS Users, Pwd

VARIABLES
    db,       \* the password MongoDB accepts for each user
    secret    \* the password get-password returns for each user

Init ==
    /\ db \in [Users -> Pwd]
    /\ secret = db

\* One set-password: a new password for one user, in MongoDB and in the
\* store together.
SetPassword(usr, p) ==
    /\ p # secret[usr]
    /\ db' = [db EXCEPT ![usr] = p]
    /\ secret' = db'

Next == \E usr \in Users, p \in Pwd : SetPassword(usr, p)

Spec == Init /\ [][Next]_<<db, secret>>

=============================================================================
