------------------------------- MODULE Accounts -------------------------------
(***************************************************************************)
(* Accounts: the first initialisation, users, and the protection of the    *)
(* last administrator.  Requests read, then write and commit; two may      *)
(* overlap.  Passwords and tokens are left out.                            *)
(***************************************************************************)
EXTENDS Integers, FiniteSets

CONSTANTS
  AcUsers,      \* user names
  AcInits,      \* requests to initialise the system
  AcDeletes,    \* requests to delete a user
  AcMaxOps      \* bound: requests that change users

ASSUME AccountsAssumption == AcMaxOps \in Nat /\ AcUsers # {} /\ IsFiniteSet(AcUsers)

VARIABLES
  acRole,      \* the role of each user; NoRole: there is no such user
  acActive,    \* active users
  acSettings,  \* the row of system_settings exists
  acInit,      \* initialisations: idle, counted, done, refused
  acDelete,    \* deletions: what each has read
  acExposed,   \* history: an administrator was demoted, deactivated by an update, or deleted by one of two overlapping requests
  acOps

accountVars == <<acRole, acActive, acSettings, acInit, acDelete, acExposed, acOps>>

NoRole == "none"
Idle   == [pc |-> "idle", by |-> CHOOSE u \in AcUsers : TRUE, target |-> CHOOSE u \in AcUsers : TRUE, admins |-> 0]

AccountTypeOK ==
  /\ acRole \in [AcUsers -> {"user", "admin", NoRole}] /\ acActive \subseteq {u \in AcUsers : acRole[u] # NoRole}
  /\ acSettings \in BOOLEAN /\ acInit \in [AcInits -> {"idle", "counted", "done", "refused"}]
  /\ acDelete \in [AcDeletes -> [pc : {"idle", "counted"}, by : AcUsers, target : AcUsers, admins : 0..Cardinality(AcUsers)]]
  /\ acExposed \in BOOLEAN
  /\ acOps \in 0..AcMaxOps

AccountInit ==
  /\ acRole = [u \in AcUsers |-> NoRole] /\ acActive = {} /\ acSettings = FALSE
  /\ acInit = [i \in AcInits |-> "idle"] /\ acDelete = [d \in AcDeletes |-> Idle] /\ acExposed = FALSE
  /\ acOps = 0

AcOp == acOps < AcMaxOps /\ acOps' = acOps + 1
Admins == {u \in acActive : acRole[u] = "admin"}
SomeUser == \E u \in AcUsers : acRole[u] # NoRole

-----------------------------------------------------------------------------
(***************************************************************************)
(* Users.                                                                  *)
(***************************************************************************)

\* InitService: no user is counted ...
CountUsers(i) ==
  /\ acInit[i] = "idle"
  /\ acInit' = [acInit EXCEPT ![i] = IF SomeUser THEN "refused" ELSE "counted"]
  /\ UNCHANGED <<acRole, acActive, acSettings, acDelete, acExposed, acOps>>

\* ... then the administrator and the settings row with its fixed id are committed in one
\* transaction, which fails as a whole when either is there.
SeedAgain(i, u) ==   \* mutant: seed data that is there is updated
  /\ acInit[i] = "counted"
  /\ IF acRole[u] # NoRole
       THEN acInit' = [acInit EXCEPT ![i] = "refused"] /\ UNCHANGED <<acRole, acActive, acSettings>>
       ELSE /\ acInit' = [acInit EXCEPT ![i] = "done"] /\ acSettings' = TRUE
            /\ acRole' = [acRole EXCEPT ![u] = "admin"] /\ acActive' = acActive \cup {u}
  /\ UNCHANGED <<acDelete, acExposed, acOps>>
Initialize(i, u) ==
  /\ acInit[i] = "counted"
  /\ IF acRole[u] # NoRole \/ acSettings
       THEN acInit' = [acInit EXCEPT ![i] = "refused"] /\ UNCHANGED <<acRole, acActive, acSettings>>
       ELSE /\ acInit' = [acInit EXCEPT ![i] = "done"] /\ acSettings' = TRUE
            /\ acRole' = [acRole EXCEPT ![u] = "admin"] /\ acActive' = acActive \cup {u}
  /\ UNCHANGED <<acDelete, acExposed, acOps>>

\* register: anyone may add the first user, who is no administrator; afterwards nobody
\* can initialise the system.
Register(u) ==
  /\ AcOp /\ acRole[u] = NoRole /\ (SomeUser => Admins # {})
  /\ acRole' = [acRole EXCEPT ![u] = "user"] /\ acActive' = acActive \cup {u}
  /\ UNCHANGED <<acSettings, acInit, acDelete, acExposed>>

CreateUser(u, role) ==
  /\ AcOp /\ Admins # {} /\ acRole[u] = NoRole
  /\ acRole' = [acRole EXCEPT ![u] = role] /\ acActive' = acActive \cup {u}
  /\ UNCHANGED <<acSettings, acInit, acDelete, acExposed>>

\* update_user counts no administrators.
UpdateUser(u, role, active) ==
  /\ AcOp /\ Admins # {} /\ acRole[u] # NoRole
  /\ acRole' = [acRole EXCEPT ![u] = role]
  /\ acActive' = IF active THEN acActive \cup {u} ELSE acActive \ {u}
  /\ acExposed' = (acExposed \/ (u \in Admins /\ ~(active /\ role = "admin")))
  /\ UNCHANGED <<acSettings, acInit, acDelete>>

\* delete_user: the administrators are counted, the user is read ...
CountAdmins(d, by, u) ==
  /\ AcOp /\ acDelete[d].pc = "idle" /\ by \in Admins /\ by # u /\ acRole[u] # NoRole
  /\ acDelete' = [acDelete EXCEPT ![d] = [pc |-> "counted", by |-> by, target |-> u, admins |-> Cardinality(Admins)]]
  /\ acExposed' = (acExposed \/ \E e \in AcDeletes \ {d} : acDelete[e].pc = "counted")
  /\ UNCHANGED <<acRole, acActive, acSettings, acInit>>

\* ... and the last one is kept.
LastAdmin(admins) == admins <= 1

DeleteUser(d) ==
  /\ acDelete[d].pc = "counted" /\ acDelete' = [acDelete EXCEPT ![d] = Idle]
  /\ acActive' = IF acRole[acDelete[d].target] = "admin" /\ LastAdmin(acDelete[d].admins)
                   THEN acActive ELSE acActive \ {acDelete[d].target}
  /\ UNCHANGED <<acRole, acSettings, acInit, acExposed, acOps>>

AccountNext ==
  \/ \E i \in AcInits : CountUsers(i) \/ \E u \in AcUsers : Initialize(i, u)
  \/ \E u \in AcUsers : \/ Register(u)
                        \/ \E role \in {"user", "admin"} :
                             CreateUser(u, role) \/ \E active \in BOOLEAN : UpdateUser(u, role, active)
  \/ \E d \in AcDeletes : DeleteUser(d) \/ \E by, u \in AcUsers : CountAdmins(d, by, u)
AccountSpec == AccountInit /\ [][AccountNext]_accountVars

-----------------------------------------------------------------------------
\* At most one request initialises the system, whichever overlap; and whoever was made an
\* administrator, one active administrator is left, unless an update demoted one or two
\* deletions overlapped.
AdminKept ==
  /\ Cardinality({i \in AcInits : acInit[i] = "done"}) <= 1
  /\ ~acExposed /\ (\E u \in AcUsers : acRole[u] = "admin") => Admins # {}
=============================================================================
