------------------------------ MODULE Departments ------------------------------
(***************************************************************************)
(* The department tree, its members, and the access to a shared resource   *)
(* that is computed from it.  The requests are an administrator's; one     *)
(* resource is shared.                                                     *)
(***************************************************************************)
EXTENDS Integers, FiniteSets

CONSTANTS
  DpDepts,      \* departments
  DpMembers,    \* users that may be members
  DpLevels,     \* access levels, numbers from 1 (view) to 4 (full)
  DpMaxOps      \* bound: requests

Root   == "root"      \* the parent of a department without one
Absent == "absent"

ASSUME DepartmentsAssumption ==
  /\ DpLevels \subseteq 1..4 /\ DpMaxOps \in Nat
  /\ IsFiniteSet(DpDepts) /\ DpDepts \cap {Root, Absent} = {}

VARIABLES
  dpParent,    \* departments.parent_department_id; Absent: no row
  dpDelete,    \* the deletion of a department that has seen no child
  dpMember,    \* pairs <<user, department>>
  dpShare,     \* access level of the resource in each department; 0: not shared
  dpOps

deptVars == <<dpParent, dpDelete, dpMember, dpShare, dpOps>>

DeptTypeOK ==
  /\ dpParent \in [DpDepts -> DpDepts \cup {Root, Absent}] /\ dpDelete \in DpDepts \cup {Absent}
  /\ dpMember \subseteq DpMembers \X {d \in DpDepts : dpParent[d] # Absent}
  /\ dpShare \in [DpDepts -> DpLevels \cup {0}] /\ dpOps \in 0..DpMaxOps

\* Every tree is one that creations and moves can make.
DeptInit ==
  /\ dpParent \in [DpDepts -> DpDepts \cup {Root, Absent}]
  /\ \A d \in DpDepts : dpParent[d] \in DpDepts => dpParent[dpParent[d]] # Absent
  /\ dpDelete = Absent /\ dpMember = {} /\ dpShare = [d \in DpDepts |-> 0] /\ dpOps = 0

DeptOp == dpOps < DpMaxOps /\ dpOps' = dpOps + 1
Depts == {d \in DpDepts : dpParent[d] # Absent}

CreateDepartment(d, p) ==
  /\ DeptOp /\ dpParent[d] = Absent /\ p \in Depts \cup {Root}
  /\ dpParent' = [dpParent EXCEPT ![d] = p] /\ UNCHANGED <<dpDelete, dpMember, dpShare>>

\* Nothing keeps the new parent from being a descendant, or the department itself.
MoveDepartment(d, p) ==
  /\ DeptOp /\ d \in Depts /\ p \in Depts \cup {Root}
  /\ dpParent' = [dpParent EXCEPT ![d] = p] /\ UNCHANGED <<dpDelete, dpMember, dpShare>>

FindNoChild(d) ==
  /\ dpDelete = Absent /\ d \in Depts /\ \A c \in Depts : dpParent[c] # d
  /\ dpDelete' = d /\ UNCHANGED <<dpParent, dpMember, dpShare, dpOps>>

\* departments.parent_department_id, members and shares are ON DELETE CASCADE.
Below(d) ==
  LET reach[n \in 0..Cardinality(DpDepts)] ==
        IF n = 0 THEN {d} ELSE reach[n - 1] \cup {c \in Depts : dpParent[c] \in reach[n - 1]}
  IN  reach[Cardinality(DpDepts)]
DeleteDepartment ==
  /\ dpDelete # Absent /\ dpDelete' = Absent
  /\ dpParent' = [c \in DpDepts |-> IF c \in Below(dpDelete) THEN Absent ELSE dpParent[c]]
  /\ dpMember' = {m \in dpMember : m[2] \notin Below(dpDelete)}
  /\ dpShare'  = [c \in DpDepts |-> IF c \in Below(dpDelete) THEN 0 ELSE dpShare[c]]
  /\ UNCHANGED <<dpOps>>

SetMember(u, d) ==
  /\ DeptOp /\ d \in Depts
  /\ dpMember' = (IF <<u, d>> \in dpMember THEN dpMember \ {<<u, d>>} ELSE dpMember \cup {<<u, d>>})
  /\ UNCHANGED <<dpParent, dpDelete, dpShare>>

SetShare(d, level) ==
  /\ DeptOp /\ d \in Depts /\ level # dpShare[d] /\ (level = 0 \/ dpShare[d] = 0)
  /\ dpShare' = [dpShare EXCEPT ![d] = level] /\ UNCHANGED <<dpParent, dpDelete, dpMember>>

-----------------------------------------------------------------------------
(***************************************************************************)
(* Access, as the code computes it: the departments of the user, then      *)
(* their children not seen before, until there are none.                   *)
(***************************************************************************)
DescendChildren(S) ==   \* mutant: children of the first departments only
  S \cup {c \in Depts : dpParent[c] \in S}
Descend(S) ==
  LET step[n \in 0..Cardinality(DpDepts)] ==
        IF n = 0 THEN [all |-> S, pending |-> S]
        ELSE LET new == {c \in Depts : dpParent[c] \in step[n - 1].pending} \ step[n - 1].all
             IN  [all |-> step[n - 1].all \cup new, pending |-> new]
  IN  step[Cardinality(DpDepts)].all

\* check_resource_access for a user who neither is an administrator nor made the resource.
Access(u) ==
  LET levels == {dpShare[d] : d \in Descend({m[2] : m \in {x \in dpMember : x[1] = u}})} \ {0}
  IN  IF levels = {} THEN 0 ELSE CHOOSE x \in levels : \A y \in levels : x >= y

DeptNext ==
  \/ \E d \in DpDepts : \/ \E p \in DpDepts \cup {Root} : CreateDepartment(d, p) \/ MoveDepartment(d, p)
                        \/ FindNoChild(d)
                        \/ \E u \in DpMembers : SetMember(u, d)
                        \/ \E level \in DpLevels \cup {0} : SetShare(d, level)
  \/ DeleteDepartment
DeptSpec == DeptInit /\ [][DeptNext]_deptVars

-----------------------------------------------------------------------------
\* A member has the access that any department below theirs was given, and no other, though
\* moves may have made the tree a cycle.
AccessFollowsTree ==
  \A u \in DpMembers :
    LET above(d) == {e \in Depts : d \in Below(e)}
        given == {d \in Depts : dpShare[d] # 0 /\ \E e \in above(d) : <<u, e>> \in dpMember}
    IN  /\ given = {} <=> Access(u) = 0
        /\ \A d \in given : Access(u) >= dpShare[d]
=============================================================================
