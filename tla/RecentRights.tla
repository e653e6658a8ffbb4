----------------------------- MODULE RecentRights -----------------------------
(***************************************************************************)
(* What the guards promise, whatever they cache: a request passes its role *)
(* check only with a role its user had not longer than Age ago, and is     *)
(* then admitted only with permissions that same user had not longer than  *)
(* Age ago.                                                                *)
(***************************************************************************)
EXTENDS Integers

CONSTANTS Requests, Users, Rights,
          RoleOk,         \* the rights whose role is enough
          PermissionsOk,  \* the rights whose permissions are
          Age,
          Nobody

VARIABLES clock,
          rights,  \* what each user may do now
          past,    \* <<u, t, x>>: user u had rights x at time t
          stage    \* how far each request has come: [at, user]

vars == <<clock, rights, past, stage>>

Recorded(t, x) == past \cup {<<u, t, x[u]>> : u \in Users}

Init ==
  /\ clock = 0
  /\ rights \in [Users -> Rights]
  /\ past = {<<u, 0, rights[u]>> : u \in Users}
  /\ stage = [r \in Requests |-> [at |-> "new", user |-> Nobody]]

Change ==
  /\ rights' \in [Users -> Rights]
  /\ past' = Recorded(clock, rights')
  /\ UNCHANGED <<clock, stage>>

Tick ==
  /\ clock' = clock + 1
  /\ past' = Recorded(clock', rights)
  /\ UNCHANGED <<rights, stage>>

Had(u, sufficient) ==
  \E t \in clock - Age .. clock, x \in sufficient : <<u, t, x>> \in past

Pass(r, u) ==
  /\ stage[r].at = "new"
  /\ Had(u, RoleOk)
  /\ stage' = [stage EXCEPT ![r] = [at |-> "known", user |-> u]]
  /\ UNCHANGED <<clock, rights, past>>

Admit(r) ==
  /\ stage[r].at = "known"
  /\ Had(stage[r].user, PermissionsOk)
  /\ stage' = [stage EXCEPT ![r].at = "admitted"]
  /\ UNCHANGED <<clock, rights, past>>

Refuse(r) ==
  /\ stage[r].at \in {"new", "known"}
  /\ stage' = [stage EXCEPT ![r] = [at |-> "refused", user |-> Nobody]]
  /\ UNCHANGED <<clock, rights, past>>

Next ==
  \/ Change \/ Tick
  \/ \E r \in Requests : Admit(r) \/ Refuse(r) \/ \E u \in Users : Pass(r, u)

Spec == Init /\ [][Next]_vars
=============================================================================
