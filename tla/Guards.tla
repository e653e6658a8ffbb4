-------------------------------- MODULE Guards --------------------------------
(***************************************************************************)
(* The guards in front of the wallet, fx and transaction routes:           *)
(* AuthorizationGuard and JwtAuthGuard say who asks, RolesGuard and        *)
(* PermissionsGuard whether they may, from users and permissions that are  *)
(* cached in Redis while the tables change.                                *)
(*                                                                         *)
(* A step is what runs between two awaits, or a store executing a command  *)
(* that was sent to it.  Redis executes the commands of the process in     *)
(* the order they are issued, so an entry is written in the step that      *)
(* issues it.  The time of expiry is computed when an entry is issued.     *)
(***************************************************************************)
EXTENDS Integers, FiniteSets

CONSTANTS Requests,
          Users,
          Rights,        \* what the tables may say of a user: [role, permissions]
          Requirement,   \* of the route: [roles, permissions, operation]
          Lifetime,      \* cache.ttl; Keyv takes 0 for no time of expiry
          Delay,         \* a call to PostgreSQL or Redis is answered within it
          MaxTime,       \* bound on the clock
          MaxChanges,    \* bound on changes of rights
          NoRole,        \* user.role is null
          NoEntry        \* null

(* The decorators throw for an empty list.                                 *)
RequireRoles(q) == q.roles # {} /\ q.operation \in {"ANY", "ALL"}
RequirePermissions(q) == q.permissions # {} /\ IsFiniteSet(q.permissions)

ASSUME GuardsAssumption ==
  /\ RequireRoles(Requirement) /\ RequirePermissions(Requirement)
  /\ Lifetime \in Nat \ {0} /\ Delay \in Nat /\ MaxTime \in Nat /\ MaxChanges \in Nat
  /\ Delay <= Lifetime

VARIABLES clock,
          rights,         \* tables user, role, role_permission
          past,           \* what they have said of whom and when
          changes,
          cachedUser,     \* Redis user:id
          cachedPermissions, \* Redis permissions:id
          pc,             \* the await each request is suspended at
          user,           \* the user its token names
          found,          \* what the last call gave it
          since           \* when that call was made

vars == <<clock, rights, past, changes, cachedUser, cachedPermissions, pc, user,
          found, since>>
caches == <<cachedUser, cachedPermissions>>
tables == <<rights, past, changes>>

(* An entry, and a row read from the tables: when it was read is not part  *)
(* of the program.                                                         *)
Reading == [value : Rights, expires : Int, readAt : Int]

ASSUME NoEntryAssumption == NoEntry \notin Reading

PCs == {"absent", "userEntry", "loadUser", "userLoaded", "permissionEntry",
        "loadPermissions", "permissionsLoaded", "decide", "admitted", "refused"}

Awaiting(r) == pc[r] \notin {"absent", "admitted", "refused"}

Recorded(t, x) == past \cup {<<u, t, x[u]>> : u \in Users}

Init ==
  /\ clock = 0 /\ changes = 0
  /\ rights \in [Users -> Rights]
  /\ past = {<<u, 0, rights[u]>> : u \in Users}
  /\ cachedUser = [u \in Users |-> NoEntry]
  /\ cachedPermissions = [u \in Users |-> NoEntry]
  /\ pc = [r \in Requests |-> "absent"]
  /\ user = [r \in Requests |-> NoEntry]
  /\ found = [r \in Requests |-> NoEntry]
  /\ since = [r \in Requests |-> 0]

-----------------------------------------------------------------------------
(* RolesGuard.  user.role?.name of no role equals nothing.                 *)
HasRole(x) ==
  IF Requirement.operation = "ANY"
  THEN \E n \in Requirement.roles : x.role = n
  ELSE \A n \in Requirement.roles : x.role = n

(* PermissionsGuard.validatePermissions.                                   *)
ValidatePermissions(required, held, operation) ==
  LET missing == required \ held
  IN  IF operation = "ANY" THEN Cardinality(missing) < Cardinality(required)
                           ELSE missing = {}

IsValid(x) ==
  ValidatePermissions(Requirement.permissions, x.permissions, Requirement.operation)

(* Redis answers nothing for an entry whose time is over.                  *)
Get(entry) ==
  IF entry # NoEntry /\ entry.expires >= clock THEN entry ELSE NoEntry

Goto(r, p) == pc' = [pc EXCEPT ![r] = p]

Await(r, p, x) ==
  /\ Goto(r, p)
  /\ found' = [found EXCEPT ![r] = x]
  /\ since' = [since EXCEPT ![r] = clock]

Return(r, verdict) ==
  /\ Goto(r, verdict)
  /\ found' = [found EXCEPT ![r] = NoEntry]
  /\ since' = [since EXCEPT ![r] = 0]

Query(r) == [value |-> rights[user[r]], expires |-> 0, readAt |-> clock]

(* Slips: an entry has no time of expiry, or one of twice the length.      *)
Entry_Forever(reading) == [reading EXCEPT !.expires = NoEntry]

Entry_Extended(reading) == [reading EXCEPT !.expires = clock + 2 * Lifetime]

Entry(reading) == [reading EXCEPT !.expires = clock + Lifetime]

(* RolesGuard decides on what JwtAuthGuard found, and PermissionsGuard     *)
(* asks for its entry.                                                     *)
CheckRole(r, x) ==
  IF HasRole(x) THEN Await(r, "permissionEntry", Get(cachedPermissions[user[r]]))
                ELSE Return(r, "refused")

CheckPermissions(r, x) == Return(r, IF IsValid(x) THEN "admitted" ELSE "refused")

-----------------------------------------------------------------------------
(* A request without the API key is refused by AuthorizationGuard,         *)
(* one without a valid token by JwtAuthGuard.                              *)
TurnAway(r) ==
  /\ pc[r] = "absent"
  /\ Return(r, "refused")
  /\ UNCHANGED <<clock, tables, caches, user>>

(* Of any other the user's entry is asked for.  (Nothing ever puts a token *)
(* on the denied list.)                                                    *)
Arrive(r) ==
  /\ pc[r] = "absent"
  /\ \E u \in Users :
       /\ user' = [user EXCEPT ![r] = u]
       /\ Await(r, "userEntry", Get(cachedUser[u]))
  /\ UNCHANGED <<clock, tables, caches>>

(* The guard loads the user again while the entry is fresh, and Keyv drops *)
(* one whose time is over: an entry is used at the very instant it ends.   *)
UseUserEntry(r) ==
  /\ pc[r] = "userEntry"
  /\ IF found[r] = NoEntry \/ found[r].expires # clock
     THEN Await(r, "loadUser", NoEntry)
     ELSE CheckRole(r, found[r].value)
  /\ UNCHANGED <<clock, tables, caches, user>>

LoadUser(r) ==
  /\ pc[r] = "loadUser"
  /\ Await(r, "userLoaded", Query(r))
  /\ UNCHANGED <<clock, tables, caches, user>>

(* The entry is written without await.                                     *)
StoreUser(r) ==
  /\ pc[r] = "userLoaded"
  /\ cachedUser' = [cachedUser EXCEPT ![user[r]] = Entry(found[r])]
  /\ CheckRole(r, found[r].value)
  /\ UNCHANGED <<clock, tables, cachedPermissions, user>>

(* Slip: the time is compared the way JwtAuthGuard does.                   *)
UsePermissionEntry_Reversed(r) ==
  /\ pc[r] = "permissionEntry"
  /\ IF found[r] # NoEntry /\ found[r].expires <= clock
     THEN CheckPermissions(r, found[r].value)
     ELSE Await(r, "loadPermissions", NoEntry)
  /\ UNCHANGED <<clock, tables, caches, user>>

UsePermissionEntry(r) ==
  /\ pc[r] = "permissionEntry"
  /\ IF found[r] # NoEntry /\ found[r].expires > clock
     THEN CheckPermissions(r, found[r].value)
     ELSE Await(r, "loadPermissions", NoEntry)
  /\ UNCHANGED <<clock, tables, caches, user>>

(* getPermissions dereferences user.role.                                  *)
LoadPermissions(r) ==
  /\ pc[r] = "loadPermissions"
  /\ IF rights[user[r]].role = NoRole
     THEN Return(r, "refused")
     ELSE Await(r, "permissionsLoaded", Query(r))
  /\ UNCHANGED <<clock, tables, caches, user>>

StorePermissions(r) ==
  /\ pc[r] = "permissionsLoaded"
  /\ cachedPermissions' = [cachedPermissions EXCEPT ![user[r]] = Entry(found[r])]
  /\ Await(r, "decide", found[r])
  /\ UNCHANGED <<clock, tables, cachedUser, user>>

Decide(r) ==
  /\ pc[r] = "decide"
  /\ CheckPermissions(r, found[r].value)
  /\ UNCHANGED <<clock, tables, caches, user>>

(* Any call may fail: JwtAuthGuard answers 401, PermissionsGuard 500.      *)
CallFails(r) ==
  /\ Awaiting(r)
  /\ Return(r, "refused")
  /\ UNCHANGED <<clock, tables, caches, user>>

Step(r) ==
  \/ TurnAway(r) \/ Arrive(r) \/ UseUserEntry(r) \/ LoadUser(r) \/ StoreUser(r)
  \/ UsePermissionEntry(r) \/ LoadPermissions(r) \/ StorePermissions(r)
  \/ Decide(r) \/ CallFails(r)

(* Roles and permissions are changed from outside these routes; Redis may  *)
(* lose what it holds.                                                     *)
Change ==
  /\ changes < MaxChanges
  /\ \E u \in Users, x \in Rights : rights' = [rights EXCEPT ![u] = x]
  /\ past' = Recorded(clock, rights')
  /\ changes' = changes + 1
  /\ UNCHANGED <<clock, caches, pc, user, found, since>>

Evict(u) ==
  /\ cachedUser' = [cachedUser EXCEPT ![u] = NoEntry]
  /\ cachedPermissions' = [cachedPermissions EXCEPT ![u] = NoEntry]
  /\ UNCHANGED <<clock, tables, pc, user, found, since>>

(* Time passes only as far as the calls under way allow.                   *)
Tick ==
  /\ clock < MaxTime
  /\ \A r \in Requests : Awaiting(r) => clock - since[r] < Delay
  /\ clock' = clock + 1
  /\ past' = Recorded(clock', rights)
  /\ UNCHANGED <<rights, changes, caches, pc, user, found, since>>

Next ==
  \/ Change \/ Tick
  \/ \E u \in Users : Evict(u)
  \/ \E r \in Requests : Step(r)

Spec == Init /\ [][Next]_vars

-----------------------------------------------------------------------------
(* The requests and the caches keep their types.                           *)
TypeOK ==
  /\ clock \in 0 .. MaxTime
  /\ rights \in [Users -> Rights]
  /\ past \in SUBSET (Users \X (0 .. MaxTime) \X Rights)
  /\ changes \in 0 .. MaxChanges
  /\ cachedUser \in [Users -> Reading \cup {NoEntry}]
  /\ cachedPermissions \in [Users -> Reading \cup {NoEntry}]
  /\ pc \in [Requests -> PCs]
  /\ user \in [Requests -> Users \cup {NoEntry}]
  /\ found \in [Requests -> Reading \cup {NoEntry}]
  /\ since \in [Requests -> 0 .. MaxTime]

(* An entry says of its own user what the tables said when it was read,    *)
(* and lives no longer than Lifetime and one call from then, whichever     *)
(* request overwrote whose (jwt.guard.ts:53, permission.guard.ts:68).      *)
SoundEntry(u, e) ==
  /\ <<u, e.readAt, e.value>> \in past
  /\ e.expires <= e.readAt + Delay + Lifetime

CachesRecent ==
  \A u \in Users :
    /\ cachedUser[u] # NoEntry => SoundEntry(u, cachedUser[u])
    /\ cachedPermissions[u] # NoEntry => SoundEntry(u, cachedPermissions[u])

(* The guards implement RecentRights: however requests, changes of the     *)
(* tables, lost entries and the passing of time interleave, nobody passes  *)
(* on a role or a permission given up longer ago than an entry's lifetime  *)
(* and one call.                                                           *)
Checked(r) == pc[r] \in {"permissionEntry", "loadPermissions",
                        "permissionsLoaded", "decide"}

StageOf(r) ==
  CASE Checked(r)          -> [at |-> "known", user |-> user[r]]
    [] pc[r] = "admitted"  -> [at |-> "admitted", user |-> user[r]]
    [] pc[r] = "refused"   -> [at |-> "refused", user |-> NoEntry]
    [] OTHER               -> [at |-> "new", user |-> NoEntry]

Recent == INSTANCE RecentRights WITH
            RoleOk <- {x \in Rights : HasRole(x)},
            PermissionsOk <- {x \in Rights : IsValid(x)},
            Age <- Lifetime + Delay,
            Nobody <- NoEntry,
            stage <- [r \in Requests |-> StageOf(r)]

ImplementsRecentRights == Recent!Spec
=============================================================================
