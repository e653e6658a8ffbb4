----------------------------- MODULE GuardsProofs -----------------------------
(***************************************************************************)
(* Proofs about Guards, for any users, rights, requests and route: types,  *)
(* how long the caches stay true, and that the guards implement            *)
(* RecentRights.                                                           *)
(***************************************************************************)
EXTENDS Guards, FiniteSetTheorems, TLAPS

(* What was recorded is not from the future, and reaches to the present.   *)
PastSound ==
  /\ \A h \in past : h[2] <= clock
  /\ \A u \in Users : <<u, clock, rights[u]>> \in past

(* The await a request is suspended at bounds the time since its call, and *)
(* says whose rights it holds and how old they are.                        *)
Reported(r) == /\ found[r] # NoEntry
               /\ <<user[r], found[r].readAt, found[r].value>> \in past

PositionSound(r) ==
  /\ Awaiting(r) => /\ user[r] \in Users
                    /\ since[r] <= clock /\ clock <= since[r] + Delay
  /\ pc[r] \in {"userEntry", "permissionEntry"} =>
       (found[r] # NoEntry => SoundEntry(user[r], found[r]))
  /\ pc[r] \in {"userLoaded", "permissionsLoaded"} =>
       Reported(r) /\ found[r].readAt = since[r]
  /\ pc[r] = "decide" => Reported(r) /\ found[r].readAt >= since[r] - Delay

GuardsInv ==
  /\ TypeOK
  /\ PastSound
  /\ CachesRecent
  /\ \A r \in Requests : PositionSound(r)

-----------------------------------------------------------------------------
(* Lemmas about the steps.                                                 *)

(* The decision of PermissionsGuard is what its name says, for any number  *)
(* of permissions: with "ANY" one of those required is held.               *)
THEOREM AnyIsOne ==
  ASSUME NEW required, IsFiniteSet(required), NEW held
  PROVE  ValidatePermissions(required, held, "ANY")
           <=> \E p \in required : p \in held
<1> DEFINE missing == required \ held
<1>1. missing \subseteq required
  OBVIOUS
<1>2. Cardinality(missing) <= Cardinality(required)
      /\ (Cardinality(missing) = Cardinality(required) => missing = required)
  BY <1>1, FS_Subset
<1>3. IsFiniteSet(missing) /\ Cardinality(missing) \in Nat /\ Cardinality(required) \in Nat
  BY <1>1, FS_Subset, FS_CardinalityType
<1>4. ValidatePermissions(required, held, "ANY")
        <=> Cardinality(missing) < Cardinality(required)
  BY DEF ValidatePermissions
<1>5. Cardinality(missing) < Cardinality(required) <=> missing # required
  BY <1>2, <1>3
<1>6. missing # required <=> \E p \in required : p \in held
  OBVIOUS
<1> QED  BY <1>4, <1>5, <1>6

(* A request that moves leaves the others where they are.                  *)
LEMMA OthersStay ==
  ASSUME GuardsInv, NEW r \in Requests, UNCHANGED <<clock, past>>,
         NEW p, NEW x, NEW t,
         pc' = [pc EXCEPT ![r] = p], found' = [found EXCEPT ![r] = x],
         since' = [since EXCEPT ![r] = t],
         \A s \in Requests \ {r} : user'[s] = user[s],
         PositionSound(r)'
  PROVE  \A s \in Requests : PositionSound(s)'
<1> SUFFICES ASSUME NEW s \in Requests, s # r
             PROVE  PositionSound(s)'
  OBVIOUS
<1>1. pc'[s] = pc[s] /\ found'[s] = found[s] /\ since'[s] = since[s] /\ user'[s] = user[s]
  BY DEF GuardsInv, TypeOK
<1>2. PositionSound(s)
  BY DEF GuardsInv
<1> QED  BY <1>1, <1>2 DEF PositionSound, Awaiting, Reported, SoundEntry

(* What Redis gives of an entry is the entry or nothing.                   *)
LEMMA GetSound ==
  ASSUME GuardsInv, NEW u \in Users
  PROVE  /\ Get(cachedUser[u]) \in Reading \cup {NoEntry}
         /\ Get(cachedUser[u]) # NoEntry => SoundEntry(u, Get(cachedUser[u]))
         /\ Get(cachedPermissions[u]) \in Reading \cup {NoEntry}
         /\ Get(cachedPermissions[u]) # NoEntry =>
              SoundEntry(u, Get(cachedPermissions[u]))
BY DEF GuardsInv, TypeOK, CachesRecent, Get

(* A request that is decided on leaves nothing behind.                     *)
LEMMA ReturnSound ==
  ASSUME GuardsInv, NEW r \in Requests, NEW v \in {"admitted", "refused"}, Return(r, v),
         UNCHANGED <<clock, tables, caches, user>>
  PROVE  GuardsInv'
<1>1. TypeOK'
  BY GuardsAssumption DEF GuardsInv, TypeOK, Return, Goto, tables, caches, PCs
<1>2. PositionSound(r)'
  BY <1>1 DEF GuardsInv, TypeOK, Return, Goto, PositionSound, Awaiting
<1>3. \A s \in Requests : PositionSound(s)'
  BY <1>2, OthersStay DEF Return, Goto, tables
<1> QED  BY <1>1, <1>3 DEF GuardsInv, PastSound, CachesRecent, SoundEntry, tables, caches

(* One that goes on to an await has what it is given there.                *)
LEMMA AwaitSound ==
  ASSUME GuardsInv, NEW r \in Requests, NEW p \in PCs, NEW x \in Reading \cup {NoEntry},
         Await(r, p, x), UNCHANGED <<clock, tables>>,
         user' \in [Requests -> Users \cup {NoEntry}],
         user'[r] \in Users, \A s \in Requests \ {r} : user'[s] = user[s],
         cachedUser' \in [Users -> Reading \cup {NoEntry}],
         cachedPermissions' \in [Users -> Reading \cup {NoEntry}],
         \A u \in Users : cachedUser'[u] # NoEntry => SoundEntry(u, cachedUser'[u]),
         \A u \in Users : cachedPermissions'[u] # NoEntry =>
                           SoundEntry(u, cachedPermissions'[u]),
         p \in {"userEntry", "permissionEntry"} /\ x # NoEntry => SoundEntry(user'[r], x),
         p \in {"userLoaded", "permissionsLoaded", "decide"} =>
           /\ x # NoEntry
           /\ <<user'[r], x.readAt, x.value>> \in past,
         p \in {"userLoaded", "permissionsLoaded"} => x.readAt = clock,
         p = "decide" => x.readAt >= clock - Delay
  PROVE  GuardsInv'
<1>1. TypeOK'
  BY DEF GuardsInv, TypeOK, Await, Goto, tables
<1>2. pc'[r] = p /\ found'[r] = x /\ since'[r] = clock /\ clock' = clock /\ past' = past
      /\ clock \in Int /\ Delay \in Nat
  BY GuardsAssumption DEF GuardsInv, TypeOK, Await, Goto, tables
<1>3. PositionSound(r)'
  BY <1>2 DEF PositionSound, Awaiting, Reported, SoundEntry
<1>4. \A s \in Requests : PositionSound(s)'
  BY <1>3, OthersStay DEF Await, Goto, tables
<1>5. CachesRecent'
  BY DEF CachesRecent, SoundEntry, tables
<1> QED  BY <1>1, <1>4, <1>5 DEF GuardsInv, PastSound, tables

(* RolesGuard's step, whatever it decides on.                              *)
LEMMA CheckRoleSound ==
  ASSUME GuardsInv, NEW r \in Requests, user[r] \in Users, NEW x, CheckRole(r, x),
         UNCHANGED <<clock, tables, user>>,
         NEW e \in Reading, SoundEntry(user[r], e),
         \/ UNCHANGED cachedUser
         \/ cachedUser' = [cachedUser EXCEPT ![user[r]] = e],
         UNCHANGED cachedPermissions
  PROVE  GuardsInv'
<1> DEFINE g == Get(cachedPermissions[user[r]])
<1>1. g \in Reading \cup {NoEntry} /\ (g # NoEntry => SoundEntry(user[r], g))
  BY GetSound
<1>2. /\ cachedUser' \in [Users -> Reading \cup {NoEntry}]
      /\ cachedPermissions' \in [Users -> Reading \cup {NoEntry}]
      /\ \A u \in Users : cachedUser'[u] # NoEntry => SoundEntry(u, cachedUser'[u])
      /\ \A u \in Users : cachedPermissions'[u] # NoEntry =>
                           SoundEntry(u, cachedPermissions'[u])
  BY DEF GuardsInv, TypeOK, CachesRecent
<1>3. /\ user' \in [Requests -> Users \cup {NoEntry}]
      /\ user'[r] \in Users /\ \A s \in Requests \ {r} : user'[s] = user[s]
  BY DEF GuardsInv, TypeOK
<1>4. CASE HasRole(x)
  <2>1. Await(r, "permissionEntry", g)
    BY <1>4 DEF CheckRole
  <2>2. "permissionEntry" \in PCs
    BY DEF PCs
  <2> HIDE DEF g
  <2> QED  BY <2>1, <2>2, <1>1, <1>2, <1>3, AwaitSound
<1>5. CASE ~HasRole(x)
  <2>1. Return(r, "refused")
    BY <1>5 DEF CheckRole
  <2>2. TypeOK'
    BY <2>1, <1>2, GuardsAssumption DEF GuardsInv, TypeOK, Return, Goto, tables, PCs
  <2>3. PositionSound(r)'
    BY <2>1, <2>2 DEF GuardsInv, TypeOK, Return, Goto, PositionSound, Awaiting
  <2>4. \A s \in Requests : PositionSound(s)'
    BY <2>1, <2>3, OthersStay DEF Return, Goto, tables
  <2>5. CachesRecent'
    BY <1>2 DEF CachesRecent, SoundEntry, tables
  <2> QED  BY <2>2, <2>4, <2>5 DEF GuardsInv, PastSound, tables
<1> QED  BY <1>4, <1>5

-----------------------------------------------------------------------------
(* Each action preserves the invariant.                                    *)

(* A row that was just read is of the present.                             *)
LEMMA QuerySound ==
  ASSUME GuardsInv, NEW r \in Requests, user[r] \in Users
  PROVE  Query(r) \in Reading /\ Query(r).readAt = clock
BY GuardsAssumption DEF GuardsInv, TypeOK, Query, Reading

LEMMA ArriveSound ==
  ASSUME GuardsInv, NEW r \in Requests, Arrive(r)  PROVE GuardsInv'
<1>1. PICK u \in Users : /\ user' = [user EXCEPT ![r] = u]
                         /\ Await(r, "userEntry", Get(cachedUser[u]))
  BY DEF Arrive
<1>2. /\ Get(cachedUser[u]) \in Reading \cup {NoEntry}
      /\ Get(cachedUser[u]) # NoEntry => SoundEntry(u, Get(cachedUser[u]))
  BY GetSound
<1>3. /\ user' \in [Requests -> Users \cup {NoEntry}]
      /\ user'[r] = u /\ \A s \in Requests \ {r} : user'[s] = user[s]
  BY <1>1 DEF GuardsInv, TypeOK
<1>4. "userEntry" \in PCs /\ UNCHANGED <<clock, tables, caches>>
  BY DEF PCs, Arrive
<1> QED  BY <1>1, <1>2, <1>3, <1>4, AwaitSound DEF caches, GuardsInv, TypeOK, CachesRecent

LEMMA UseUserEntrySound ==
  ASSUME GuardsInv, NEW r \in Requests, UseUserEntry(r)  PROVE GuardsInv'
<1>1. pc[r] = "userEntry" /\ UNCHANGED <<clock, tables, caches, user>>
  BY DEF UseUserEntry
<1>2. /\ user[r] \in Users /\ found[r] \in Reading \cup {NoEntry}
      /\ found[r] # NoEntry => SoundEntry(user[r], found[r])
  BY <1>1 DEF GuardsInv, TypeOK, PositionSound, Awaiting
<1>3. CASE Await(r, "loadUser", NoEntry)
  BY <1>1, <1>2, <1>3, AwaitSound DEF PCs, caches, GuardsInv, TypeOK, CachesRecent
<1>4. CASE found[r] # NoEntry /\ CheckRole(r, found[r].value)
  BY <1>1, <1>2, <1>4, CheckRoleSound DEF caches
<1> QED  BY <1>3, <1>4 DEF UseUserEntry

LEMMA LoadUserSound ==
  ASSUME GuardsInv, NEW r \in Requests, LoadUser(r)  PROVE GuardsInv'
<1>1. pc[r] = "loadUser" /\ UNCHANGED <<clock, tables, caches, user>>
      /\ Await(r, "userLoaded", Query(r))
  BY DEF LoadUser
<1>2. user[r] \in Users
  BY <1>1 DEF GuardsInv, PositionSound, Awaiting
<1>3. Query(r) \in Reading /\ Query(r).readAt = clock
  BY <1>2, QuerySound
<1>4. Query(r).value = rights[user[r]]
  BY DEF Query
<1>5. "userLoaded" \in PCs /\ Query(r) # NoEntry
  BY NoEntryAssumption, <1>3 DEF PCs
<1> QED  BY <1>1, <1>2, <1>3, <1>4, <1>5, AwaitSound
         DEF PastSound, caches, GuardsInv, TypeOK, CachesRecent

LEMMA StoreUserSound ==
  ASSUME GuardsInv, NEW r \in Requests, StoreUser(r)  PROVE GuardsInv'
<1> DEFINE e == Entry(found[r])
<1>1. /\ pc[r] = "userLoaded" /\ UNCHANGED <<clock, tables, cachedPermissions, user>>
      /\ cachedUser' = [cachedUser EXCEPT ![user[r]] = e]
      /\ CheckRole(r, found[r].value)
  BY DEF StoreUser
<1>2. /\ user[r] \in Users /\ found[r] \in Reading /\ clock <= found[r].readAt + Delay
      /\ <<user[r], found[r].readAt, found[r].value>> \in past
  BY <1>1 DEF GuardsInv, TypeOK, PositionSound, Awaiting, Reported
<1>3. e \in Reading /\ SoundEntry(user[r], e)
  BY <1>2, GuardsAssumption DEF Entry, Reading, SoundEntry, GuardsInv, TypeOK
<1> HIDE DEF e
<1> QED  BY <1>1, <1>2, <1>3, CheckRoleSound

LEMMA UsePermissionEntrySound ==
  ASSUME GuardsInv, NEW r \in Requests, UsePermissionEntry(r)  PROVE GuardsInv'
<1>1. pc[r] = "permissionEntry" /\ UNCHANGED <<clock, tables, caches, user>>
  BY DEF UsePermissionEntry
<1>2. user[r] \in Users
  BY <1>1 DEF GuardsInv, PositionSound, Awaiting
<1>3. CASE Await(r, "loadPermissions", NoEntry)
  BY <1>1, <1>2, <1>3, AwaitSound DEF PCs, caches, GuardsInv, TypeOK, CachesRecent
<1>4. CASE CheckPermissions(r, found[r].value)
  BY <1>1, <1>4, ReturnSound DEF CheckPermissions
<1> QED  BY <1>3, <1>4 DEF UsePermissionEntry

LEMMA LoadPermissionsSound ==
  ASSUME GuardsInv, NEW r \in Requests, LoadPermissions(r)  PROVE GuardsInv'
<1>1. pc[r] = "loadPermissions" /\ UNCHANGED <<clock, tables, caches, user>>
  BY DEF LoadPermissions
<1>2. user[r] \in Users
  BY <1>1 DEF GuardsInv, PositionSound, Awaiting
<1>3. /\ Query(r) \in Reading /\ Query(r).readAt = clock
      /\ Query(r).value = rights[user[r]]
  BY <1>2, QuerySound DEF Query
<1>4. "permissionsLoaded" \in PCs /\ Query(r) # NoEntry
  BY NoEntryAssumption, <1>3 DEF PCs
<1>5. CASE Await(r, "permissionsLoaded", Query(r))
  BY <1>1, <1>2, <1>3, <1>4, <1>5, AwaitSound
     DEF PastSound, caches, GuardsInv, TypeOK, CachesRecent
<1>6. CASE Return(r, "refused")
  BY <1>1, <1>6, ReturnSound
<1> QED  BY <1>5, <1>6 DEF LoadPermissions

LEMMA StorePermissionsSound ==
  ASSUME GuardsInv, NEW r \in Requests, StorePermissions(r)  PROVE GuardsInv'
<1> DEFINE e == Entry(found[r])
<1>1. /\ pc[r] = "permissionsLoaded" /\ UNCHANGED <<clock, tables, cachedUser, user>>
      /\ cachedPermissions' = [cachedPermissions EXCEPT ![user[r]] = e]
      /\ Await(r, "decide", found[r])
  BY DEF StorePermissions
<1>2. /\ user[r] \in Users /\ found[r] \in Reading /\ clock <= found[r].readAt + Delay
      /\ found[r] # NoEntry /\ <<user[r], found[r].readAt, found[r].value>> \in past
  BY <1>1 DEF GuardsInv, TypeOK, PositionSound, Awaiting, Reported
<1>3. e \in Reading /\ SoundEntry(user[r], e) /\ found[r].readAt >= clock - Delay
  BY <1>2, GuardsAssumption DEF Entry, Reading, SoundEntry, GuardsInv, TypeOK
<1>4. "decide" \in PCs
  BY DEF PCs
<1> HIDE DEF e
<1>5. /\ cachedUser' \in [Users -> Reading \cup {NoEntry}]
      /\ cachedPermissions' \in [Users -> Reading \cup {NoEntry}]
      /\ \A u \in Users : cachedUser'[u] # NoEntry => SoundEntry(u, cachedUser'[u])
      /\ \A u \in Users : cachedPermissions'[u] # NoEntry =>
                           SoundEntry(u, cachedPermissions'[u])
  BY <1>1, <1>2, <1>3 DEF GuardsInv, TypeOK, CachesRecent
<1>6. user' \in [Requests -> Users \cup {NoEntry}] /\ user' = user
  BY <1>1 DEF GuardsInv, TypeOK
<1> QED  BY <1>1, <1>2, <1>3, <1>4, <1>5, <1>6, AwaitSound

LEMMA RefusalSound ==
  ASSUME GuardsInv, NEW r \in Requests,
         TurnAway(r) \/ Decide(r) \/ CallFails(r)
  PROVE  GuardsInv'
BY ReturnSound DEF TurnAway, Decide, CallFails, CheckPermissions

(* A change of the tables adds to what was recorded; everything that was   *)
(* read before stays true of the time it was read.                         *)
LEMMA ChangeSound ==
  ASSUME GuardsInv, Change  PROVE GuardsInv'
<1>1. /\ rights' \in [Users -> Rights] /\ past' = Recorded(clock, rights')
      /\ changes' \in 0 .. MaxChanges /\ UNCHANGED <<clock, caches, pc, user, found, since>>
  BY GuardsAssumption DEF Change, GuardsInv, TypeOK
<1>2. past \subseteq past' /\ TypeOK'
  BY <1>1 DEF Recorded, GuardsInv, TypeOK, caches
<1>3. PastSound'
  BY <1>1, GuardsAssumption DEF PastSound, Recorded, GuardsInv, TypeOK
<1>4. CachesRecent'
  BY <1>1, <1>2 DEF GuardsInv, CachesRecent, SoundEntry, caches
<1>5. ASSUME NEW r \in Requests PROVE PositionSound(r)'
  BY <1>1, <1>2 DEF GuardsInv, PositionSound, Awaiting, Reported, SoundEntry
<1> QED  BY <1>2, <1>3, <1>4, <1>5 DEF GuardsInv

LEMMA TickSound ==
  ASSUME GuardsInv, Tick  PROVE GuardsInv'
<1>1. /\ clock' = clock + 1 /\ clock' \in 0 .. MaxTime /\ past' = Recorded(clock', rights)
      /\ \A r \in Requests : Awaiting(r) => clock - since[r] < Delay
      /\ UNCHANGED <<rights, changes, caches, pc, user, found, since>>
  BY GuardsAssumption DEF Tick, GuardsInv, TypeOK
<1>2. past \subseteq past' /\ TypeOK'
  BY <1>1 DEF Recorded, GuardsInv, TypeOK, caches
<1>3. PastSound'
  BY <1>1, GuardsAssumption DEF PastSound, Recorded, GuardsInv, TypeOK
<1>4. CachesRecent'
  BY <1>1, <1>2 DEF GuardsInv, CachesRecent, SoundEntry, caches
<1>5. ASSUME NEW r \in Requests PROVE PositionSound(r)'
  <2>1. clock \in Int /\ since[r] \in Int /\ Delay \in Int
    BY GuardsAssumption DEF GuardsInv, TypeOK
  <2> QED  BY <2>1, <1>1, <1>2 DEF GuardsInv, PositionSound, Awaiting, Reported, SoundEntry
<1> QED  BY <1>2, <1>3, <1>4, <1>5 DEF GuardsInv

LEMMA EvictSound ==
  ASSUME GuardsInv, NEW u \in Users, Evict(u)  PROVE GuardsInv'
BY DEF Evict, tables, GuardsInv, TypeOK, PastSound, CachesRecent, PositionSound, Awaiting,
       Reported, SoundEntry

LEMMA InitSound == Init => GuardsInv
<1> SUFFICES ASSUME Init PROVE GuardsInv
  OBVIOUS
<1>1. TypeOK /\ PastSound
  BY GuardsAssumption DEF Init, TypeOK, PastSound, PCs
<1>2. CachesRecent /\ \A r \in Requests : PositionSound(r)
  BY DEF Init, CachesRecent, PositionSound, Awaiting
<1> QED  BY <1>1, <1>2 DEF GuardsInv

LEMMA NextSound == GuardsInv /\ [Next]_vars => GuardsInv'
<1> SUFFICES ASSUME GuardsInv, [Next]_vars PROVE GuardsInv'
  OBVIOUS
<1>1. CASE UNCHANGED vars
  BY <1>1 DEF vars, GuardsInv, TypeOK, PastSound, CachesRecent, PositionSound, Awaiting,
              Reported, SoundEntry
<1>2. ASSUME NEW r \in Requests, Step(r) PROVE GuardsInv'
  BY <1>2, ArriveSound, UseUserEntrySound, LoadUserSound, StoreUserSound,
     UsePermissionEntrySound, LoadPermissionsSound, StorePermissionsSound, RefusalSound
     DEF Step
<1> QED  BY <1>1, <1>2, ChangeSound, TickSound, EvictSound DEF Next

(* What is cached, and what each request holds, was true of its user, and  *)
(* how long ago follows from the await the request is suspended at         *)
(* (jwt.guard.ts, permission.guard.ts).                                    *)
THEOREM GuardsSound == Spec => []GuardsInv
BY InitSound, NextSound, PTL DEF Spec

(* The clock, the tables, the caches and the requests keep their types,    *)
(* whatever is cached for whomever (jwt.guard.ts, permission.guard.ts).    *)
THEOREM TypeCorrect == Spec => []TypeOK
<1>1. GuardsInv => TypeOK
  BY DEF GuardsInv
<1> QED  BY <1>1, GuardsSound, PTL

(* A cache entry never outlives what the tables said by more than its      *)
(* lifetime and one call, whichever requests overwrite it in which order.  *)
THEOREM CachesStayRecent == Spec => []CachesRecent
<1>1. GuardsInv => CachesRecent
  BY DEF GuardsInv
<1> QED  BY <1>1, GuardsSound, PTL

-----------------------------------------------------------------------------
(* The guards implement RecentRights.                                      *)

Stage == [r \in Requests |-> StageOf(r)]

(* Only the stage of the request that moves changes.                       *)
LEMMA StageMoves ==
  ASSUME GuardsInv, NEW r \in Requests, NEW p \in PCs, Goto(r, p),
         \A s \in Requests \ {r} : user'[s] = user[s]
  PROVE  /\ Stage' = [Stage EXCEPT ![r] = StageOf(r)']
         /\ pc'[r] = p
<1>1. pc'[r] = p /\ \A s \in Requests \ {r} : pc'[s] = pc[s]
  BY DEF Goto, GuardsInv, TypeOK
<1>2. \A s \in Requests \ {r} : StageOf(s)' = StageOf(s)
  BY <1>1 DEF StageOf, Checked
<1> QED  BY <1>1, <1>2 DEF Stage

(* A step of a request that is not the decision of a guard is no step of   *)
(* RecentRights.                                                           *)
LEMMA SameStage ==
  ASSUME GuardsInv, NEW r \in Requests, NEW p \in PCs, Goto(r, p),
         UNCHANGED <<clock, tables>>, \A s \in Requests \ {r} : user'[s] = user[s],
         \/ /\ pc[r] \in {"absent", "userEntry", "loadUser", "userLoaded"}
            /\ p \in {"userEntry", "loadUser", "userLoaded"}
         \/ Checked(r) /\ UNCHANGED user
            /\ p \in {"permissionEntry", "loadPermissions", "permissionsLoaded", "decide"}
  PROVE  UNCHANGED Recent!vars
<1>1. Stage' = [Stage EXCEPT ![r] = StageOf(r)'] /\ pc'[r] = p
  BY StageMoves
<1>2. StageOf(r)' = StageOf(r)
  BY <1>1 DEF StageOf, Checked
<1>3. Stage' = Stage
  BY <1>1, <1>2 DEF Stage
<1> QED  BY <1>3 DEF Stage, Recent!vars, tables

(* Refusing is always allowed.                                             *)
LEMMA RefusalImplements ==
  ASSUME GuardsInv, NEW r \in Requests, pc[r] \notin {"admitted", "refused"},
         Return(r, "refused"), UNCHANGED <<clock, tables>>, UNCHANGED user
  PROVE  Recent!Refuse(r)
<1>1. "refused" \in PCs /\ Goto(r, "refused")
  BY DEF PCs, Return
<1>2. Stage' = [Stage EXCEPT ![r] = StageOf(r)'] /\ pc'[r] = "refused"
  BY <1>1, StageMoves
<1>3. StageOf(r)' = [at |-> "refused", user |-> NoEntry]
  BY <1>2 DEF StageOf, Checked
<1>4. Stage[r].at \in {"new", "known"}
  BY DEF Stage, StageOf, Checked
<1> QED  BY <1>2, <1>3, <1>4 DEF Stage, Recent!Refuse, tables

(* RolesGuard passes a request on a row of its user that is recent.        *)
LEMMA CheckRoleImplements ==
  ASSUME GuardsInv, NEW r \in Requests, pc[r] \in {"userEntry", "userLoaded"},
         found[r] # NoEntry, CheckRole(r, found[r].value),
         UNCHANGED <<clock, tables>>, UNCHANGED user,
         <<user[r], found[r].readAt, found[r].value>> \in past,
         clock <= found[r].readAt + Lifetime + Delay
  PROVE  Recent!Pass(r, user[r]) \/ Recent!Refuse(r)
<1>1. CASE Return(r, "refused")
  BY <1>1, RefusalImplements
<1>2. CASE HasRole(found[r].value)
  <2>1. "permissionEntry" \in PCs /\ Goto(r, "permissionEntry")
    BY <1>2 DEF CheckRole, Await, PCs
  <2>2. Stage' = [Stage EXCEPT ![r] = StageOf(r)'] /\ pc'[r] = "permissionEntry"
    BY <2>1, StageMoves
  <2>3. StageOf(r)' = [at |-> "known", user |-> user[r]]
    BY <2>2 DEF StageOf, Checked
  <2>4. Stage[r].at = "new"
    BY DEF Stage, StageOf, Checked
  <2>5. found[r].readAt <= clock /\ found[r].readAt \in Int /\ clock \in Int
        /\ found[r].value \in Rights
    BY DEF GuardsInv, TypeOK, PastSound, Reading
  <2>6. found[r].readAt \in clock - (Lifetime + Delay) .. clock
    BY <2>5, GuardsAssumption
  <2>7. Recent!Had(user[r], {x \in Rights : HasRole(x)})
    BY <1>2, <2>5, <2>6 DEF Recent!Had
  <2> QED  BY <2>2, <2>3, <2>4, <2>7 DEF Stage, Recent!Pass, tables
<1> QED  BY <1>1, <1>2 DEF CheckRole

(* PermissionsGuard admits a request on permissions that are recent.       *)
LEMMA CheckPermissionsImplements ==
  ASSUME GuardsInv, NEW r \in Requests, Checked(r), found[r] # NoEntry,
         CheckPermissions(r, found[r].value),
         UNCHANGED <<clock, tables>>, UNCHANGED user,
         <<user[r], found[r].readAt, found[r].value>> \in past,
         clock <= found[r].readAt + Lifetime + Delay
  PROVE  Recent!Admit(r) \/ Recent!Refuse(r)
<1>1. CASE Return(r, "refused")
  BY <1>1, RefusalImplements DEF Checked
<1>2. CASE IsValid(found[r].value)
  <2>1. "admitted" \in PCs /\ Goto(r, "admitted")
    BY <1>2 DEF CheckPermissions, Return, PCs
  <2>2. Stage' = [Stage EXCEPT ![r] = StageOf(r)'] /\ pc'[r] = "admitted"
    BY <2>1, StageMoves
  <2>3. StageOf(r)' = [at |-> "admitted", user |-> user[r]]
    BY <2>2 DEF StageOf, Checked
  <2>4. Stage[r] = [at |-> "known", user |-> user[r]]
    BY DEF Stage, StageOf, Checked
  <2>5. found[r].readAt <= clock /\ found[r].readAt \in Int /\ clock \in Int
        /\ found[r].value \in Rights
    BY DEF GuardsInv, TypeOK, PastSound, Reading
  <2>6. found[r].readAt \in clock - (Lifetime + Delay) .. clock
    BY <2>5, GuardsAssumption
  <2>7. Recent!Had(user[r], {x \in Rights : IsValid(x)})
    BY <1>2, <2>5, <2>6 DEF Recent!Had
  <2>8. Stage' = [Stage EXCEPT ![r].at = "admitted"]
    <3>1. [Stage[r] EXCEPT !.at = "admitted"] = StageOf(r)'
      BY <2>3, <2>4
    <3> QED  BY <2>2, <3>1
  <2> QED  BY <2>4, <2>7, <2>8 DEF Stage, Recent!Admit, tables
<1> QED  BY <1>1, <1>2 DEF CheckPermissions

(* What a request holds is recent when it is decided on.                   *)
LEMMA FoundIsRecent ==
  ASSUME GuardsInv, NEW r \in Requests, found[r] # NoEntry,
         \/ pc[r] \in {"userEntry", "permissionEntry"} /\ found[r].expires >= clock
         \/ pc[r] \in {"userLoaded", "decide"}
  PROVE  /\ <<user[r], found[r].readAt, found[r].value>> \in past
         /\ clock <= found[r].readAt + Lifetime + Delay
<1>1. found[r].readAt \in Int /\ found[r].expires \in Int /\ clock \in Int /\ since[r] \in Int
      /\ Lifetime \in Int /\ Delay \in Int /\ Delay <= Lifetime /\ Delay >= 0
  BY GuardsAssumption DEF GuardsInv, TypeOK, Reading
<1>2. PositionSound(r)
  BY DEF GuardsInv
<1> QED  BY <1>1, <1>2 DEF PositionSound, Awaiting, Reported, SoundEntry

(* What each step of a request is in RecentRights.                         *)
LEMMA UseUserEntryImplements ==
  ASSUME GuardsInv, NEW r \in Requests, UseUserEntry(r)
  PROVE  Recent!Next \/ UNCHANGED Recent!vars
<1>1. pc[r] = "userEntry" /\ UNCHANGED <<clock, tables>> /\ UNCHANGED user
  BY DEF UseUserEntry
<1>2. CASE Await(r, "loadUser", NoEntry)
  BY <1>1, <1>2, SameStage DEF Await, PCs
<1>3. CASE /\ found[r] # NoEntry /\ found[r].expires = clock
           /\ CheckRole(r, found[r].value)
  <2>1. found[r].expires >= clock
    BY <1>3 DEF GuardsInv, TypeOK
  <2>2. Recent!Pass(r, user[r]) \/ Recent!Refuse(r)
    BY <1>1, <1>3, <2>1, FoundIsRecent, CheckRoleImplements
  <2>3. user[r] \in Users
    BY <1>1 DEF GuardsInv, PositionSound, Awaiting
  <2> QED  BY <2>2, <2>3 DEF Recent!Next
<1> QED  BY <1>2, <1>3 DEF UseUserEntry

LEMMA StoreUserImplements ==
  ASSUME GuardsInv, NEW r \in Requests, StoreUser(r)
  PROVE  Recent!Next
<1>1. pc[r] = "userLoaded" /\ UNCHANGED <<clock, tables>> /\ UNCHANGED user
      /\ CheckRole(r, found[r].value)
  BY DEF StoreUser
<1>2. found[r] # NoEntry /\ user[r] \in Users
  BY <1>1 DEF GuardsInv, PositionSound, Awaiting, Reported
<1>3. Recent!Pass(r, user[r]) \/ Recent!Refuse(r)
  BY <1>1, <1>2, FoundIsRecent, CheckRoleImplements
<1> QED  BY <1>2, <1>3 DEF Recent!Next

LEMMA UsePermissionEntryImplements ==
  ASSUME GuardsInv, NEW r \in Requests, UsePermissionEntry(r)
  PROVE  Recent!Next \/ UNCHANGED Recent!vars
<1>1. pc[r] = "permissionEntry" /\ UNCHANGED <<clock, tables>> /\ UNCHANGED user
      /\ Checked(r)
  BY DEF UsePermissionEntry, Checked
<1>2. CASE Await(r, "loadPermissions", NoEntry)
  BY <1>1, <1>2, SameStage DEF Await, PCs
<1>3. CASE /\ found[r] # NoEntry /\ found[r].expires > clock
           /\ CheckPermissions(r, found[r].value)
  <2>1. found[r].expires >= clock
    BY <1>3 DEF GuardsInv, TypeOK, Reading
  <2>2. Recent!Admit(r) \/ Recent!Refuse(r)
    BY <1>1, <1>3, <2>1, FoundIsRecent, CheckPermissionsImplements
  <2> QED  BY <2>2 DEF Recent!Next
<1> QED  BY <1>2, <1>3 DEF UsePermissionEntry

LEMMA LoadPermissionsImplements ==
  ASSUME GuardsInv, NEW r \in Requests, LoadPermissions(r)
  PROVE  Recent!Next \/ UNCHANGED Recent!vars
<1>1. pc[r] = "loadPermissions" /\ UNCHANGED <<clock, tables>> /\ UNCHANGED user
      /\ Checked(r)
  BY DEF LoadPermissions, Checked
<1>2. CASE Return(r, "refused")
  BY <1>1, <1>2, RefusalImplements DEF Recent!Next
<1>3. CASE Await(r, "permissionsLoaded", Query(r))
  BY <1>1, <1>3, SameStage DEF Await, PCs
<1> QED  BY <1>2, <1>3 DEF LoadPermissions

LEMMA DecideImplements ==
  ASSUME GuardsInv, NEW r \in Requests, Decide(r)
  PROVE  Recent!Next
<1>1. pc[r] = "decide" /\ UNCHANGED <<clock, tables>> /\ UNCHANGED user
      /\ Checked(r) /\ CheckPermissions(r, found[r].value)
  BY DEF Decide, Checked
<1>2. found[r] # NoEntry
  BY <1>1 DEF GuardsInv, PositionSound, Reported
<1>3. Recent!Admit(r) \/ Recent!Refuse(r)
  BY <1>1, <1>2, FoundIsRecent, CheckPermissionsImplements
<1> QED  BY <1>3 DEF Recent!Next

(* Every other step of a request stutters or refuses it.                   *)
LEMMA OtherStepsImplement ==
  ASSUME GuardsInv, NEW r \in Requests,
         TurnAway(r) \/ CallFails(r) \/ Arrive(r) \/ LoadUser(r) \/ StorePermissions(r)
  PROVE  Recent!Next \/ UNCHANGED Recent!vars
<1>1. CASE TurnAway(r) \/ CallFails(r)
  BY <1>1, RefusalImplements DEF TurnAway, CallFails, Awaiting, Recent!Next
<1>2. CASE Arrive(r)
  <2>1. /\ pc[r] = "absent" /\ Goto(r, "userEntry") /\ UNCHANGED <<clock, tables>>
        /\ \A s \in Requests \ {r} : user'[s] = user[s]
    BY <1>2 DEF Arrive, Await, GuardsInv, TypeOK
  <2> QED  BY <2>1, SameStage DEF PCs
<1>3. CASE LoadUser(r)
  BY <1>3, SameStage DEF LoadUser, Await, PCs
<1>4. CASE StorePermissions(r)
  BY <1>4, SameStage DEF StorePermissions, Await, PCs, Checked
<1> QED  BY <1>1, <1>2, <1>3, <1>4

(* The tables change and time passes in both; losing an entry is nothing.  *)
LEMMA EnvironmentImplements ==
  ASSUME GuardsInv, Change \/ Tick \/ \E u \in Users : Evict(u)
  PROVE  Recent!Next \/ UNCHANGED Recent!vars
<1>1. Stage' = Stage
  BY DEF Stage, StageOf, Checked, Change, Tick, Evict
<1>2. CASE Change
  <2>1. rights' \in [Users -> Rights]
    BY <1>2 DEF Change, GuardsInv, TypeOK
  <2> QED  BY <1>1, <1>2, <2>1
           DEF Stage, Change, Recorded, Recent!Recorded, Recent!Change, Recent!Next
<1>3. CASE Tick
  BY <1>1, <1>3 DEF Stage, Tick, Recorded, Recent!Recorded, Recent!Tick, Recent!Next
<1>4. CASE \E u \in Users : Evict(u)
  BY <1>1, <1>4 DEF Stage, Evict, tables, Recent!vars
<1> QED  BY <1>2, <1>3, <1>4

(* However requests, changes of the tables, lost entries and the passing   *)
(* of time interleave, nobody passes RolesGuard or PermissionsGuard on     *)
(* rights given up longer ago than an entry's lifetime and one call.       *)
THEOREM GuardsImplementRecentRights == Spec => ImplementsRecentRights
<1>1. Init => Recent!Init
  BY DEF Init, Recent!Init, StageOf, Checked
<1>2. GuardsInv /\ [Next]_vars => [Recent!Next]_(Recent!vars)
  <2> SUFFICES ASSUME GuardsInv, [Next]_vars
               PROVE  Recent!Next \/ UNCHANGED Recent!vars
    OBVIOUS
  <2>1. CASE UNCHANGED vars
    BY <2>1 DEF vars, Recent!vars, StageOf, Checked
  <2>2. ASSUME NEW r \in Requests, Step(r)
        PROVE  Recent!Next \/ UNCHANGED Recent!vars
    BY <2>2, UseUserEntryImplements, StoreUserImplements, UsePermissionEntryImplements,
       LoadPermissionsImplements, DecideImplements, OtherStepsImplement DEF Step
  <2> QED  BY <2>1, <2>2, EnvironmentImplements DEF Next
<1> QED  BY <1>1, <1>2, GuardsSound, PTL DEF Spec, ImplementsRecentRights, Recent!Spec
=============================================================================
