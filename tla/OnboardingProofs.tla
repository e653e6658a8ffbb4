--------------------------- MODULE OnboardingProofs ---------------------------
(***************************************************************************)
(* Proofs about Seeder and Onboarding, for any countries, permissions,     *)
(* requests, forms and phone numbers, any lifetime of a code and any       *)
(* number of kills.                                                        *)
(***************************************************************************)
EXTENDS Onboarding, FiniteSetTheorems, TLAPS

USE DEF aside, Calm

(* What a start finds and leaves.  A role that is stored stays, so that a  *)
(* second start never comes to look its permissions up; and while nothing  *)
(* was killed, countries and currencies are added by one start only.       *)
Untouched == countries = {} /\ currencies = {}

SeededSoFar ==
  CASE phase = "countries"  ->
         /\ currencies = {}
         /\ \A c \in Countries : /\ progress[c] \in {"find", "add", "new"}
                                 /\ c \in countries <=> progress[c] = "new"
    [] phase = "currencies" ->
         /\ countries = Countries
         /\ \A c \in Countries : /\ progress[c] \in {"new", "addCurrency", "done"}
                                 /\ c \in currencies <=> progress[c] = "done"
    [] phase = "listening"  -> countries = Countries /\ currencies = Countries
    [] OTHER                -> Untouched

SeederInv ==
  /\ SeederTypeOK
  /\ FailsOnce
  /\ failedStarts # 0 => roles # {}
  /\ phase = "makeRole" => roles = {}
  /\ phase = "grant" => failedStarts = 0 /\ roles # {}
  /\ phase \in {"check", "makeRole", "grant"} => \A c \in Countries : progress[c] = "find"
  /\ crashes = 0 => SeededSoFar

(* A code that is stored for the number n.                                 *)
CodeFor(o, n) == o \in users /\ otp[o] # "none" /\ form[o].phone = n

Spent(n) == \E o \in users : otp[o] = "inactive" /\ form[o].phone = n

RegistrationSound(r) ==
  /\ r \in users => pc[r] # "absent"
  /\ otp[r] # "none" => r \in users
  /\ pc[r] \in {"absent", "findUser", "addUser", "createOtp"} => otp[r] = "none"
  /\ pc[r] = "createOtp" => r \in users

(* What the await a verification is suspended at says of its code.         *)
VerificationSound(v) ==
  /\ began[v] <= clock
  /\ pc[v] \in {"compare", "expire", "markUsed"} => CodeFor(held[v], phone[v])
  /\ pc[v] \in {"findUsed", "markUsed", "updateUser"} =>
       CodeFor(code[v], phone[v]) /\ expiresAt[code[v]] >= began[v]
  /\ pc[v] = "updateUser" /\ Calm => Spent(phone[v])
  /\ pc[v] \in {"storeToken", "handOver", "findWallet", "openWallet"} =>
       subject[v] \in users /\ (Calm => subject[v] \in verified)

VerifiedSound ==
  \A u \in verified :
    /\ Calm => Spent(form[u].phone)
    /\ \E v \in Verifications :
         Proves(v, u) /\ pc[v] # "absent" /\ otp[code[v]] # "none"

(* The frames of a transaction come and go in pairs, nothing is pending    *)
(* without one, and no transaction is left open unless starts, commits or  *)
(* rollbacks came between each other's awaits.                             *)
FramesSound ==
  /\ InTransaction => frames % 2 = 0
  /\ ~InTransaction => working = wallets
  /\ Calm => adrift = {}

OnboardingInv ==
  /\ SeederInv
  /\ TypeOK
  /\ \A r \in Registrations : RegistrationSound(r)
  /\ \A v \in Verifications : VerificationSound(v)
  /\ VerifiedSound
  /\ OnlyVerifiedBenefit
  /\ FramesSound

(* While nothing was refused, killed or interrupted, there is a pair of frames for each *)
(* request under way, and a verified user has a wallet or a request that   *)
(* is going to open it.                                                    *)
Clean == crashes = 0 /\ Calm /\ \A r \in Requests : reply[r] # "error"

Opening(v, u) ==
  /\ pc[v] \in {"storeToken", "handOver", "findWallet", "openWallet"}
  /\ subject[v] = u

WalletInv ==
  /\ IsFiniteSet(Running)
  /\ \A r \in Requests : reply[r] # "none" => pc[r] = "done"
  /\ Clean =>
       /\ frames = 2 * Cardinality(Running)
       /\ \A u \in verified : HasWallet(u) \/ \E v \in Verifications : Opening(v, u)

-----------------------------------------------------------------------------
(* Seeder.                                                                 *)

(* Every step of a start keeps what is said of it.                         *)
LEMMA SeederStarts == SeederInit => SeederInv
BY SeederAssumption
   DEF SeederInit, SeederInv, SeederTypeOK, FailsOnce, SeededSoFar, Untouched, Phases, Stages

LEMMA RolesSeeded ==
  ASSUME SeederInv, StartUp \/ CheckTables \/ MakeRole \/ GrantPermissions
  PROVE  SeederInv'
<1>1. CASE StartUp
  BY <1>1 DEF SeederInv, SeederTypeOK, FailsOnce, SeededSoFar, Untouched, Phases, Stages,
              StartUp
<1>2. CASE CheckTables
  BY <1>2 DEF SeederInv, SeederTypeOK, FailsOnce, SeededSoFar, Untouched, Phases, Stages,
              CheckTables
<1>3. CASE MakeRole
  BY <1>3 DEF SeederInv, SeederTypeOK, FailsOnce, SeededSoFar, Untouched, Phases, Stages,
              MakeRole
<1>4. CASE GrantPermissions
  BY <1>4 DEF SeederInv, SeederTypeOK, FailsOnce, SeededSoFar, Untouched, Phases, Stages,
              GrantPermissions
<1> QED  BY <1>1, <1>2, <1>3, <1>4

LEMMA CountriesSeeded ==
  ASSUME SeederInv, NEW c \in Countries, FindSeedCountry(c) \/ AddCountry(c)
  PROVE  SeederInv'
<1>1. CASE FindSeedCountry(c)
  BY <1>1 DEF SeederInv, SeederTypeOK, FailsOnce, SeededSoFar, Untouched, Phases, Stages,
              FindSeedCountry, At, Advance, CountryStored
<1>2. CASE AddCountry(c)
  BY <1>2 DEF SeederInv, SeederTypeOK, FailsOnce, SeededSoFar, Untouched, Phases, Stages,
              AddCountry, At, Advance
<1> QED  BY <1>1, <1>2

LEMMA CurrenciesSeeded ==
  ASSUME SeederInv, NEW c \in Countries, FindSeedCurrency(c) \/ AddCurrency(c)
  PROVE  SeederInv'
<1>1. CASE FindSeedCurrency(c)
  BY <1>1 DEF SeederInv, SeederTypeOK, FailsOnce, SeededSoFar, Untouched, Phases, Stages,
              FindSeedCurrency, At, Advance, CurrencyStored
<1>2. CASE AddCurrency(c)
  BY <1>2 DEF SeederInv, SeederTypeOK, FailsOnce, SeededSoFar, Untouched, Phases, Stages,
              AddCurrency, At, Advance
<1> QED  BY <1>1, <1>2

(* Both Promise.all wait for everything they started.                      *)
LEMMA SeedingAdvances ==
  ASSUME SeederInv, CountriesDone \/ Listen \/ Killed
  PROVE  SeederInv'
<1>1. CASE CountriesDone
  BY <1>1 DEF SeederInv, SeederTypeOK, FailsOnce, SeededSoFar, Untouched, Phases, Stages,
              CountriesDone, At
<1>2. CASE Listen
  BY <1>2 DEF SeederInv, SeederTypeOK, FailsOnce, SeededSoFar, Untouched, Phases, Stages,
              Listen, At
<1>3. CASE Killed
  BY <1>3, SeederAssumption
     DEF SeederInv, SeederTypeOK, FailsOnce, Phases, Stages, Killed
<1> QED  BY <1>1, <1>2, <1>3

LEMMA SeederStep ==
  ASSUME SeederInv, SeedingStep \/ Killed \/ UNCHANGED seederVars
  PROVE  SeederInv'
<1>1. CASE UNCHANGED seederVars
  BY <1>1 DEF seederVars, SeederInv, SeederTypeOK, FailsOnce, SeededSoFar, Untouched
<1> QED  BY <1>1, RolesSeeded, CountriesSeeded, CurrenciesSeeded, SeedingAdvances
         DEF SeedingStep

(* What a step of the whole program does to the seeder's state.            *)
LEMMA StepsOfSeeder ==
  ASSUME [Next]_vars
  PROVE  SeedingStep \/ Killed \/ UNCHANGED seederVars
BY DEF Next, vars, Seed, Kill, Tick, Registering, Verifying, Register, Receive, FindUser,
       AddUser, CreateOtp, KeepRegister, Verify, FindOtp, Compare, Expire, FindUsed, MarkUsed,
       UpdateUser, StoreToken, HandOver, FindWallet, OpenWallet, KeepVerify, KeepOpening,
       Finish, AwaitThrows, Interfere

(* Whatever was stored by starts that failed or were killed, a start adds  *)
(* to it in the order of onModuleInit (seeder.service.ts).                 *)
THEOREM SeederSound == Spec => []SeederInv
<1>1. Init => SeederInv
  BY SeederStarts DEF Init
<1>2. SeederInv /\ [Next]_vars => SeederInv'
  BY SeederStep, StepsOfSeeder
<1> QED  BY <1>1, <1>2, PTL DEF Spec

(* A start that finds its tables empty fails, and no later one does: the   *)
(* role it leaves behind lets them through (seeder.service.ts:240).        *)
THEOREM StartFailsOnce == Spec => []FailsOnce
<1>1. SeederInv => FailsOnce
  BY DEF SeederInv
<1> QED  BY <1>1, SeederSound, PTL

(* A server that was never killed has all countries and currencies when it *)
(* listens, in whatever order they were found and added.                   *)
THEOREM SeededWhenListening == Spec => []SeededUnlessKilled
<1>1. SeederInv => SeededUnlessKilled
  BY DEF SeederInv, SeededSoFar, SeededUnlessKilled
<1> QED  BY <1>1, SeederSound, PTL

-----------------------------------------------------------------------------
(* Onboarding: what every step keeps.                                      *)

(* What is stored stays, and a code that is no longer active stays so.     *)
Forward ==
  /\ clock <= clock' /\ (Calm' => Calm)
  /\ users \subseteq users'
  /\ \A o \in users : form'[o] = form[o]
  /\ \A o \in Registrations :
       /\ otp[o] # "none" => otp'[o] # "none" /\ expiresAt'[o] = expiresAt[o]
       /\ otp[o] = "inactive" => otp'[o] = "inactive"

(* The other verifications stay where they are, or are over.               *)
Stays(v) ==
  /\ phone'[v] = phone[v] /\ code'[v] = code[v] /\ began'[v] = began[v]
  /\ \/ pc'[v] = pc[v] /\ held'[v] = held[v] /\ subject'[v] = subject[v]
     \/ pc[v] # "absent" /\ pc'[v] = "done"

(* What a verification rests on outlasts the steps of others.              *)
LEMMA VerificationStays ==
  ASSUME TypeOK, TypeOK', Forward, verified \subseteq verified',
         NEW v \in Verifications, Stays(v), VerificationSound(v)
  PROVE  VerificationSound(v)'
<1>1. \A o, n : CodeFor(o, n) => CodeFor(o, n)'
  BY DEF CodeFor, Forward, TypeOK
<1>2. \A n : Spent(n) => Spent(n)'
  BY DEF Spent, Forward, TypeOK
<1>3. \A o, n : CodeFor(o, n) => o \in Registrations /\ expiresAt'[o] = expiresAt[o]
  BY DEF CodeFor, Forward, TypeOK
<1>4. clock \in Int /\ clock' \in Int /\ began[v] \in Int
  BY DEF TypeOK
<1> QED  BY <1>1, <1>2, <1>3, <1>4 DEF VerificationSound, Stays, Forward

(* A verification that has begun does not begin again, so that it stays    *)
(* the witness of those it verified.                                       *)
Begun(v) ==
  pc[v] # "absent" =>
    pc'[v] # "absent" /\ phone'[v] = phone[v] /\ code'[v] = code[v] /\ began'[v] = began[v]

(* So does the proof of those who are verified.                            *)
LEMMA VerifiedStay ==
  ASSUME TypeOK, TypeOK', Forward, UNCHANGED verified, VerifiedSound,
         \A v \in Verifications : Begun(v)
  PROVE  VerifiedSound'
<1>1. SUFFICES ASSUME NEW u \in verified
               PROVE  /\ (Calm => Spent(form[u].phone))'
                      /\ \E v \in Verifications :
                           (Proves(v, u) /\ pc[v] # "absent" /\ otp[code[v]] # "none")'
  BY DEF VerifiedSound
<1>2. u \in users /\ form'[u] = form[u] /\ (Calm => Spent(form[u].phone))
  BY DEF TypeOK, Forward, VerifiedSound
<1>3. (Calm => Spent(form[u].phone))'
  BY <1>2 DEF Spent, Forward, TypeOK
<1>4. PICK v \in Verifications : Proves(v, u) /\ pc[v] # "absent" /\ otp[code[v]] # "none"
  BY DEF VerifiedSound
<1>5. Begun(v) /\ code[v] \in users /\ code[v] \in Registrations
  BY <1>4 DEF Proves, TypeOK
<1>6. (Proves(v, u) /\ pc[v] # "absent" /\ otp[code[v]] # "none")'
  BY <1>2, <1>4, <1>5 DEF Begun, Proves, Forward
<1> QED  BY <1>3, <1>6

(* The steps that verify nobody, given what they do to the one they move.  *)
LEMMA StepSound ==
  ASSUME OnboardingInv, NEW r \in Requests,
         SeederInv', TypeOK', Forward, UNCHANGED verified,
         \A x \in Registrations : RegistrationSound(x)',
         \A v \in Verifications \ {r} : Stays(v),
         r \in Verifications => VerificationSound(r)' /\ Begun(r),
         OnlyVerifiedBenefit', FramesSound'
  PROVE  OnboardingInv'
<1>1. \A v \in Verifications : VerificationSound(v)'
  BY VerificationStays DEF OnboardingInv
<1>2. \A v \in Verifications : Begun(v)
  BY DEF Stays, Begun
<1> QED  BY <1>1, <1>2, VerifiedStay DEF OnboardingInv

(* The unit of work of a step that leaves it and the verified alone.       *)
LEMMA SameWallets ==
  ASSUME OnboardingInv, UNCHANGED unitOfWork, UNCHANGED <<verified, tokens>>
  PROVE  OnlyVerifiedBenefit' /\ FramesSound'
BY DEF OnboardingInv, OnlyVerifiedBenefit, FramesSound, InTransaction, unitOfWork

(* A handler that throws, wherever it is.                                  *)
LEMMA FailSound ==
  ASSUME OnboardingInv, NEW r \in Requests, Fail(r), pc[r] # "absent",
         UNCHANGED <<seederVars, clock, inputs, users, verified, tokens, expiresAt>>,
         UNCHANGED otp \/ \E o \in users : otp[o] # "none" /\ Deactivate(o)
  PROVE  OnboardingInv'
<1>1. SeederInv' /\ SeederTypeOK'
  BY SeederStep DEF OnboardingInv, SeederInv
<1>2. TypeOK'
  BY <1>1 DEF OnboardingInv, TypeOK, Fail, Answer, Goto, Hold, Deactivate, inputs, PCs
<1>3. Forward
  BY DEF Forward, OnboardingInv, TypeOK, Deactivate, inputs, Fail
<1>4. \A x \in Registrations : RegistrationSound(x)'
  BY DEF OnboardingInv, TypeOK, RegistrationSound, Fail, Answer, Goto, Deactivate
<1>5. \A v \in Verifications : Stays(v) /\ Begun(v)
  BY DEF Stays, Begun, OnboardingInv, TypeOK, Fail, Answer, Goto, Hold, inputs, Requests
<1>6. r \in Verifications => VerificationSound(r)'
  BY <1>2, <1>3, <1>5, VerificationStays DEF OnboardingInv
<1>7. OnlyVerifiedBenefit' /\ FramesSound'
  BY DEF OnboardingInv, OnlyVerifiedBenefit, FramesSound, InTransaction, Fail, TypeOK
<1> QED  BY <1>1, <1>2, <1>3, <1>4, <1>5, <1>6, <1>7, StepSound

-----------------------------------------------------------------------------
(* Onboarding: each action.                                                *)

(* A request arrives, with two frames of the transaction.                  *)
LEMMA ReceiveSound ==
  ASSUME OnboardingInv, NEW r \in Requests,
         \/ r \in Registrations /\ Register(r)
         \/ r \in Verifications /\ Verify(r)
  PROVE  OnboardingInv'
<1>1. /\ pc[r] = "absent" /\ frames' = (IF InTransaction THEN frames + 2 ELSE 2)
      /\ UNCHANGED <<seederVars, clock, tables, wallets, working, aside, held, subject, reply>>
  BY DEF Register, Verify, Receive
<1>2. SeederInv' /\ SeederTypeOK'
  BY <1>1, SeederStep DEF OnboardingInv, SeederInv
<1>3. frames \in Int /\ frames' \in Int /\ InTransaction'
  BY <1>1 DEF OnboardingInv, TypeOK, InTransaction
<1>4. InTransaction => frames % 2 = 0
  BY DEF OnboardingInv, FramesSound
<1>5. frames' % 2 = 0
  BY <1>1, <1>3, <1>4
<1>6. OnlyVerifiedBenefit' /\ FramesSound'
  BY <1>1, <1>3, <1>5 DEF OnboardingInv, OnlyVerifiedBenefit, FramesSound, tables
<1>7. CASE r \in Registrations /\ Register(r)
  <2>1. PICK f \in Forms : form' = [form EXCEPT ![r] = f]
    BY <1>7 DEF Register
  <2>2. Goto(r, "findUser") /\ r \in Registrations /\ r \notin Verifications
        /\ UNCHANGED <<phone, code, began>>
    BY <1>7, OnboardingAssumption DEF Register, Receive
  <2>3. TypeOK'
    BY <1>1, <1>2, <1>3, <2>1, <2>2 DEF OnboardingInv, TypeOK, Goto, PCs, tables
  <2>4. r \notin users /\ otp[r] = "none"
    BY <1>1, <2>2 DEF OnboardingInv, RegistrationSound
  <2>5. Forward
    BY <1>1, <2>1, <2>2, <2>4 DEF Forward, OnboardingInv, TypeOK, tables
  <2>6. \A x \in Registrations : RegistrationSound(x)'
    BY <1>1, <2>2, <2>4 DEF OnboardingInv, TypeOK, RegistrationSound, Goto, tables
  <2>7. \A v \in Verifications \ {r} : Stays(v)
    BY <1>1, <2>2 DEF Stays, OnboardingInv, TypeOK, Goto, Requests
  <2> QED  BY <1>1, <1>2, <1>6, <2>2, <2>3, <2>5, <2>6, <2>7, StepSound DEF tables
<1>8. CASE r \in Verifications /\ Verify(r)
  <2>1. PICK p \in Phones, c \in Registrations :
          phone' = [phone EXCEPT ![r] = p] /\ code' = [code EXCEPT ![r] = c]
    BY <1>8 DEF Verify
  <2>2. Goto(r, "findOtp") /\ r \in Verifications /\ r \notin Registrations
        /\ began' = [began EXCEPT ![r] = clock] /\ UNCHANGED form
    BY <1>8, OnboardingAssumption DEF Verify, Receive
  <2>3. TypeOK'
    BY <1>1, <1>2, <1>3, <2>1, <2>2 DEF OnboardingInv, TypeOK, Goto, PCs, tables
  <2>4. Forward
    BY <1>1, <2>1, <2>2 DEF Forward, OnboardingInv, TypeOK, tables
  <2>5. \A x \in Registrations : RegistrationSound(x)'
    BY <1>1, <2>2 DEF OnboardingInv, TypeOK, RegistrationSound, Goto, tables
  <2>6. \A v \in Verifications \ {r} : Stays(v)
    BY <1>1, <2>1, <2>2 DEF Stays, OnboardingInv, TypeOK, Goto, Requests
  <2>7. VerificationSound(r)' /\ Begun(r)
    BY <1>1, <2>2 DEF VerificationSound, Begun, OnboardingInv, TypeOK, Goto
  <2> QED  BY <1>1, <1>2, <1>6, <2>2, <2>3, <2>4, <2>5, <2>6, <2>7, StepSound DEF tables
<1> QED  BY <1>7, <1>8

(* A registration moves on, and its rows are written.                      *)
LEMMA RegistrationMoves ==
  ASSUME OnboardingInv, NEW r \in Registrations, NEW p \in PCs, Continue(r, p),
         KeepRegister, UNCHANGED <<held, subject>>, pc[r] # "absent", p # "absent",
         users' = users \cup {r} \/ UNCHANGED users,
         \/ UNCHANGED <<otp, expiresAt>> /\ (otp[r] = "none" \/ p = "finish")
         \/ otp[r] = "none" /\ r \in users /\ p = "finish" /\ IssueOtp(r),
         p = "createOtp" => r \in users'
  PROVE  OnboardingInv'
<1>1. SeederInv' /\ SeederTypeOK' /\ r \in Requests /\ r \notin Verifications
  BY SeederStep, OnboardingAssumption DEF OnboardingInv, SeederInv, KeepRegister, Requests
<1>2. TypeOK'
  BY <1>1, OnboardingAssumption
     DEF OnboardingInv, TypeOK, Continue, Goto, IssueOtp, KeepRegister, inputs, unitOfWork
<1>3. Forward
  BY DEF Forward, OnboardingInv, TypeOK, KeepRegister, IssueOtp, inputs, Continue, unitOfWork
<1>4. \A x \in Registrations : RegistrationSound(x)'
  BY <1>1 DEF OnboardingInv, TypeOK, RegistrationSound, Continue, Goto, IssueOtp
<1>5. \A v \in Verifications \ {r} : Stays(v)
  BY <1>1 DEF Stays, OnboardingInv, TypeOK, Continue, Goto, KeepRegister, inputs
<1>6. OnlyVerifiedBenefit' /\ FramesSound'
  BY SameWallets DEF Continue, KeepRegister
<1> QED  BY <1>1, <1>2, <1>3, <1>4, <1>5, <1>6, StepSound DEF KeepRegister

LEMMA RegisteringSound ==
  ASSUME OnboardingInv, NEW r \in Registrations, FindUser(r) \/ AddUser(r) \/ CreateOtp(r)
  PROVE  OnboardingInv'
<1>1. r \in Requests /\ RegistrationSound(r)
  BY DEF Requests, OnboardingInv
<1>2. CASE FindUser(r)
  BY <1>1, <1>2, FailSound, RegistrationMoves
     DEF FindUser, KeepRegister, RegistrationSound, PCs
<1>3. CASE AddUser(r)
  <2>1. CASE Fail(r) /\ UNCHANGED users
    BY <1>1, <1>3, <2>1, FailSound DEF AddUser, KeepRegister
  <2>2. CASE Continue(r, "createOtp") /\ users' = users \cup {r} /\ UNCHANGED <<held, subject>>
    <3>1. /\ KeepRegister /\ UNCHANGED <<otp, expiresAt>> /\ pc[r] # "absent"
          /\ otp[r] = "none" /\ "createOtp" \in PCs /\ r \in users'
      BY <1>1, <1>3, <2>2 DEF AddUser, RegistrationSound, PCs
    <3> QED  BY <2>2, <3>1, RegistrationMoves
  <2> QED  BY <1>3, <2>1, <2>2 DEF AddUser
<1>4. CASE CreateOtp(r)
  <2>1. /\ KeepRegister /\ Continue(r, "finish") /\ IssueOtp(r) /\ pc[r] # "absent"
        /\ UNCHANGED <<users, held, subject>> /\ otp[r] = "none" /\ r \in users
        /\ "finish" \in PCs
    BY <1>1, <1>4 DEF CreateOtp, SendSMS, RegistrationSound, PCs
  <2> QED  BY <2>1, RegistrationMoves
<1> QED  BY <1>2, <1>3, <1>4

(* A verification moves on, with what its next await is to rest on.        *)
LEMMA VerificationMoves ==
  ASSUME OnboardingInv, NEW v \in Verifications, NEW p \in PCs, Continue(v, p),
         KeepVerify, UNCHANGED <<verified, tokens>>,
         pc[v] # "absent", p # "absent",
         UNCHANGED otp \/ \E o \in users : otp[o] # "none" /\ Deactivate(o),
         NEW h \in Registrations \cup {Nothing}, Hold(v, h), UNCHANGED subject,
         VerificationSound(v)'
  PROVE  OnboardingInv'
<1>1. SeederInv' /\ SeederTypeOK' /\ v \in Requests /\ v \notin Registrations
  BY SeederStep, OnboardingAssumption DEF OnboardingInv, SeederInv, KeepVerify, Requests
<1>2. TypeOK'
  BY <1>1 DEF OnboardingInv, TypeOK, Continue, Goto, Hold, Deactivate, KeepVerify, inputs,
              unitOfWork
<1>3. Forward
  BY DEF Forward, OnboardingInv, TypeOK, KeepVerify, Deactivate, inputs, Continue, unitOfWork
<1>4. \A x \in Registrations : RegistrationSound(x)'
  BY <1>1 DEF OnboardingInv, TypeOK, RegistrationSound, Continue, Goto, Deactivate, KeepVerify
<1>5. (\A w \in Verifications \ {v} : Stays(w)) /\ Begun(v)
  BY <1>1 DEF Stays, Begun, OnboardingInv, TypeOK, Continue, Goto, Hold, KeepVerify, inputs,
              Requests
<1>6. OnlyVerifiedBenefit' /\ FramesSound'
  BY SameWallets DEF Continue
<1> QED  BY <1>1, <1>2, <1>3, <1>4, <1>5, <1>6, StepSound

(* Looking a code up and comparing it.                                     *)
LEMMA CheckingSound ==
  ASSUME OnboardingInv, NEW v \in Verifications, FindOtp(v) \/ Compare(v) \/ Expire(v)
  PROVE  OnboardingInv'
<1>1. v \in Requests /\ VerificationSound(v) /\ held[v] \in Registrations \cup {Nothing}
  BY DEF Requests, OnboardingInv, TypeOK
<1>2. CASE FindOtp(v)
  <2>1. CASE Fail(v)
    BY <1>1, <1>2, <2>1, FailSound DEF FindOtp, KeepVerify
  <2>2. CASE \E o \in ActiveCodes(v) : Hold(v, o) /\ Continue(v, "compare") /\ UNCHANGED subject
    <3>1. PICK o \in ActiveCodes(v) : Hold(v, o)
      BY <2>2
    <3>2. KeepVerify /\ UNCHANGED <<verified, otp, tokens>> /\ pc[v] # "absent"
          /\ "compare" \in PCs /\ o \in Registrations /\ CodeFor(o, phone[v])
      BY <1>2 DEF FindOtp, PCs, ActiveCodes, CodeFor, OnboardingInv, RegistrationSound
    <3>3. VerificationSound(v)'
      BY <1>1, <2>2, <3>1, <3>2
         DEF VerificationSound, CodeFor, Continue, Goto, Hold, KeepVerify, inputs,
             OnboardingInv, TypeOK
    <3> QED  BY <2>2, <3>1, <3>2, <3>3, VerificationMoves
  <2> QED  BY <1>2, <2>1, <2>2 DEF FindOtp
<1>3. CASE Compare(v)
  <2>1. /\ KeepVerify /\ UNCHANGED <<verified, otp, tokens>> /\ pc[v] = "compare"
        /\ "expire" \in PCs /\ "findUsed" \in PCs /\ CodeFor(held[v], phone[v])
        /\ held[v] \in Registrations
    BY <1>1, <1>3 DEF Compare, PCs, VerificationSound, CodeFor, OnboardingInv, TypeOK
  <2>2. CASE Fail(v)
    BY <1>1, <2>1, <2>2, FailSound DEF KeepVerify
  <2>3. CASE Continue(v, "expire") /\ UNCHANGED <<held, subject>>
    <3>1. Hold(v, held[v])
      BY <2>3 DEF Hold, OnboardingInv, TypeOK
    <3>2. VerificationSound(v)'
      BY <1>1, <2>1, <2>3
         DEF VerificationSound, CodeFor, Continue, Goto, KeepVerify, inputs,
             OnboardingInv, TypeOK
    <3> QED  BY <1>1, <2>1, <2>3, <3>1, <3>2, VerificationMoves
  <2>4. CASE /\ Matches(v) /\ ~Late(v)
             /\ Continue(v, "findUsed") /\ Hold(v, Nothing) /\ UNCHANGED subject
    <3>1. expiresAt[code[v]] >= began[v]
      BY <1>1, <2>1, <2>4 DEF Matches, Late, VerificationSound, OnboardingInv, TypeOK
    <3>2. VerificationSound(v)'
      BY <1>1, <2>1, <2>4, <3>1
         DEF VerificationSound, CodeFor, Matches, Continue, Goto, KeepVerify, inputs,
             OnboardingInv, TypeOK
    <3> QED  BY <2>1, <2>4, <3>2, VerificationMoves
  <2> QED  BY <1>3, <2>2, <2>3, <2>4 DEF Compare
<1>4. CASE Expire(v)
  BY <1>1, <1>4, FailSound DEF Expire, KeepVerify, VerificationSound, CodeFor
<1> QED  BY <1>2, <1>3, <1>4

(* Looking it up again, and deactivating what is found.                    *)
LEMMA SpendingSound ==
  ASSUME OnboardingInv, NEW v \in Verifications, FindUsed(v) \/ MarkUsed(v)
  PROVE  OnboardingInv'
<1>1. v \in Requests /\ VerificationSound(v) /\ held[v] \in Registrations \cup {Nothing}
  BY DEF Requests, OnboardingInv, TypeOK
<1>2. /\ KeepVerify /\ UNCHANGED <<verified, tokens, subject>> /\ pc[v] # "absent"
      /\ CodeFor(code[v], phone[v]) /\ code[v] \in Registrations
  BY <1>1 DEF FindUsed, MarkUsed, VerificationSound, CodeFor, OnboardingInv, TypeOK
<1>3. CASE FindUsed(v)
  <2>1. pc[v] = "findUsed" /\ UNCHANGED otp /\ "updateUser" \in PCs /\ "markUsed" \in PCs
    BY <1>3 DEF FindUsed, PCs
  <2>2. CASE ActiveCodes(v) = {} /\ Continue(v, "updateUser") /\ UNCHANGED held
    <3>1. Hold(v, held[v])
      BY <2>2 DEF Hold, OnboardingInv, TypeOK
    <3>2. otp[code[v]] = "inactive"
      BY <1>2, <2>2 DEF ActiveCodes, CodeFor, OnboardingInv, TypeOK
    <3>3. VerificationSound(v)'
      BY <1>1, <1>2, <2>1, <2>2, <3>2
         DEF VerificationSound, CodeFor, Spent, Continue, Goto, KeepVerify, inputs,
             OnboardingInv, TypeOK
    <3> QED  BY <1>1, <1>2, <2>1, <2>2, <3>1, <3>3, VerificationMoves
  <2>3. CASE \E o \in ActiveCodes(v) : Hold(v, o) /\ Continue(v, "markUsed")
    <3>1. PICK o \in ActiveCodes(v) : Hold(v, o)
      BY <2>3
    <3>2. o \in Registrations /\ CodeFor(o, phone[v])
      BY DEF ActiveCodes, CodeFor, OnboardingInv, RegistrationSound
    <3>3. VerificationSound(v)'
      BY <1>1, <1>2, <2>1, <2>3, <3>1, <3>2
         DEF VerificationSound, CodeFor, Continue, Goto, Hold, KeepVerify, inputs,
             OnboardingInv, TypeOK
    <3> QED  BY <1>2, <2>1, <2>3, <3>1, <3>2, <3>3, VerificationMoves
  <2> QED  BY <1>3, <2>2, <2>3 DEF FindUsed
<1>4. CASE MarkUsed(v)
  <2>1. /\ pc[v] = "markUsed" /\ Deactivate(held[v]) /\ Hold(v, Nothing)
        /\ Continue(v, "updateUser") /\ "updateUser" \in PCs
    BY <1>4 DEF MarkUsed, PCs
  <2>2. CodeFor(held[v], phone[v]) /\ held[v] \in users /\ otp[held[v]] # "none"
        /\ held[v] \in Registrations
    BY <1>1, <2>1 DEF VerificationSound, CodeFor, OnboardingInv, TypeOK
  <2>3. VerificationSound(v)'
    BY <1>1, <1>2, <2>1, <2>2
       DEF VerificationSound, CodeFor, Spent, Deactivate, Continue, Goto, KeepVerify, inputs,
           OnboardingInv, TypeOK, FramesSound, unitOfWork
  <2> QED  BY <1>2, <2>1, <2>2, <2>3, VerificationMoves
<1> QED  BY <1>3, <1>4

(* The one step that verifies: the code in the request is its proof.       *)
LEMMA UpdateUserSound ==
  ASSUME OnboardingInv, NEW v \in Verifications, UpdateUser(v)
  PROVE  OnboardingInv'
<1>1. v \in Requests /\ VerificationSound(v) /\ v \notin Registrations
  BY OnboardingAssumption DEF Requests, OnboardingInv
<1>2. pc[v] = "updateUser" /\ KeepVerify /\ UNCHANGED <<otp, tokens>>
  BY DEF UpdateUser
<1>3. CASE Fail(v) /\ UNCHANGED verified
  BY <1>1, <1>2, <1>3, FailSound DEF KeepVerify
<1>4. CASE /\ \E u \in UsersOf(v) : /\ GiveRole(u)
                                    /\ subject' = [subject EXCEPT ![v] = u]
           /\ Continue(v, "storeToken") /\ UNCHANGED held
  <2>1. PICK u \in UsersOf(v) : /\ GiveRole(u)
                                /\ subject' = [subject EXCEPT ![v] = u]
    BY <1>4
  <2>2. /\ verified' = verified \cup {u} \/ UNCHANGED verified
        /\ Calm => verified' = verified \cup {u}
        /\ UNCHANGED unitOfWork /\ Goto(v, "storeToken")
    BY <1>4, <2>1 DEF GiveRole, OnboardingInv, FramesSound, Continue
  <2>3. u \in users /\ form[u].phone = phone[v] /\ u \in Registrations
    BY DEF UsersOf, OnboardingInv, TypeOK
  <2>4. SeederInv' /\ SeederTypeOK'
    BY <1>2, SeederStep DEF OnboardingInv, SeederInv, KeepVerify
  <2>5. TypeOK'
    BY <1>1, <1>2, <1>4, <2>1, <2>2, <2>3, <2>4
       DEF OnboardingInv, TypeOK, Continue, Goto, KeepVerify, inputs, unitOfWork, PCs
  <2>6. Forward
    BY <1>2, <2>2 DEF Forward, OnboardingInv, TypeOK, KeepVerify, inputs, unitOfWork
  <2>7. \A x \in Registrations : RegistrationSound(x)'
    BY <1>1, <1>2, <1>4
       DEF OnboardingInv, TypeOK, RegistrationSound, Continue, Goto, KeepVerify
  <2>8. (\A w \in Verifications \ {v} : Stays(w)) /\ \A w \in Verifications : Begun(w)
    BY <1>1, <1>2, <1>4, <2>1
       DEF Stays, Begun, OnboardingInv, TypeOK, Continue, Goto, KeepVerify, inputs, Requests
  <2>9. VerificationSound(v)'
    BY <1>1, <1>2, <1>4, <2>1, <2>3, <2>2
       DEF VerificationSound, Goto, KeepVerify, inputs, OnboardingInv, TypeOK, unitOfWork
  <2>10. \A w \in Verifications : VerificationSound(w)'
    BY <2>2, <2>5, <2>6, <2>8, <2>9, VerificationStays DEF OnboardingInv
  <2>11. VerifiedSound'
    <3> SUFFICES ASSUME NEW x \in verified'
                 PROVE  /\ (Calm => Spent(form[x].phone))'
                        /\ \E w \in Verifications :
                             (Proves(w, x) /\ pc[w] # "absent" /\ otp[code[w]] # "none")'
      BY DEF VerifiedSound
    <3>1. UNCHANGED <<users, form, phone, code, began, expiresAt, otp, interruptions>>
      BY <1>2, <2>2 DEF KeepVerify, inputs, unitOfWork
    <3>2. CASE x \in verified
      BY <2>8, <3>1, <3>2 DEF OnboardingInv, VerifiedSound, Spent, Proves, Begun
    <3>3. CASE x = u
      <4>1. (Calm => Spent(form[x].phone))'
        BY <1>1, <1>2, <2>3, <3>1, <3>3 DEF VerificationSound, Spent
      <4>2. (Proves(v, x) /\ pc[v] # "absent" /\ otp[code[v]] # "none")'
        BY <1>1, <1>2, <2>3, <2>8, <3>1, <3>3 DEF VerificationSound, CodeFor, Proves, Begun
      <4> QED  BY <4>1, <4>2
    <3> QED  BY <2>2, <3>2, <3>3
  <2>12. OnlyVerifiedBenefit' /\ FramesSound'
    BY <1>2, <2>2
       DEF OnboardingInv, OnlyVerifiedBenefit, FramesSound, InTransaction, Continue, unitOfWork
  <2> QED  BY <2>4, <2>5, <2>7, <2>10, <2>11, <2>12 DEF OnboardingInv
<1> QED  BY <1>3, <1>4 DEF UpdateUser

(* The steps after it carry the verified user from place to place.         *)
LEMMA SubjectMoves ==
  ASSUME OnboardingInv, NEW v \in Verifications, NEW p \in PCs, Goto(v, p),
         pc[v] \in {"storeToken", "handOver", "findWallet", "openWallet"},
         p \in {"handOver", "findWallet", "openWallet", "finish"},
         KeepVerify, UNCHANGED <<verified, otp, held, subject, reply, frames, interruptions>>,
         UNCHANGED tokens \/ tokens' = tokens \cup {subject[v]},
         \/ UNCHANGED <<wallets, working, adrift>>
         \/ /\ working' = working \cup {[by |-> v, user |-> subject[v]]}
            /\ wallets' = IF InTransaction THEN wallets ELSE working'
            /\ UNCHANGED adrift
         \/ /\ \E t \in adrift :
                 adrift' = (adrift \ {t}) \cup {t \cup {[by |-> v, user |-> subject[v]]}}
            /\ UNCHANGED <<wallets, working>>
  PROVE  OnboardingInv'
<1>1. SeederInv' /\ SeederTypeOK' /\ v \in Requests /\ v \notin Registrations
  BY SeederStep, OnboardingAssumption DEF OnboardingInv, SeederInv, KeepVerify, Requests
<1>2. (Calm => subject[v] \in verified) /\ subject[v] \in Registrations
  BY DEF OnboardingInv, VerificationSound, TypeOK
<1>3. [by |-> v, user |-> subject[v]] \in Wallet
  BY <1>2 DEF Wallet
<1>4. working' \in SUBSET Wallet /\ wallets' \in SUBSET Wallet /\ adrift' \in SUBSET (SUBSET Wallet)
  BY <1>3 DEF OnboardingInv, TypeOK
<1>5. TypeOK'
  BY <1>1, <1>2, <1>4 DEF OnboardingInv, TypeOK, Goto, KeepVerify, inputs
<1>6. Forward
  BY DEF Forward, OnboardingInv, TypeOK, KeepVerify, inputs
<1>7. \A x \in Registrations : RegistrationSound(x)'
  BY <1>1 DEF OnboardingInv, TypeOK, RegistrationSound, Goto, KeepVerify
<1>8. (\A w \in Verifications \ {v} : Stays(w)) /\ Begun(v)
  BY <1>1 DEF Stays, Begun, OnboardingInv, TypeOK, Goto, KeepVerify, inputs, Requests
<1>9. VerificationSound(v)'
  BY <1>1, <1>2
     DEF VerificationSound, Goto, KeepVerify, inputs, OnboardingInv, TypeOK
<1>10. OnlyVerifiedBenefit'
  BY <1>2 DEF OnboardingInv, OnlyVerifiedBenefit
<1>11. FramesSound'
  BY DEF OnboardingInv, FramesSound, InTransaction
<1> QED  BY <1>1, <1>5, <1>6, <1>7, <1>8, <1>9, <1>10, <1>11, StepSound

LEMMA OpeningSound ==
  ASSUME OnboardingInv, NEW v \in Verifications,
         StoreToken(v) \/ HandOver(v) \/ FindWallet(v) \/ OpenWallet(v)
  PROVE  OnboardingInv'
<1>1. v \in Requests /\ {"handOver", "findWallet", "openWallet", "finish"} \subseteq PCs
  BY DEF Requests, PCs
<1>2. CASE StoreToken(v)
  <2>1. /\ pc[v] = "storeToken" /\ tokens' = tokens \cup {subject[v]} /\ Goto(v, "handOver")
        /\ KeepVerify /\ UNCHANGED <<held, subject, verified, otp, reply, unitOfWork>>
    BY <1>2 DEF StoreToken, SendSMS, Continue
  <2> QED  BY <1>1, <2>1, SubjectMoves DEF unitOfWork
<1>3. CASE HandOver(v)
  <2>1. pc[v] = "handOver" /\ KeepVerify /\ UNCHANGED <<verified, otp, tokens>>
    BY <1>3 DEF HandOver, KeepOpening
  <2>2. CASE Fail(v)
    BY <1>1, <2>1, <2>2, FailSound DEF KeepVerify
  <2>3. CASE Continue(v, "findWallet") /\ UNCHANGED <<held, subject>>
    BY <1>1, <2>1, <2>3, SubjectMoves DEF Continue, unitOfWork
  <2> QED  BY <1>3, <2>2, <2>3 DEF HandOver
<1>4. CASE FindWallet(v)
  <2>1. /\ pc[v] = "findWallet" /\ KeepVerify /\ UNCHANGED <<verified, otp, tokens>>
        /\ Continue(v, IF HasWallet(subject[v]) THEN "finish" ELSE "openWallet")
        /\ UNCHANGED <<held, subject>>
    BY <1>4 DEF FindWallet, KeepOpening
  <2> QED  BY <1>1, <2>1, SubjectMoves DEF Continue, unitOfWork
<1>5. CASE OpenWallet(v)
  <2>1. /\ pc[v] = "openWallet" /\ Goto(v, "finish")
        /\ KeepVerify /\ UNCHANGED <<verified, otp, tokens>>
        /\ UNCHANGED <<frames, interruptions, reply, held, subject>>
    BY <1>5 DEF OpenWallet, KeepOpening
  <2>2. \/ /\ working' = working \cup {[by |-> v, user |-> subject[v]]}
           /\ wallets' = IF InTransaction THEN wallets ELSE working'
           /\ UNCHANGED adrift
        \/ /\ \E t \in adrift :
                adrift' = (adrift \ {t}) \cup {t \cup {[by |-> v, user |-> subject[v]]}}
           /\ UNCHANGED <<wallets, working>>
    BY <1>5 DEF OpenWallet
  <2> QED  BY <1>1, <2>1, <2>2, SubjectMoves
<1> QED  BY <1>2, <1>3, <1>4, <1>5

(* A pair of frames goes with the answer; the last one commits.            *)
LEMMA FinishSound ==
  ASSUME OnboardingInv, NEW r \in Requests, Finish(r)
  PROVE  OnboardingInv'
<1>1. pc[r] = "finish" /\ UNCHANGED <<seederVars, clock, tables, inputs>>
  BY DEF Finish
<1>2. CASE Fail(r)
  BY <1>1, <1>2, FailSound DEF tables
<1>3. CASE /\ InTransaction
           /\ frames' = frames - 2
           /\ wallets' = IF frames = 2 THEN working ELSE wallets
           /\ Answer(r, "ok")
           /\ UNCHANGED <<working, aside>>
  <2>1. SeederInv' /\ SeederTypeOK'
    BY <1>1, SeederStep DEF OnboardingInv, SeederInv
  <2>2. frames \in Int /\ frames > 0 /\ frames % 2 = 0
    BY <1>3 DEF OnboardingInv, TypeOK, InTransaction, FramesSound
  <2>3. frames' \in Int /\ frames' % 2 = 0 /\ frames' >= 0 /\ (frames' > 0 <=> frames # 2)
    BY <1>3, <2>2
  <2>4. TypeOK'
    BY <1>1, <1>3, <2>1, <2>3
       DEF OnboardingInv, TypeOK, Answer, Goto, Hold, tables, inputs, PCs
  <2>5. Forward
    BY <1>1, <1>3 DEF Forward, OnboardingInv, TypeOK, tables, inputs
  <2>6. \A x \in Registrations : RegistrationSound(x)'
    BY <1>1, <1>3 DEF OnboardingInv, TypeOK, RegistrationSound, Answer, Goto, tables
  <2>7. \A v \in Verifications : Stays(v) /\ Begun(v)
    BY <1>1, <1>3
       DEF Stays, Begun, OnboardingInv, TypeOK, Answer, Goto, Hold, inputs, Requests
  <2>8. r \in Verifications => VerificationSound(r)'
    BY <1>1, <2>4, <2>5, <2>7, VerificationStays DEF OnboardingInv, tables
  <2>9. OnlyVerifiedBenefit'
    BY <1>1, <1>3 DEF OnboardingInv, OnlyVerifiedBenefit, tables
  <2>10. FramesSound'
    BY <1>3, <2>2, <2>3 DEF OnboardingInv, FramesSound, InTransaction
  <2> QED  BY <1>1, <2>1, <2>4, <2>5, <2>6, <2>7, <2>8, <2>9, <2>10, StepSound DEF tables
<1> QED  BY <1>2, <1>3 DEF Finish

(* What Interfere makes of the views.                                      *)
LEMMA InterfereTypes ==
  ASSUME OnboardingInv, Interfere
  PROVE  /\ wallets' \in SUBSET Wallet /\ working' \in SUBSET Wallet
         /\ adrift' \in SUBSET (SUBSET Wallet)
         /\ frames' \in Int /\ (frames' > 0 => frames' % 2 = 0)
         /\ ~(frames' > 0) => working' = wallets'
         /\ interruptions' \in Nat /\ interruptions' # 0
<1> DEFINE open == adrift \cup {working \ wallets, {}}
<1>1. open \subseteq SUBSET Wallet /\ wallets \subseteq Wallet /\ interruptions \in Nat
  BY DEF OnboardingInv, TypeOK
<1>2. PICK committed \in open, named \in open :
        wallets' = wallets \cup committed /\ working' = wallets' \cup named
  BY DEF Interfere
<1>3. /\ adrift' \in SUBSET open /\ interruptions' = interruptions + 1
      /\ frames' \in {0, 2, 4} /\ (frames' = 0 => working' = wallets')
  BY DEF Interfere, Frames
<1>4. 0 % 2 = 0 /\ 2 % 2 = 0 /\ 4 % 2 = 0
  OBVIOUS
<1>5. frames' \in {0, 2, 4} /\ frames' \in Int
  BY <1>3
<1>6. frames' % 2 = 0
  <2>1. CASE frames' = 0
    BY <1>4, <2>1
  <2>2. CASE frames' = 2
    BY <1>4, <2>2
  <2>3. CASE frames' = 4
    BY <1>4, <2>3
  <2> QED  BY <1>5, <2>1, <2>2, <2>3
<1>7. ~(frames' > 0) => frames' = 0
  BY <1>5
<1>8. interruptions' \in Nat /\ interruptions' # 0
  BY <1>1, <1>3
<1> HIDE DEF open
<1>9. wallets' \in SUBSET Wallet
  BY <1>1, <1>2
<1>10. working' \in SUBSET Wallet
  BY <1>1, <1>2, <1>9
<1>11. adrift' \in SUBSET (SUBSET Wallet)
  BY <1>1, <1>3
<1> QED  BY <1>3, <1>5, <1>6, <1>8, <1>7, <1>9, <1>10, <1>11

(* A start, a kill, the clock and an interruption move no request on.      *)
LEMMA EnvironmentSound ==
  ASSUME OnboardingInv, Seed \/ Kill \/ Tick \/ Interfere
  PROVE  OnboardingInv'
<1>1. SeederInv' /\ SeederTypeOK'
  BY SeederStep DEF OnboardingInv, SeederInv, Seed, Kill, Tick, Interfere
<1>2. TypeOK'
  <2>1. CASE Seed
    BY <1>1, <2>1 DEF OnboardingInv, TypeOK, Seed, tables, requestVars, unitOfWork
  <2>2. CASE Kill
    BY <1>1, <2>2 DEF OnboardingInv, TypeOK, Kill, tables, inputs, Running, PCs
  <2>3. CASE Tick
    BY <1>1, <2>3, OnboardingAssumption
       DEF OnboardingInv, TypeOK, Tick, tables, requestVars, unitOfWork
  <2>4. CASE Interfere
    BY <1>1, <2>4, InterfereTypes
       DEF OnboardingInv, TypeOK, Interfere, tables, inputs
  <2> QED  BY <2>1, <2>2, <2>3, <2>4
<1>3. /\ UNCHANGED <<tables, inputs, reply>> /\ clock <= clock' /\ (Calm' => Calm)
      /\ \A r \in Requests : \/ pc'[r] = pc[r] /\ UNCHANGED <<held, subject>>
                             \/ pc[r] # "absent" /\ pc'[r] = "done"
                             \/ pc[r] = "absent" /\ pc'[r] = "absent"
  <2>1. CASE Seed
    BY <2>1 DEF Seed, tables, inputs, requestVars, unitOfWork, OnboardingInv, TypeOK
  <2>2. CASE Kill
    BY <2>2 DEF Kill, OnboardingInv, TypeOK, Running
  <2>3. CASE Tick
    BY <2>3 DEF Tick, tables, inputs, requestVars, unitOfWork, OnboardingInv, TypeOK
  <2>4. CASE Interfere
    BY <2>4 DEF Interfere, tables, inputs, OnboardingInv, TypeOK
  <2> QED  BY <2>1, <2>2, <2>3, <2>4
<1>4. Forward
  BY <1>3 DEF Forward, OnboardingInv, TypeOK, tables, inputs
<1>5. \A x \in Registrations : RegistrationSound(x)'
  BY <1>3 DEF OnboardingInv, RegistrationSound, tables, Requests
<1>6. \A v \in Verifications : Begun(v)
  BY <1>3 DEF Begun, inputs, Requests
<1>7. \A v \in Verifications : VerificationSound(v)'
  <2> SUFFICES ASSUME NEW v \in Verifications PROVE VerificationSound(v)'
    OBVIOUS
  <2>1. CASE pc[v] = "absent"
    BY <1>2, <1>3, <2>1 DEF VerificationSound, inputs, OnboardingInv, TypeOK, Requests
  <2>2. CASE pc[v] # "absent"
    <3>1. Stays(v)
      BY <1>3, <2>2 DEF Stays, inputs, Requests
    <3> QED  BY <1>2, <1>3, <1>4, <3>1, VerificationStays DEF OnboardingInv, tables
  <2> QED  BY <2>1, <2>2
<1>8. VerifiedSound'
  BY <1>2, <1>3, <1>4, <1>6, VerifiedStay DEF OnboardingInv, tables
<1>9. OnlyVerifiedBenefit' /\ FramesSound'
  <2>1. CASE Seed \/ Kill \/ Tick
    BY <1>3, <2>1
       DEF OnboardingInv, OnlyVerifiedBenefit, FramesSound, InTransaction, TypeOK, tables,
           Seed, Kill, Tick, requestVars, unitOfWork
  <2>2. CASE Interfere
    BY <2>2, InterfereTypes DEF OnboardingInv, OnlyVerifiedBenefit, FramesSound, InTransaction
  <2> QED  BY <2>1, <2>2
<1> QED  BY <1>1, <1>2, <1>5, <1>7, <1>8, <1>9 DEF OnboardingInv

LEMMA OnboardingStarts == Init => OnboardingInv
<1> SUFFICES ASSUME Init PROVE OnboardingInv
  OBVIOUS
<1>1. SeederInv /\ SeederTypeOK
  BY SeederStarts DEF Init, SeederInv
<1>2. TypeOK
  BY <1>1, OnboardingAssumption DEF Init, TypeOK, PCs
<1>3. /\ \A r \in Registrations : RegistrationSound(r)
      /\ \A v \in Verifications : VerificationSound(v)
  BY OnboardingAssumption DEF Init, RegistrationSound, VerificationSound, Requests
<1>4. VerifiedSound /\ OnlyVerifiedBenefit /\ FramesSound
  BY DEF Init, VerifiedSound, OnlyVerifiedBenefit, FramesSound
<1> QED  BY <1>1, <1>2, <1>3, <1>4 DEF OnboardingInv

LEMMA OnboardingStep == OnboardingInv /\ [Next]_vars => OnboardingInv'
<1> SUFFICES ASSUME OnboardingInv, [Next]_vars PROVE OnboardingInv'
  OBVIOUS
<1>1. CASE UNCHANGED vars
  BY <1>1, SeederStep
     DEF vars, tables, requestVars, inputs, unitOfWork, OnboardingInv, TypeOK, SeederInv,
         RegistrationSound, VerificationSound, CodeFor, Spent, VerifiedSound, Proves,
         OnlyVerifiedBenefit, FramesSound, InTransaction
<1>2. ASSUME NEW r \in Registrations, Registering(r) PROVE OnboardingInv'
  BY <1>2, ReceiveSound, RegisteringSound DEF Registering, Requests
<1>3. ASSUME NEW v \in Verifications, Verifying(v) PROVE OnboardingInv'
  BY <1>3, ReceiveSound, CheckingSound, SpendingSound, UpdateUserSound, OpeningSound
     DEF Verifying, Requests
<1>4. ASSUME NEW r \in Requests, AwaitThrows(r) PROVE OnboardingInv'
  BY <1>4, FailSound DEF AwaitThrows, Running, tables
<1> QED  BY <1>1, <1>2, <1>3, <1>4, FinishSound, EnvironmentSound DEF Next

(* Users, codes, tokens and wallets are what the requests under way say of *)
(* them, with requests overlapping, awaits failing and the process killed. *)
THEOREM OnboardingSound == Spec => []OnboardingInv
BY OnboardingStarts, OnboardingStep, PTL DEF Spec

(* The tables, the requests and what they carry keep their types.          *)
THEOREM TypeCorrect == Spec => []TypeOK
<1>1. OnboardingInv => TypeOK
  BY DEF OnboardingInv
<1> QED  BY <1>1, OnboardingSound, PTL

(* Whoever is verified was verified on a code made for that user's number  *)
(* that had not expired when the request came.                             *)
THEOREM NobodyVerifiedWithoutCode == Spec => []VerifiedByCode
<1>1. OnboardingInv => VerifiedByCode
  BY DEF OnboardingInv, VerifiedSound, VerifiedByCode
<1> QED  BY <1>1, OnboardingSound, PTL

(* The number of a verified user has a deactivated code, not necessarily   *)
(* the one compared, unless an interruption let its update be lost.        *)
THEOREM CodesAreSpent == Spec => []SomeCodeSpent
<1>1. OnboardingInv => SomeCodeSpent
  BY DEF OnboardingInv, VerifiedSound, Spent, SomeCodeSpent
<1> QED  BY <1>1, OnboardingSound, PTL

(* Tokens and wallets are for verified users only, though a rollback takes *)
(* back wallets and nothing else, unless an interruption let the update    *)
(* that verifies be lost.                                                  *)
THEOREM BenefitsAreVerified == Spec => []OnlyVerifiedBenefit
<1>1. OnboardingInv => OnlyVerifiedBenefit
  BY DEF OnboardingInv
<1> QED  BY <1>1, OnboardingSound, PTL

-----------------------------------------------------------------------------
(* Onboarding: no interleaving alone loses a wallet.                       *)

(* After a refusal there is nothing left to show.                          *)
LEMMA FailCounted ==
  ASSUME OnboardingInv, WalletInv, NEW r \in Requests, Fail(r)
  PROVE  WalletInv'
<1>1. Running' \subseteq Running /\ ~Clean'
  BY DEF OnboardingInv, TypeOK, Fail, Answer, Goto, Running, Clean
<1>2. IsFiniteSet(Running')
  BY <1>1, FS_Subset DEF WalletInv
<1> QED  BY <1>1, <1>2 DEF WalletInv, OnboardingInv, TypeOK, Fail, Answer, Goto

(* An arriving request brings its frames, a finished one takes them away.  *)
LEMMA ReceiveCounted ==
  ASSUME OnboardingInv, WalletInv, NEW r \in Requests, NEW p \in PCs, Receive(r, p),
         p \notin {"absent", "done", "storeToken", "handOver", "findWallet", "openWallet"}
  PROVE  WalletInv'
<1>1. /\ pc[r] = "absent" /\ Goto(r, p)
      /\ frames' = (IF InTransaction THEN frames + 2 ELSE 2)
      /\ UNCHANGED <<crashes, interruptions, verified, working, subject, reply>>
  BY DEF Receive, seederVars, tables
<1>2. Running' = Running \cup {r} /\ r \notin Running
  BY <1>1 DEF Running, Goto, OnboardingInv, TypeOK
<1>3. /\ IsFiniteSet(Running') /\ Cardinality(Running') = Cardinality(Running) + 1
      /\ Cardinality(Running) \in Nat
  BY <1>2, FS_AddElement, FS_CardinalityType DEF WalletInv
<1>4. \A v \in Verifications, u \in verified : Opening(v, u) => Opening(v, u)'
  BY <1>1 DEF Opening, Goto, OnboardingInv, TypeOK, Requests
<1>5. Clean' => Clean
  BY <1>1 DEF Clean
<1>6. Clean => frames' = 2 * Cardinality(Running')
  BY <1>1, <1>3 DEF WalletInv, InTransaction
<1> QED  BY <1>1, <1>3, <1>4, <1>5, <1>6
         DEF WalletInv, HasWallet, Goto, OnboardingInv, TypeOK, Requests

LEMMA FinishCounted ==
  ASSUME OnboardingInv, WalletInv, NEW r \in Requests, Finish(r)
  PROVE  WalletInv'
<1>1. CASE Fail(r)
  BY <1>1, FailCounted
<1>2. CASE frames' = frames - 2 /\ Answer(r, "ok") /\ UNCHANGED <<working, aside>>
  <2>1. pc[r] = "finish" /\ UNCHANGED <<crashes, verified>>
    BY DEF Finish, seederVars, tables
  <2>2. Running' = Running \ {r} /\ r \in Running
    BY <1>2, <2>1 DEF Running, Answer, Goto, OnboardingInv, TypeOK
  <2>3. /\ IsFiniteSet(Running') /\ Cardinality(Running') = Cardinality(Running) - 1
        /\ Cardinality(Running) \in Nat
    BY <2>2, FS_RemoveElement, FS_CardinalityType DEF WalletInv
  <2>4. \A v \in Verifications, u \in verified : Opening(v, u) => Opening(v, u)'
    BY <1>2, <2>1 DEF Opening, Answer, Goto, OnboardingInv, TypeOK, Requests
  <2>5. Clean' => Clean
    BY <1>2, <2>1 DEF Clean, Answer, OnboardingInv, TypeOK, WalletInv
  <2> QED  BY <1>2, <2>1, <2>3, <2>4, <2>5
           DEF WalletInv, HasWallet, Answer, Goto, OnboardingInv, TypeOK, Requests
<1> QED  BY <1>1, <1>2 DEF Finish

(* A request that goes on keeps its frames; what it was going to open is   *)
(* opened or still its business.                                           *)
LEMMA MoveCounted ==
  ASSUME OnboardingInv, WalletInv, NEW r \in Requests, NEW p \in PCs, Goto(r, p),
         r \in Running, p \notin {"absent", "done"},
         UNCHANGED <<crashes, interruptions, reply, frames>>, working \subseteq working',
         \A v \in Requests \ {r} : subject'[v] = subject[v],
         Calm => \A u \in verified : Opening(r, u) => Opening(r, u)' \/ HasWallet(u)',
         \A u \in verified' \ verified : r \in Verifications /\ Opening(r, u)'
  PROVE  WalletInv'
<1>1. Running' = Running
  BY DEF Running, Goto, OnboardingInv, TypeOK
<1>2. Calm => \A v \in Verifications, u \in verified :
                Opening(v, u) => Opening(v, u)' \/ HasWallet(u)'
  BY DEF Opening, Goto, OnboardingInv, TypeOK, Requests
<1>3. \A u : HasWallet(u) => HasWallet(u)'
  BY DEF HasWallet
<1> QED  BY <1>1, <1>2, <1>3
         DEF WalletInv, Clean, Goto, OnboardingInv, TypeOK, Running

LEMMA RegisteringCounted ==
  ASSUME OnboardingInv, WalletInv, NEW r \in Registrations, Registering(r)
  PROVE  WalletInv'
<1>1. r \in Requests /\ r \notin Verifications
  BY OnboardingAssumption DEF Requests
<1>2. CASE Register(r)
  BY <1>1, <1>2, ReceiveCounted DEF Register, PCs
<1>3. CASE FindUser(r) \/ AddUser(r) \/ CreateOtp(r)
  <2>1. CASE Fail(r)
    BY <1>1, <2>1, FailCounted
  <2>2. CASE \E p \in {"addUser", "createOtp", "finish"} : Continue(r, p)
    <3>1. PICK p \in {"addUser", "createOtp", "finish"} : Continue(r, p)
      BY <2>2
    <3>2. /\ p \in PCs /\ r \in Running /\ ~\E u : Opening(r, u)
          /\ UNCHANGED <<crashes, verified>>
      BY <1>1, <1>3
         DEF PCs, Running, Opening, FindUser, AddUser, CreateOtp, KeepRegister, seederVars
    <3>3. UNCHANGED <<reply, frames, working, interruptions>> /\ Goto(r, p)
      BY <3>1 DEF Continue, unitOfWork
    <3>4. UNCHANGED subject
      BY <1>3, <3>1, <3>3
         DEF FindUser, AddUser, CreateOtp, Fail, Answer, Goto, OnboardingInv, TypeOK
    <3> QED  BY <1>1, <3>1, <3>2, <3>3, <3>4, MoveCounted
  <2> QED  BY <1>3, <2>1, <2>2 DEF FindUser, AddUser, CreateOtp, SendSMS
<1> QED  BY <1>2, <1>3 DEF Registering

LEMMA VerifyingCounted ==
  ASSUME OnboardingInv, WalletInv, NEW v \in Verifications, Verifying(v)
  PROVE  WalletInv'
<1>1. v \in Requests
  BY DEF Requests
<1>2. CASE Verify(v)
  BY <1>1, <1>2, ReceiveCounted DEF Verify, PCs
<1>3. CASE Fail(v)
  BY <1>1, <1>3, FailCounted
<1>4. CASE ~Fail(v) /\ (FindOtp(v) \/ Compare(v) \/ Expire(v) \/ FindUsed(v) \/ MarkUsed(v))
  <2>1. PICK p \in {"compare", "expire", "findUsed", "markUsed", "updateUser"} :
          Continue(v, p)
    BY <1>4 DEF FindOtp, Compare, Expire, FindUsed, MarkUsed
  <2>2. /\ p \in PCs /\ v \in Running /\ ~\E u : Opening(v, u)
        /\ UNCHANGED <<crashes, verified, subject>>
    BY <1>1, <1>4
       DEF PCs, Running, Opening, FindOtp, Compare, Expire, FindUsed, MarkUsed, KeepVerify,
           seederVars
  <2>3. UNCHANGED <<reply, frames, working, interruptions>> /\ Goto(v, p)
    BY <2>1 DEF Continue, unitOfWork
  <2> QED  BY <1>1, <2>1, <2>2, <2>3, MoveCounted
<1>5. CASE ~Fail(v) /\ UpdateUser(v)
  <2>1. /\ pc[v] = "updateUser" /\ Continue(v, "storeToken") /\ UNCHANGED crashes
        /\ \E u \in UsersOf(v) : /\ verified' = verified \cup {u} \/ UNCHANGED verified
                                 /\ subject' = [subject EXCEPT ![v] = u]
    BY <1>5 DEF GiveRole, UpdateUser, KeepVerify, seederVars
  <2>2. /\ "storeToken" \in PCs /\ v \in Running /\ ~\E u : Opening(v, u)
        /\ UNCHANGED <<reply, frames, working, interruptions>> /\ Goto(v, "storeToken")
    BY <1>1, <2>1 DEF PCs, Running, Opening, Continue, unitOfWork
  <2>3. /\ \A w \in Requests \ {v} : subject'[w] = subject[w]
        /\ \A u \in verified' \ verified : Opening(v, u)'
    BY <1>1, <2>1, <2>2 DEF Opening, Goto, OnboardingInv, TypeOK
  <2> QED  BY <1>1, <2>1, <2>2, <2>3, MoveCounted
<1>6. CASE ~Fail(v) /\ (StoreToken(v) \/ HandOver(v) \/ FindWallet(v) \/ OpenWallet(v))
  <2>1. /\ UNCHANGED <<crashes, interruptions, verified, subject, reply, frames>> /\ v \in Running
        /\ pc[v] \in {"storeToken", "handOver", "findWallet", "openWallet"}
    BY <1>1, <1>6
       DEF StoreToken, SendSMS, HandOver, FindWallet, OpenWallet, KeepOpening, KeepVerify,
           seederVars, Continue, unitOfWork, Running
  <2>2. CASE \E p \in {"handOver", "findWallet", "openWallet"} :
               Goto(v, p) /\ UNCHANGED working
    <3>1. PICK p \in {"handOver", "findWallet", "openWallet"} :
            Goto(v, p) /\ UNCHANGED working
      BY <2>2
    <3>2. p \in PCs /\ \A u : Opening(v, u) => Opening(v, u)'
      BY <1>1, <2>1, <3>1 DEF PCs, Opening, Goto, OnboardingInv, TypeOK
    <3> QED  BY <1>1, <2>1, <3>1, <3>2, MoveCounted
  <2>3. CASE /\ Goto(v, "finish") /\ working \subseteq working'
             /\ Calm => HasWallet(subject[v])'
    <3>1. "finish" \in PCs /\ (Calm => \A u : Opening(v, u) => HasWallet(u)')
      BY <2>1, <2>3 DEF PCs, Opening, HasWallet
    <3> QED  BY <1>1, <2>1, <2>3, <3>1, MoveCounted
  <2>4. CASE OpenWallet(v)
    <3>1. Goto(v, "finish") /\ UNCHANGED subject /\ working \subseteq working'
      BY <2>4 DEF OpenWallet
    <3>2. ASSUME Calm PROVE [by |-> v, user |-> subject[v]] \in working'
      BY <2>4, <3>2 DEF OpenWallet, OnboardingInv, FramesSound
    <3>3. [by |-> v, user |-> subject[v]].user = subject'[v]
      BY <3>1
    <3>4. Calm => HasWallet(subject[v])'
      BY <3>2, <3>3 DEF HasWallet
    <3> QED  BY <2>3, <3>1, <3>4
  <2>5. CASE FindWallet(v)
    BY <2>1, <2>2, <2>3, <2>5 DEF FindWallet, Continue, unitOfWork, HasWallet
  <2>6. CASE StoreToken(v) \/ HandOver(v)
    BY <1>6, <2>2, <2>6 DEF StoreToken, SendSMS, HandOver, Continue, unitOfWork
  <2> QED  BY <1>6, <2>4, <2>5, <2>6
<1> QED  BY <1>2, <1>3, <1>4, <1>5, <1>6 DEF Verifying

LEMMA EnvironmentCounted ==
  ASSUME OnboardingInv, WalletInv, Seed \/ Kill \/ Tick \/ Interfere \/ UNCHANGED vars
  PROVE  WalletInv'
<1>1. CASE Kill
  <2>1. Running' = {} /\ ~Clean'
    BY <1>1 DEF Kill, Killed, Running, Clean, OnboardingInv, TypeOK, SeederTypeOK
  <2> QED  BY <1>1, <2>1, FS_EmptySet DEF WalletInv, Kill, OnboardingInv, TypeOK, Running
<1>3. CASE Interfere
  <2>1. Running' = Running /\ ~Clean' /\ UNCHANGED <<pc, reply>>
    BY <1>3, InterfereTypes DEF Interfere, Running, Clean
  <2> QED  BY <2>1 DEF WalletInv
<1>2. CASE ~Kill /\ ~Interfere
  <2>1. UNCHANGED <<requestVars, verified, crashes>>
    BY <1>2 DEF Seed, Tick, vars, tables, seederVars, SeedingStep, StartUp, CheckTables,
                MakeRole, GrantPermissions, CountriesDone, Listen, FindSeedCountry, AddCountry,
                FindSeedCurrency, AddCurrency
  <2> QED  BY <2>1 DEF WalletInv, Running, Clean, Opening, HasWallet, requestVars, unitOfWork
<1> QED  BY <1>1, <1>2, <1>3

LEMMA WalletsStart == Init => WalletInv
<1> SUFFICES ASSUME Init PROVE WalletInv
  OBVIOUS
<1>1. Running = {}
  BY DEF Init, Running
<1> QED  BY <1>1, FS_EmptySet DEF Init, WalletInv

LEMMA WalletsStep == OnboardingInv /\ WalletInv /\ [Next]_vars => WalletInv'
<1> SUFFICES ASSUME OnboardingInv, WalletInv, [Next]_vars PROVE WalletInv'
  OBVIOUS
<1>1. ASSUME NEW r \in Requests, AwaitThrows(r) PROVE WalletInv'
  BY <1>1, FailCounted DEF AwaitThrows
<1> QED  BY <1>1, RegisteringCounted, VerifyingCounted, FinishCounted, EnvironmentCounted
         DEF Next

(* When all is answered, nothing was refused or killed and no start,       *)
(* commit or rollback came between the awaits of another, every verified   *)
(* user has a wallet, committed, however many requests shared the one      *)
(* transaction of the process (auth.controller.ts:60).                     *)
THEOREM WalletsAreOpened == Spec => []WalletUnlessFailed
<1>1. OnboardingInv /\ WalletInv => WalletUnlessFailed
  <2> SUFFICES ASSUME OnboardingInv, WalletInv, Running = {}, Clean, NEW u \in verified
               PROVE  \E w \in wallets : w.user = u
    BY DEF WalletUnlessFailed, Clean
  <2>1. frames = 0
    BY FS_EmptySet DEF WalletInv
  <2>2. working = wallets
    BY <2>1 DEF OnboardingInv, FramesSound, InTransaction
  <2>3. ~\E v \in Verifications : Opening(v, u)
    BY DEF Opening, Running, Requests
  <2> QED  BY <2>2, <2>3 DEF WalletInv, HasWallet
<1> QED  BY <1>1, OnboardingStarts, OnboardingStep, WalletsStart, WalletsStep, PTL DEF Spec
=============================================================================
