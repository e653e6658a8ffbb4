------------------------------ MODULE Onboarding ------------------------------
(***************************************************************************)
(* Registration and verification, on a server that Seeder started.         *)
(*                                                                         *)
(* A registration stores a user and a code and sends the code by SMS; a    *)
(* verification looks the code up, deactivates it, marks a user verified   *)
(* and gives a token, and then, in the same request, opens the user's      *)
(* wallet.  Users, codes and tokens are written by the default manager or  *)
(* to Redis and are there at once; only the wallet is in the unit of work. *)
(*                                                                         *)
(* A step is what runs between two awaits.  The user and the code that a   *)
(* registration stores are named after it.                                 *)
(*                                                                         *)
(* Receive, Finish and Fail are the unit of work's start, complete and     *)
(* rollback when nobody else's come between their awaits; Interfere is     *)
(* what may happen when they do, as in Ledger.                             *)
(***************************************************************************)
EXTENDS Seeder, Integers

CONSTANTS Registrations,  \* POST /auth/register
          Verifications,  \* POST /auth/verify
          Phones,         \* the numbers verifications give
          Forms,          \* what registrations may ask: [email, name, phone]
          CountryOf,      \* the country of a phone number
          Lifetime,       \* otp.expiryMinutes
          MaxTime,        \* bound on the clock
          MaxAdrift,      \* bounds on the transactions nobody names and on
          MaxTroubles,    \* kills and interruptions together
          Nothing         \* null

Requests == Registrations \cup Verifications

ASSUME OnboardingAssumption ==
  /\ Registrations \cap Verifications = {}
  /\ \A f \in Forms : f.phone \in DOMAIN CountryOf
  /\ Nothing \notin Registrations \cup Forms \cup Phones
  /\ Lifetime \in Nat /\ MaxTime \in Nat
  /\ MaxAdrift \in Nat /\ MaxTroubles \in Nat

VARIABLES clock,
          pc,        \* the await each request is suspended at
          form,      \* what a registration asks
          phone,     \* the phone number a verification gives,
          code,      \*   its code, a wrong one being another's,
          began,     \*   when it arrived,
          held,      \* the code a request has in hand
          subject,   \* the user it has verified
          users,     \* table user
          verified,  \*   the rows with isVerified and a role
          otp,       \* table otp: whether each code is active
          expiresAt,
          tokens,    \* Redis token:id
          wallets,   \* table wallet as committed: who opened it, for whom
          working,   \*   and as seen through the unit of work
          frames,    \* transactionCount
          adrift,    \* transactions left open that nobody names: their rows
          interruptions,  \* times starts, commits, rollbacks interleaved
          reply      \* what the client was told

tables == <<users, verified, otp, expiresAt, tokens>>
inputs == <<form, phone, code, began>>
aside == <<adrift, interruptions>>
unitOfWork == <<wallets, working, frames, aside>>
requestVars == <<pc, form, phone, code, began, held, subject, unitOfWork, reply>>
vars == <<seederVars, clock, tables, requestVars>>

PCs == {"absent", "done", "finish",
        "findUser", "addUser", "createOtp",
        "findOtp", "compare", "expire", "findUsed", "markUsed",
        "updateUser", "storeToken", "handOver", "findWallet", "openWallet"}

Init ==
  /\ SeederInit
  /\ clock = 0
  /\ pc = [r \in Requests |-> "absent"]
  /\ form = [r \in Registrations |-> Nothing]
  /\ phone = [v \in Verifications |-> Nothing]
  /\ code = [v \in Verifications |-> Nothing]
  /\ began = [v \in Verifications |-> 0]
  /\ held = [r \in Requests |-> Nothing]
  /\ subject = [r \in Requests |-> Nothing]
  /\ users = {} /\ verified = {} /\ tokens = {}
  /\ otp = [r \in Registrations |-> "none"]
  /\ expiresAt = [r \in Registrations |-> 0]
  /\ wallets = {} /\ working = {} /\ frames = 0
  /\ adrift = {} /\ interruptions = 0
  /\ reply = [r \in Requests |-> "none"]

-----------------------------------------------------------------------------
Goto(r, p) == pc' = [pc EXCEPT ![r] = p]
Running == {r \in Requests : pc[r] \notin {"absent", "done"}}
InTransaction == frames > 0

Hold(r, o) == held' = [held EXCEPT ![r] = o]
Continue(r, p) == Goto(r, p) /\ UNCHANGED <<reply, unitOfWork>>

(* The request is over; what its handler had in hand goes with it.         *)
Answer(r, a) ==
  /\ Goto(r, "done")
  /\ reply' = [reply EXCEPT ![r] = a]
  /\ Hold(r, Nothing)
  /\ subject' = [subject EXCEPT ![r] = Nothing]

(* The handler throws: a frame is taken off, the interceptor answers with  *)
(* the error and rolls back the transaction of the process, whoever else   *)
(* is in it, or returns early when there is none.                          *)
Fail(r) ==
  /\ Answer(r, "error")
  /\ working' = wallets
  /\ frames' = IF InTransaction THEN 0 ELSE frames - 1
  /\ UNCHANGED <<wallets, aside>>

(* Two frames, the interceptor's and executeInTransaction's, on the        *)
(* transaction of the process or on a new one.                             *)
Receive(r, p) ==
  /\ pc[r] = "absent"
  /\ phase = "listening"
  /\ frames' = IF InTransaction THEN frames + 2 ELSE 2
  /\ Goto(r, p)
  /\ UNCHANGED <<seederVars, clock, tables, wallets, working, aside, held, subject, reply>>

(* Slip: only the handler's frame completes, not the interceptor's.        *)
Finish_InnerOnly(r) ==
  /\ pc[r] = "finish"
  /\ \/ /\ InTransaction
        /\ frames' = frames - 1
        /\ wallets' = IF frames = 1 THEN working ELSE wallets
        /\ Answer(r, "ok")
        /\ UNCHANGED <<working, aside>>
     \/ ~InTransaction /\ Fail(r)
  /\ UNCHANGED <<seederVars, clock, tables, inputs>>

(* Both frames complete and the last one commits; without a transaction    *)
(* complete() throws.                                                      *)
Finish(r) ==
  /\ pc[r] = "finish"
  /\ \/ /\ InTransaction
        /\ frames' = frames - 2
        /\ wallets' = IF frames = 2 THEN working ELSE wallets
        /\ Answer(r, "ok")
        /\ UNCHANGED <<working, aside>>
     \/ ~InTransaction /\ Fail(r)
  /\ UNCHANGED <<seederVars, clock, tables, inputs>>

(* Any await may throw: a refused statement, Redis or bcrypt failing.      *)
AwaitThrows(r) ==
  /\ r \in Running
  /\ Fail(r)
  /\ UNCHANGED <<seederVars, clock, tables, inputs>>

-----------------------------------------------------------------------------
(* RegisterUserHandler.                                                    *)

Register(r) ==
  /\ Receive(r, "findUser")
  /\ \E f \in Forms : form' = [form EXCEPT ![r] = f]
  /\ UNCHANGED <<phone, code, began>>

KeepRegister == UNCHANGED <<seederVars, clock, inputs, verified, tokens>>

EmailTaken(r) == \E u \in users : form[u].email = form[r].email

(* getPhoneNumberDetails: a number that does not parse has no country.     *)
RegionOf(u) == CountryOf[form[u].phone]

(* The country is looked up by its ISO code.  (Roles, countries and        *)
(* currencies do not change while the server listens: looking them up is   *)
(* part of the step before it.)                                            *)
CountryServed(r) == CountryStored(RegionOf(r))

FindUser(r) ==
  /\ pc[r] = "findUser"
  /\ IF EmailTaken(r) \/ ~CountryServed(r)
     THEN Fail(r)
     ELSE Continue(r, "addUser") /\ UNCHANGED <<held, subject>>
  /\ KeepRegister
  /\ UNCHANGED <<users, otp, expiresAt>>

(* The unique index is on e-mail and names together.                       *)
Duplicate(r) ==
  \E u \in users : form[u].email = form[r].email /\ form[u].name = form[r].name

AddUser(r) ==
  /\ pc[r] = "addUser"
  /\ IF Duplicate(r)
     THEN Fail(r) /\ UNCHANGED users
     ELSE /\ Continue(r, "createOtp")
          /\ users' = users \cup {r}
          /\ UNCHANGED <<held, subject>>
  /\ KeepRegister
  /\ UNCHANGED <<otp, expiresAt>>

IssueOtp(r) ==
  /\ otp' = [otp EXCEPT ![r] = "active"]
  /\ expiresAt' = [expiresAt EXCEPT ![r] = clock + Lifetime]

(* updateOtp, a single statement of the default manager: on a connection   *)
(* that has a transaction left open it need not last.                      *)
Deactivate(o) ==
  \/ otp' = [otp EXCEPT ![o] = "inactive"]
  \/ adrift # {} /\ UNCHANGED otp

(* The SMS provider catches its own errors: a handler whose message was    *)
(* not sent goes on like one whose message was.                            *)
SendSMS(r, next) == Continue(r, next)

CreateOtp(r) ==
  /\ pc[r] = "createOtp"
  /\ IssueOtp(r)
  /\ SendSMS(r, "finish")
  /\ KeepRegister
  /\ UNCHANGED <<users, held, subject>>

-----------------------------------------------------------------------------
(* VerifyOtpHandler, then InitializeUserWalletHandler.                     *)

Verify(v) ==
  /\ Receive(v, "findOtp")
  /\ \E p \in Phones : phone' = [phone EXCEPT ![v] = p]
  /\ \E c \in Registrations : code' = [code EXCEPT ![v] = c]
  /\ began' = [began EXCEPT ![v] = clock]
  /\ UNCHANGED form

(* findOne by phone number, which is not unique: any active code of it.    *)
ActiveCodes(v) == {o \in Registrations : otp[o] = "active" /\ form[o].phone = phone[v]}

KeepVerify == UNCHANGED <<seederVars, clock, inputs, users, expiresAt>>

FindOtp(v) ==
  /\ pc[v] = "findOtp"
  /\ \/ /\ ActiveCodes(v) = {}
        /\ Fail(v)
     \/ /\ \E o \in ActiveCodes(v) : Hold(v, o)
        /\ Continue(v, "compare")
        /\ UNCHANGED subject
  /\ KeepVerify
  /\ UNCHANGED <<verified, otp, tokens>>

Matches(v) == code[v] = held[v]
Late(v) == expiresAt[held[v]] < clock

(* Slip: the time of expiry is not looked at.                              *)
Compare_Late(v) ==
  /\ pc[v] = "compare"
  /\ \/ ~Matches(v) /\ Fail(v)
     \/ /\ Matches(v)
        /\ Continue(v, "findUsed")
        /\ Hold(v, Nothing)
        /\ UNCHANGED subject
  /\ KeepVerify
  /\ UNCHANGED <<verified, otp, tokens>>

Compare(v) ==
  /\ pc[v] = "compare"
  /\ \/ ~Matches(v) /\ Fail(v)
     \/ /\ Matches(v) /\ Late(v)
        /\ Continue(v, "expire")
        /\ UNCHANGED <<held, subject>>
     \/ /\ Matches(v) /\ ~Late(v)
        /\ Continue(v, "findUsed")
        /\ Hold(v, Nothing)
        /\ UNCHANGED subject
  /\ KeepVerify
  /\ UNCHANGED <<verified, otp, tokens>>

Expire(v) ==
  /\ pc[v] = "expire"
  /\ Deactivate(held[v])
  /\ Fail(v)
  /\ KeepVerify
  /\ UNCHANGED <<verified, tokens>>

(* markOtpAsUsed looks the code up again; finding none is not an error.    *)
FindUsed(v) ==
  /\ pc[v] = "findUsed"
  /\ \/ /\ ActiveCodes(v) = {}
        /\ Continue(v, "updateUser")
        /\ UNCHANGED held
     \/ /\ \E o \in ActiveCodes(v) : Hold(v, o)
        /\ Continue(v, "markUsed")
  /\ KeepVerify
  /\ UNCHANGED <<subject, verified, otp, tokens>>

(* Slip: the code stays active.                                            *)
MarkUsed_Forgotten(v) ==
  /\ pc[v] = "markUsed"
  /\ Hold(v, Nothing)
  /\ Continue(v, "updateUser")
  /\ KeepVerify
  /\ UNCHANGED <<subject, verified, otp, tokens>>

MarkUsed(v) ==
  /\ pc[v] = "markUsed"
  /\ Deactivate(held[v])
  /\ Hold(v, Nothing)
  /\ Continue(v, "updateUser")
  /\ KeepVerify
  /\ UNCHANGED <<subject, verified, tokens>>

UsersOf(v) == {u \in users : form[u].phone = phone[v]}

(* role_id joins a one-to-one relation and is unique: the role "user" can  *)
(* be given to one user only.                                              *)
RoleTaken(u) == verified \ {u} # {}

(* Like updateOtp it need not last on a connection left in a transaction.  *)
GiveRole(u) ==
  \/ verified' = verified \cup {u}
  \/ adrift # {} /\ UNCHANGED verified

(* The role, then findOneAndUpdateByData: the first user found with the    *)
(* phone number.                                                           *)
UpdateUser(v) ==
  /\ pc[v] = "updateUser"
  /\ \/ /\ roles = {} \/ \E u \in UsersOf(v) : RoleTaken(u)
        /\ Fail(v) /\ UNCHANGED verified
     \/ /\ UsersOf(v) = {}
        /\ Fail(v) /\ UNCHANGED verified
     \/ /\ roles # {}
        /\ \E u \in UsersOf(v) : /\ ~RoleTaken(u)
                                 /\ GiveRole(u)
                                 /\ subject' = [subject EXCEPT ![v] = u]
        /\ Continue(v, "storeToken")
        /\ UNCHANGED held
  /\ KeepVerify
  /\ UNCHANGED <<otp, tokens>>

(* Slip: the token is for the owner of the code in hand, when there is     *)
(* none in hand any more.                                                  *)
StoreToken_InHand(v) ==
  /\ pc[v] = "storeToken"
  /\ tokens' = tokens \cup {held[v]}
  /\ Continue(v, "handOver")
  /\ KeepVerify
  /\ UNCHANGED <<held, subject, verified, otp>>

(* Slip: the token is for whoever registered the code.                     *)
StoreToken_ByCode(v) ==
  /\ pc[v] = "storeToken"
  /\ tokens' = tokens \cup {code[v]}
  /\ Continue(v, "handOver")
  /\ KeepVerify
  /\ UNCHANGED <<held, subject, verified, otp>>

StoreToken(v) ==
  /\ pc[v] = "storeToken"
  /\ tokens' = tokens \cup {subject[v]}
  /\ SendSMS(v, "handOver")
  /\ KeepVerify
  /\ UNCHANGED <<held, subject, verified, otp>>

KeepOpening == KeepVerify /\ UNCHANGED <<verified, otp, tokens>>

(* The first command completes its frame and the second starts one; a      *)
(* neighbour's rollback makes complete() throw.  The currency of the       *)
(* user's country is dereferenced without a check.                         *)
HandOver(v) ==
  /\ pc[v] = "handOver"
  /\ IF InTransaction /\ CurrencyStored(RegionOf(subject[v]))
     THEN Continue(v, "findWallet") /\ UNCHANGED <<held, subject>>
     ELSE Fail(v)
  /\ KeepOpening

HasWallet(u) == \E w \in working : w.user = u

FindWallet(v) ==
  /\ pc[v] = "findWallet"
  /\ Continue(v, IF HasWallet(subject[v]) THEN "finish" ELSE "openWallet")
  /\ KeepOpening
  /\ UNCHANGED <<held, subject>>

(* In the shared transaction if there is one, else committed at once,      *)
(* unless the pool gives the default manager a connection that still has a *)
(* transaction open.  The balance and the transaction record that follow   *)
(* are in Ledger.                                                          *)
OpenWallet(v) ==
  LET opened == {[by |-> v, user |-> subject[v]]}
  IN  /\ pc[v] = "openWallet"
      /\ \/ /\ working' = working \cup opened
            /\ wallets' = IF InTransaction THEN wallets ELSE working'
            /\ UNCHANGED adrift
         \/ /\ ~InTransaction
            /\ \E t \in adrift : adrift' = (adrift \ {t}) \cup {t \cup opened}
            /\ UNCHANGED <<wallets, working>>
      /\ Goto(v, "finish")
      /\ UNCHANGED <<frames, interruptions, reply, held, subject>>
      /\ KeepOpening

-----------------------------------------------------------------------------
Seed == SeedingStep /\ UNCHANGED <<clock, tables, requestVars>>

(* What interleaving the awaits of start, complete and rollback may do to  *)
(* the views: see Ledger.  A bound: not in the clock's last tick.          *)
Frames == {0, 2, 4}

Several == \E r \in Running, q \in Requests : r # q /\ pc[q] # "absent"

Interfere ==
  LET open == adrift \cup {working \ wallets, {}}
  IN  /\ Several
      /\ crashes + interruptions < MaxTroubles /\ clock < MaxTime
      /\ \E committed, named \in open :
           /\ wallets' = wallets \cup committed
           /\ working' = wallets' \cup named
      /\ adrift' \in SUBSET open
      /\ Cardinality(adrift') <= MaxAdrift
      /\ frames' \in Frames
      /\ frames' = 0 => working' = wallets'
      /\ interruptions' = interruptions + 1
      /\ UNCHANGED <<seederVars, clock, tables, inputs, pc, held, subject, reply>>

(* The process is killed: its requests are gone, the server rolls the open *)
(* transactions back.                                                      *)
Kill ==
  /\ Killed /\ crashes + interruptions < MaxTroubles
  /\ pc' = [r \in Requests |-> IF r \in Running THEN "done" ELSE pc[r]]
  /\ held' = [r \in Requests |-> Nothing]
  /\ subject' = [r \in Requests |-> Nothing]
  /\ working' = wallets
  /\ frames' = 0
  /\ adrift' = {}
  /\ UNCHANGED <<clock, tables, inputs, wallets, interruptions, reply>>

Tick ==
  /\ clock < MaxTime
  /\ clock' = clock + 1
  /\ UNCHANGED <<seederVars, tables, requestVars>>

Registering(r) ==
  Register(r) \/ FindUser(r) \/ AddUser(r) \/ CreateOtp(r)

Verifying(v) ==
  \/ Verify(v) \/ FindOtp(v) \/ Compare(v) \/ Expire(v) \/ FindUsed(v)
  \/ MarkUsed(v) \/ UpdateUser(v) \/ StoreToken(v) \/ HandOver(v)
  \/ FindWallet(v) \/ OpenWallet(v)

Next ==
  \/ Seed \/ Kill \/ Tick \/ Interfere
  \/ \E r \in Registrations : Registering(r)
  \/ \E v \in Verifications : Verifying(v)
  \/ \E r \in Requests : Finish(r) \/ AwaitThrows(r)

Spec == Init /\ [][Next]_vars

-----------------------------------------------------------------------------
(* Properties.  They hold with requests overlapping in any way, phone      *)
(* numbers shared, awaits failing and the process killed at any moment.    *)

Wallet == [by : Verifications, user : Registrations]

(* The tables, the requests and what they carry keep their types.          *)
TypeOK ==
  /\ SeederTypeOK
  /\ clock \in 0 .. MaxTime
  /\ pc \in [Requests -> PCs]
  /\ form \in [Registrations -> Forms \cup {Nothing}]
  /\ phone \in [Verifications -> Phones \cup {Nothing}]
  /\ code \in [Verifications -> Registrations \cup {Nothing}]
  /\ began \in [Verifications -> 0 .. MaxTime]
  /\ held \in [Requests -> Registrations \cup {Nothing}]
  /\ subject \in [Requests -> Registrations \cup {Nothing}]
  /\ users \in SUBSET Registrations
  /\ verified \in SUBSET users
  /\ otp \in [Registrations -> {"none", "active", "inactive"}]
  /\ expiresAt \in [Registrations -> Nat]
  /\ tokens \in SUBSET Registrations
  /\ wallets \in SUBSET Wallet /\ working \in SUBSET Wallet
  /\ frames \in Int
  /\ adrift \in SUBSET (SUBSET Wallet) /\ interruptions \in Nat
  /\ reply \in [Requests -> {"none", "ok", "error"}]

(* Nobody is verified unless somebody gave, for that user's phone number,  *)
(* a code that was made for it and had not expired when the request came   *)
(* (otp.service.ts, validateOtp), whatever codes and users share the       *)
(* number.                                                                 *)
Proves(v, u) ==
  /\ phone[v] = form[u].phone
  /\ code[v] \in users
  /\ form[code[v]].phone = form[u].phone
  /\ expiresAt[code[v]] >= began[v]

VerifiedByCode == \A u \in verified : \E v \in Verifications : Proves(v, u)

(* Starts, commits and rollbacks did not come between each other's awaits. *)
Calm == interruptions = 0

(* A verification costs the number a code: that of a verified user has a   *)
(* deactivated one, whoever deactivated it and whatever was ignored on the *)
(* way (otp.service.ts, markOtpAsUsed).  It need not be the code that was  *)
(* compared: with two of them active the look-up may come on the other,    *)
(* and the one compared stays open.                                        *)
SomeCodeSpent ==
  Calm => \A u \in verified : \E o \in users : /\ otp[o] = "inactive"
                                              /\ form[o].phone = form[u].phone

(* Neither a token nor a wallet, committed or not, is for a user who is    *)
(* not verified, though they are stored in three places and only one of    *)
(* them is rolled back.                                                    *)
OnlyVerifiedBenefit ==
  Calm => /\ tokens \subseteq verified
          /\ \A w \in working \cup wallets : w.user \in verified

(* Once everything is answered, and nothing was refused, killed or done    *)
(* between the awaits of a start, a commit or a rollback, every verified   *)
(* user has a wallet: requests that merely share the transaction of the    *)
(* process do not lose one                                                 *)
(* (README, "After successful OTP verification").                          *)
WalletUnlessFailed ==
  /\ Running = {}
  /\ Calm
  /\ crashes = 0
  /\ \A r \in Requests : reply[r] # "error"
  => \A u \in verified : \E w \in wallets : w.user = u
=============================================================================
