-------------------------------- MODULE Seeder --------------------------------
(***************************************************************************)
(* A start of the process: SeederService.onModuleInit fills the tables     *)
(* that the rest of the program looks things up in, then the server        *)
(* listens.  A start that throws exits; a process may also be killed in    *)
(* the middle of one.  What an earlier start stored is still there when    *)
(* the next one looks.                                                     *)
(*                                                                         *)
(* Countries and their currencies are seeded concurrently, each a find     *)
(* and an insert with an await between them.                               *)
(***************************************************************************)
EXTENDS Naturals, FiniteSets

CONSTANTS Countries,       \* the countries seeded, each with one currency
          UserPermissions, \* the permissions of the role "user"
          MaxCrashes       \* bound: kills of the process

ASSUME SeederAssumption == MaxCrashes \in Nat

VARIABLES phase,         \* where the process is
          progress,      \* where it is with each country
          permissions,   \* table permission
          roles,         \* table role
          grants,        \* table role_permission, of the role "user"
          countries,     \* table country
          currencies,    \* table currency: the countries that have theirs
          failedStarts,  \* starts that threw
          crashes        \* times the process was killed

seederVars == <<phase, progress, permissions, roles, grants, countries,
                currencies, failedStarts, crashes>>

Phases == {"down", "check", "makeRole", "grant", "countries", "currencies",
           "listening"}

Stages == {"find", "add", "new", "old", "addCurrency", "done"}

(* Nothing in the program fills the permission table; whoever installs it  *)
(* may have.                                                               *)
SeederInit ==
  /\ phase = "down"
  /\ progress = [c \in Countries |-> "find"]
  /\ permissions \in {{}, UserPermissions}
  /\ roles = {} /\ grants = {} /\ countries = {} /\ currencies = {}
  /\ failedStarts = 0 /\ crashes = 0

StartUp ==
  /\ phase = "down"
  /\ phase' = "check"
  /\ progress' = [c \in Countries |-> "find"]
  /\ UNCHANGED <<permissions, roles, grants, countries, currencies,
                 failedStarts, crashes>>

(* onModuleInit: roles are seeded when both tables are empty.              *)
CheckTables ==
  /\ phase = "check"
  /\ phase' = IF permissions = {} /\ roles = {} THEN "makeRole" ELSE "countries"
  /\ UNCHANGED <<progress, permissions, roles, grants, countries, currencies,
                 failedStarts, crashes>>

(* Slip: the role is stored with its permissions, when they are found.     *)
MakeRole_Deferred ==
  /\ phase = "makeRole"
  /\ phase' = "grant"
  /\ UNCHANGED <<progress, permissions, roles, grants, countries, currencies,
                 failedStarts, crashes>>

(* seedRoles on an empty table: the first definition is not found and      *)
(* stored; the loop returns before it comes to the second, "admin".        *)
MakeRole ==
  /\ phase = "makeRole"
  /\ roles' = roles \cup {"user"}
  /\ phase' = "grant"
  /\ UNCHANGED <<progress, permissions, grants, countries, currencies,
                 failedStarts, crashes>>

(* Its permissions are looked up and granted; one that is not found throws *)
(* out of onModuleInit, and bootstrap exits.                               *)
GrantPermissions ==
  LET missing == UserPermissions \ permissions
  IN  /\ phase = "grant"
      /\ grants' = grants \cup (UserPermissions \cap permissions)
      /\ phase' = IF missing = {} THEN "countries" ELSE "down"
      /\ failedStarts' = IF missing = {} THEN failedStarts ELSE failedStarts + 1
      /\ UNCHANGED <<progress, permissions, roles, countries, currencies, crashes>>

(* findCountryByData and getCurrencyByData, by name.                       *)
CountryStored(c) == c \in countries
CurrencyStored(c) == c \in currencies

At(c, s) == progress[c] = s
Advance(c, s) == progress' = [progress EXCEPT ![c] = s]

FindSeedCountry(c) ==
  /\ phase = "countries" /\ At(c, "find")
  /\ Advance(c, IF CountryStored(c) THEN "old" ELSE "add")
  /\ UNCHANGED <<phase, permissions, roles, grants, countries, currencies,
                 failedStarts, crashes>>

AddCountry(c) ==
  /\ phase = "countries" /\ At(c, "add")
  /\ countries' = countries \cup {c}
  /\ Advance(c, "new")
  /\ UNCHANGED <<phase, permissions, roles, grants, currencies, failedStarts,
                 crashes>>

(* The first Promise.all is over.                                          *)
CountriesDone ==
  /\ phase = "countries"
  /\ \A c \in Countries : At(c, "new") \/ At(c, "old")
  /\ phase' = "currencies"
  /\ UNCHANGED <<progress, permissions, roles, grants, countries, currencies,
                 failedStarts, crashes>>

(* Slip: the currency of a country that was there already is looked up,    *)
(* that of a new one is not.                                               *)
FindSeedCurrency_Swapped(c) ==
  /\ phase = "currencies" /\ (At(c, "new") \/ At(c, "old"))
  /\ Advance(c, IF At(c, "old") /\ ~CurrencyStored(c) THEN "addCurrency" ELSE "done")
  /\ UNCHANGED <<phase, permissions, roles, grants, countries, currencies,
                 failedStarts, crashes>>

(* Only a country created in this very start gets its currency.            *)
FindSeedCurrency(c) ==
  /\ phase = "currencies" /\ (At(c, "new") \/ At(c, "old"))
  /\ Advance(c, IF At(c, "new") /\ ~CurrencyStored(c) THEN "addCurrency" ELSE "done")
  /\ UNCHANGED <<phase, permissions, roles, grants, countries, currencies,
                 failedStarts, crashes>>

AddCurrency(c) ==
  /\ phase = "currencies" /\ At(c, "addCurrency")
  /\ currencies' = currencies \cup {c}
  /\ Advance(c, "done")
  /\ UNCHANGED <<phase, permissions, roles, grants, countries, failedStarts,
                 crashes>>

Listen ==
  /\ phase = "currencies"
  /\ \A c \in Countries : At(c, "done")
  /\ phase' = "listening"
  /\ UNCHANGED <<progress, permissions, roles, grants, countries, currencies,
                 failedStarts, crashes>>

Killed ==
  /\ phase # "down" /\ crashes < MaxCrashes
  /\ phase' = "down"
  /\ crashes' = crashes + 1
  /\ UNCHANGED <<progress, permissions, roles, grants, countries, currencies,
                 failedStarts>>

SeedingStep ==
  \/ StartUp \/ CheckTables \/ MakeRole \/ GrantPermissions
  \/ CountriesDone \/ Listen
  \/ \E c \in Countries : \/ FindSeedCountry(c) \/ AddCountry(c)
                          \/ FindSeedCurrency(c) \/ AddCurrency(c)

-----------------------------------------------------------------------------
SeederTypeOK ==
  /\ phase \in Phases
  /\ progress \in [Countries -> Stages]
  /\ permissions \in SUBSET UserPermissions
  /\ roles \in SUBSET {"user"}
  /\ grants \in SUBSET UserPermissions
  /\ countries \in SUBSET Countries
  /\ currencies \in SUBSET Countries
  /\ failedStarts \in Nat /\ crashes \in 0 .. MaxCrashes

(* The start that finds its tables empty fails halfway; what it leaves     *)
(* behind lets every later one through (seeder.service.ts, onModuleInit).  *)
FailsOnce == failedStarts <= 1

(* A server that listens and was never killed has every country with its   *)
(* currency, though the first start may have failed (seeder.service.ts,    *)
(* seedCountriesAndCurrency).                                              *)
SeededUnlessKilled ==
  phase = "listening" /\ crashes = 0 =>
    countries = Countries /\ currencies = Countries

(* The role that a verified user is given comes with its permissions once  *)
(* the server listens (README, "users ... are assigned the role of `user`  *)
(* that comes with default permissions").                                  *)
DefaultPermissions ==
  phase = "listening" /\ "user" \in roles => grants = UserPermissions
=============================================================================
