------------------------------- MODULE MCGuards -------------------------------
EXTENDS Guards, TLC

CONSTANTS ada, ben, r1, r2, USER, ADMIN, read, create, update

MCRights == {[role |-> USER, permissions |-> {read, update}],
             [role |-> USER, permissions |-> {update}],
             [role |-> NoRole, permissions |-> {}]}

(* Of every route of the wallet and transaction controllers.               *)
MCRequirement == [roles |-> {USER, ADMIN}, permissions |-> {read, create},
                  operation |-> "ANY"]

Symmetry == Permutations({ada, ben}) \cup Permutations({r1, r2})
=============================================================================
