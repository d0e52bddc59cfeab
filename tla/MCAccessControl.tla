---------------------------- MODULE MCAccessControl ----------------------------
(* Instance of AccessControl for TLC: three of the seeded permissions, and *)
(* next to the route of the program routes like those of the guard's tests.*)
EXTENDS AccessControl, TLC

SmallTable == {<<"users", "read">>, <<"users", "manage">>, <<"roles", "read">>}

SmallRoutes ==
    {ListUsers, {<<"users", "read">>, <<"roles", "read">>}, {<<"roles", "manage">>}}

Symmetry == Permutations(Seeders)

=============================================================================
