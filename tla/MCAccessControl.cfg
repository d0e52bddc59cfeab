SPECIFICATION Spec
CONSTANTS
    PERMISSIONS <- SmallTable
    Routes <- SmallRoutes
    Users = {admin, u1}
    AdminEmail = admin
    Seeders = {s1, s2}
    Requests = {c1}
    None = None
SYMMETRY Symmetry
INVARIANTS
    TypeOK
    AdmittedIsEntitled
    SuperAdminIsAdmitted
    SeedIsComplete
