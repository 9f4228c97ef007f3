-------------------------------- MODULE Roles --------------------------------
(* The roles, and the hierarchy the RolesGuard knows of (roles.guard.ts).    *)
CONSTANT Role    \* the roles in use

UserTier == {"USER", "BREEDER", "FARMER", "VETERINARIAN", "GROOMER"}

SatisfiesAny(actual, required) == actual = required \/ actual \in UserTier  \* seeded fault
RoleSatisfies(actual, required) == actual = required \/ (required = "USER" /\ actual \in UserTier)
=============================================================================
