SPECIFICATION Spec
CONSTANTS
  Role <- MCRole
  Route <- MCRoute
INVARIANTS
  TypeOK
  IdentityIsProven
  ChangesAreAuthorised
  InternalHasCause
PROPERTY
  Promise
