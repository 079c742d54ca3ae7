CONSTANTS
    Ids <- MCIds
    Names <- MCNames
    Passwords <- MCPasswords
    Empty <- MCEmpty

SPECIFICATION Spec

INVARIANT TypeOK
INVARIANT TokenOnlyForOwner
INVARIANT LoginOutcome

PROPERTY ImplementsLoginService
