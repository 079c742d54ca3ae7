CONSTANTS
    UriChars <- MCUriChars
    MaxUriLen <- MCMaxUriLen
    IdLen <- MCIdLen
    UsizeBits <- MCUsizeBits
    WideChars <- MCWideChars

SPECIFICATION Spec

\* A behaviour follows one request to its answer, after which nothing of it
\* is left to do.
CHECK_DEADLOCK FALSE

INVARIANT TypeOK
INVARIANT PositionalIdExact
 
