CONSTANTS
    UriChars <- MCWideUriChars
    MaxUriLen <- MCWideMaxUriLen
    IdLen <- MCIdLen
    UsizeBits <- MCUsizeBits
    WideChars <- MCWideWideChars

SPECIFICATION Spec

CHECK_DEADLOCK FALSE

INVARIANT FallbackIdCharacters
