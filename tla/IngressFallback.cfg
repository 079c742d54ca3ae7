CONSTANTS
    UriChars <- MCUriChars
    MaxUriLen <- MCMaxUriLen
    IdLen <- MCIdLen
    UsizeBits <- MCUsizeBits
    WideChars <- MCWideChars

SPECIFICATION Spec

CHECK_DEADLOCK FALSE

INVARIANT FallbackAmongDecoys
