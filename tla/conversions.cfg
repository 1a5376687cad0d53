SPECIFICATION MCSpec
CONSTANTS
    Chars <- MCChars
    Names <- MCNames
    Values <- MCValues
    Pads <- MCPads
    Junk <- MCJunk
    Hosts <- MCHosts
    Geos <- MCGeos
    Catalog <- MCCatalog
    GeoLocale <- MCGeoLocale
    FallbackLocales <- MCFallback
    MaxSeparators = 2
    MaxAttempts = 2
    MaxLines = 7
INVARIANTS HeaderUnderstood FormatsAgree SessionKept AnswerRecovered
CHECK_DEADLOCK FALSE
