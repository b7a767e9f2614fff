CONSTANTS
    NotString = NotString
    Slash = "/"
    Space = " "
    ApiScheme = "api://"
    Issuers <- MCIssuers
    AllowedSets <- MCAllowedNonEmpty
    AudStrings <- MCAudStrings
    AudArrays <- MCAudArrays
    ClientIDs <- MCClientIDs
    Scps <- MCScps
    RequiredSets <- MCRequiredSets
SPECIFICATION Spec
INVARIANTS
    TypeOK
    VerifierAudienceMatchesSpec
    VerifierScopesMatchSpec
