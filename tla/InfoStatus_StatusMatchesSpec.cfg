SPECIFICATION Spec
INVARIANT
    StatusMatchesSpec
