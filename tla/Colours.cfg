CONSTANT Masks <- MasksDef
SPECIFICATION ColoursSpec
INVARIANT ColoursTypeOK
PROPERTY FadesSmoothly
PROPERTY EveryMemberShown
