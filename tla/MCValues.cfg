SPECIFICATION Spec
CONSTANTS
  TokensIn <- MCTokensIn
  EvaluateConstruct <- MCEvaluateConstruct
  ToVariant <- MCToVariant
  TweenInfoOf <- MCTweenInfoOf
  TokenRefErrors <- MCTokenRefErrors
  AnnotationErrors <- MCAnnotationErrors
  EnumRefErrors <- MCEnumRefErrors
  Enums <- MCEnums
  Rebinds <- MCRebinds
  Palette <- MCPalette
  BrickColors <- MCBrickColors
  AssetTexts <- MCAssetTexts
  TokenNames <- MCTokenNames
  Superclasses <- MCSuperclasses
  Properties <- MCProperties
  Arguments <- MCArguments
  Files <- MCFiles
INVARIANTS
  ResolvedIsCompiled
  SilentPropertiesFit
  ArgumentsUsed
PROPERTIES
  SilentTweensCompile
  SequencesSpan
