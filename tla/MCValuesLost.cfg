SPECIFICATION Spec
CONSTANTS
  TokensIn <- MCTokensIn
  EvaluateConstruct <- MCEvaluateConstruct
  ToVariant <- MCToVariant
  TweenInfoOf <- MCTweenInfoOf
  TokenRefErrors <- MCTokenRefErrors
  AnnotationErrors <- MCAnnotationErrors
  EnumRefErrors <- MCEnumRefErrors
  Enums <- MCEnums
  Rebinds <- MCRebinds
  Palette <- MCPalette
  BrickColors <- MCBrickColors
  AssetTexts <- MCAssetTexts
  TokenNames <- MCTokenNames
  Superclasses <- MCSuperclasses
  Properties <- MCProperties
  Arguments <- MCArguments
  Files <- LostFile
INVARIANT
  SilentFilesTakeEffect
