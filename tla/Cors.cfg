SPECIFICATION Spec
CONSTANTS
  App = App
  Stranger = Stranger
  Swagger = Swagger
  Origins <- MCOrigins
  DebugOrigins = {Swagger}
  Same = Same
  Configs <- MCConfigs
  Pages = {p1}
  Nothing = Nothing
  CacheSize = 2
INVARIANTS TypeOK Transparent
PROPERTIES SentOnlyIfGranted
