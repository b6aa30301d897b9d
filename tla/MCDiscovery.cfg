SPECIFICATION Spec
CONSTANTS
  router = router
  tv = tv
  radio = radio
  Devices <- MCDevices
  Igds <- Router
  Twofold <- Router
  Nobody = Nobody
  MaxAnswers = 3
INVARIANTS
  TypeOK
  ListedOnce
  TargetWasFetched
  Verdict
PROPERTIES
  UrlsFreedBeforeReuse
  Terminates
