CONSTANTS
  LineLength = 3
  SizeT = 64
  Memory = 24
  None = None
  Inputs <- MCInputs
  Contents <- MCContents
SPECIFICATION Spec
INVARIANTS ArticlesTypeOK LinesAreSafe ArticlesArriveWhole ArticlesDecode PartsDoNotOverlap FilesAreRestored NzbListsArticles NothingLeftOut CrashesAreExplained
