CONSTANTS
  RedirectMime = 2
  Candidate <- MCCandidate
  MainAid = 2
  LayoutAid = 0
  MinChunkSize = 13
  Packed = {3, 20}
  MaxArticles = 3
SPECIFICATION Spec
INVARIANTS EntriesSound IndicesLead ListsInOrder ArticlesReadable FileVerifies
PROPERTIES Ends
CHECK_DEADLOCK FALSE
