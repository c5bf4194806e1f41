SPECIFICATION FairSpec
CONSTANTS
  Unset = Unset
  Blank = Blank
  Malformed = Malformed
  NoFile = NoFile
  Rejected = Rejected
  None = None
  Damaged = Damaged
  Forever = Forever
  credential1 = credential1
  credential2 = credential2
  credential3 = credential3
  DandanplayCredentials <- MCCredentials
  q = q
  r1 = r1
  r2 = r2
  comments = comments
  page = page
  Texts = {q}
  Requests = {r1, r2}
  Versions = {comments, page}
  SearchCacheDuration = Malformed
  DefaultDuration = 1
INVARIANTS
  TypeOK
  AnswerIsToTheQuestion
  EvenRotation
PROPERTIES
  Settles
