SPECIFICATION Spec
CONSTANTS
  NoOrigin = NoOrigin
  None = None
  page = page
  subpage = subpage
  other = other
  cookies = cookies
  program = program
  frame = frame
  sandbox = sandbox
  Clients = {other, frame}
  Origin <- MCOrigin
  Credentialed = {}
  Preflighted = {other, frame}
  Configurations <- MCConfigurations
PROPERTIES
  OnlyTheAllowedRead
