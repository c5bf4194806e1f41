SPECIFICATION Spec
CONSTANTS
  NoOrigin = NoOrigin
  None = None
  page = page
  subpage = subpage
  other = other
  cookies = cookies
  program = program
  frame = frame
  sandbox = sandbox
  Clients = {page, subpage, other, cookies, program, frame, sandbox}
  Origin <- MCOrigin
  Credentialed = {cookies, sandbox}
  Preflighted = {page, cookies, other}
  Configurations <- MCConfigurations
PROPERTIES
  ReadByAllowedAndOpaque
