SPECIFICATION Spec
CONSTANTS
  openai = openai
  anthropic = anthropic
  responses = responses
  restricted = restricted
  Provider = {openai, anthropic, responses, restricted}
  Adapter <- MCAdapter
  Declared <- MCDeclared
  Explicit = {restricted}
  Requests <- MessagesToolRequests
\* A request ends.
CHECK_DEADLOCK FALSE
INVARIANTS
  NothingLost
