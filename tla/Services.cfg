SPECIFICATION Spec
CONSTANTS
  q1 = q1  q2 = q2
  e1 = e1
  c1 = c1  c2 = c2
  a1 = a1  b1 = b1  a2 = a2  b2 = b2
  NoUpload = NoUpload
  NoJob = NoJob
  Nobody = Nobody
  None = None
INVARIANTS
  TypesOK
  
  LimitsHold
  AdvancesHold
  OldPasswordOpensNothing
  RevokesReuseOnly
  
  ClientIsAnswered
  ClientsAreTrue
  WebsiteIsTrue
  ImagesAreKept
  SetUpIsRepeatable
  TemplatesAreTrue
  BotServesItsClient
PROPERTIES
  VerdictsStand
CHECK_DEADLOCK FALSE
