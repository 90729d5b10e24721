SPECIFICATION FairSpec
CONSTANTS
  a1 = a1
  i1 = i1
  i2 = i2
  i3 = i3
  v = v
  None = None
  Daemons = {d1, d2}
  Intents = {i1, i2}
  Agents = {a1}
  Devices = {v}
  ActionOf <- MCCreation
  AgentOf <- MCAgentOf
  ActorOf <- MCActorOf
  FaultBound = 1
  QuestionBound = 1
  EndBound = 1
PROPERTIES
  ImplementsLedger
  PendingIsTaken
