SPECIFICATION Spec
CONSTANTS
  Exchanges = {"rpc", "memories", "chats", "screen"}
  Calls = {1, 2}
  Plans <- MCPlans
  MaxLives = 2
  MaxFaults = 1
  Keys = {k1}
  Given = {20, 90}
  DecayAge = 1
  DecayFactor = 50
  PruneAge = 2
  PruneMinImportance = 30
  Runs = {1, 2, 3}
  MaxVisits = 2
  MaxMishapsOfChats = 1
  Hands = {1, 2}
  MaxUses = 3
  MaxTouches = 1
INVARIANTS TypeOK  
PROPERTIES
  RpcImplements UnusedForgotten
CHECK_DEADLOCK FALSE
