SPECIFICATION FairSpec
CONSTANTS
  Sessions = {"a", "b"}
  MaxPlanes <- MCMaxPlanes
  MaxTurns <- MCMaxTurns
  Senders = {"b"}
  Enders = {"a"}
  Peers = {"b", "c"}
  Msgs = {"m1"}
  NameOf <- MCNameOf
  MaxKeys <- MCMaxKeys
  Letters <- MCLetters
  SenderMsgs = 1
  SenderBytes = 2
  InboxMax = 2
  BatchRoom = 2
  MaxWakes = 1
  Budget <- MCBudget
  Waits = {"w1", "w2"}
CHECK_DEADLOCK FALSE
INVARIANTS ToldTheTruth RegistryIsTrue
PROPERTIES SessionsConverge
