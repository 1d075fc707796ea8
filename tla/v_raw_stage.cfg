\* Only the component the property is about.
SPECIFICATION AllSpec
CONSTANTS
  Parts = {"pipeline"}
  Character = {a}
  NoCharacter = NoCharacter
  Column = {"visual"}
  Value = {1, 2}
  Username = {u}
  NoUsername = NoUsername
  MaxVersions = 2
  Shot = {"s1", "s2", "s3"}
  Order <- MCOrder
  Number <- MCNumber
  MaxPosition = 3
  Deal = {"d1"}
  Script = {"t1"}
  Container = {"w1", "w2"}
  Item = {"i1", "i2"}
  Content = {"x"}
  Fan = {"f1", "f2", "f3"}
  NoFan = NoFan
  Identity = {"id1", "id2"}
  NoIdentity = NoIdentity
  Tag = {"t"}
  Source = {"manual"}
  Kind = {"purchase", "negative_interaction"}
  Global = Global
  Weight = {1}
  Amount = 25000
  Wait = {61}
  BatchSize = 1
  MaxEvents = 2
  MaxCount = 1
  MaxDay = 61
  MaxDecays = 1
  Mem = {m1, m2}
  NoMem = NoMem
  Fact = {"f"}
  NoFact = NoFact
  MemScope <- MCScope
  All = All
  Expiry = {0, 2}
  MaxAge = 1
  MaxPrompt = 1
  Asset = {"a1"}
  NoAsset = "none"
  Cast = {"c1", "c2"}
  Role = {"main", "content"}
  PoolRole = {"main"}
PROPERTY
  WorkflowIsGuarded
CHECK_DEADLOCK FALSE
