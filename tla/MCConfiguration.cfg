CONSTANTS
  CommandLines <- MCCommandLines
  Contents <- MCContents
  Answers <- MCAnswers
  Wallets <- MCWallets
  Hosts <- MCHosts
  Names <- MCNames
  Hostname = "host"
  Cores = 2
  MaxThreads = 4
  UIntWords = 10
SPECIFICATION Spec
INVARIANTS
  TypeOK
  OptionsDecide
  SavedRunsAgain
  TypedThreadsFit
