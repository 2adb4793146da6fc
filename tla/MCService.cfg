CONSTANTS
  tevm = tevm
  tibc = tibc
  bsc = bsc
  rinkeby = rinkeby
  atom = atom
  usdt = usdt
  eth = eth
  Chains = {tevm, tibc, bsc, rinkeby, atom}
  Cosmos = {tibc, atom}
  TeleEvm = tevm
  TeleIbc = tibc
  NoChain = noChain
  Names <- MCNames
  Tokens = {usdt, eth}
  Name <- MCName
  Configured = {tevm, tibc, bsc, atom}
  ChainMap <- MCChainMap
  Upstream <- MCUpstream
  Loaders = {1}
  MaxFailures = 2
SPECIFICATION FairSpec
INVARIANTS TypeOK TokensHaveAddresses FilledWithTokens ManagedIsOffered
PROPERTIES BridgesStay CatchesUp
