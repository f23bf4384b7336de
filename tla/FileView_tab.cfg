\* One tab: two roots, two files, every order of answers, failures.
CONSTANTS
  config = config
  client = client
  fa = fa
  fb = fb
  Root = Root
  Roots = {config, client}
  ClientRoot = client
  Files <- MCFiles
  HomeOf <- MCHomeOf
  Nothing = Nothing
  MaxUpload = 2
  MaxClicks = 3
SPECIFICATION FairSpec
INVARIANTS
  FilesTypeOK
  EntriesBelongToPath
  AtRestShowsDisk
PROPERTIES
  ComesToRest
