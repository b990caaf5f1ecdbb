SPECIFICATION AuthSpec
CONSTANTS
  main = main
  Callers = {main}
  ka = ka
  kb = kb
  rsa1 = rsa1
  rsa2 = rsa2
  rsa3 = rsa3
  Kids = {ka, kb}
  Keys = {rsa1, rsa2, rsa3}
  ActiveKid = ka
  Dirs <- MCDirs
  NoKey = NoKey
  NoKid = NoKid
INVARIANTS AuthTypeOK SignerVerifies AcceptsWhatWasMounted ServesAllOrNothing
