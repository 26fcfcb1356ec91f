CONSTANTS
  Decls <- MCDecls
  U32Len = 2
  AmountLen = 2
  AccLen = 2
  MaxDrops = 16384
  U32s = {300}
  Drops = {3, 16384}
  Accounts <- MCAccounts
  HookAccount <- MCHookAccount
  LedgerSeq = 254
  MaxHeld = 2
SPECIFICATION Spec
INVARIANTS BlobDecodes EmitReady
