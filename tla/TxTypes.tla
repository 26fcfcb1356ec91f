------------------------------ MODULE TxTypes -------------------------------
(***************************************************************************)
(* The codes of the transaction types: the constants of                    *)
(* crates/rshooks-core/src/tts.rs, TxType of crates/rshooks/src/tx_type.rs *)
(* with its two conversions, and the table of the builder.                 *)
(***************************************************************************)
EXTENDS Integers, Sequences

\* The tt constants.
tt == [
  PAYMENT |-> 0, ESCROW_CREATE |-> 1, ESCROW_FINISH |-> 2, ACCOUNT_SET |-> 3,
  ESCROW_CANCEL |-> 4, REGULAR_KEY_SET |-> 5, OFFER_CREATE |-> 7, OFFER_CANCEL |-> 8,
  TICKET_CREATE |-> 10, SIGNER_LIST_SET |-> 12, PAYCHAN_CREATE |-> 13, PAYCHAN_FUND |-> 14,
  PAYCHAN_CLAIM |-> 15, CHECK_CREATE |-> 16, CHECK_CASH |-> 17, CHECK_CANCEL |-> 18,
  DEPOSIT_PREAUTH |-> 19, TRUST_SET |-> 20, ACCOUNT_DELETE |-> 21, HOOK_SET |-> 22,
  NFTOKEN_MINT |-> 25, NFTOKEN_BURN |-> 26, NFTOKEN_CREATE_OFFER |-> 27,
  NFTOKEN_CANCEL_OFFER |-> 28, NFTOKEN_ACCEPT_OFFER |-> 29, CLAWBACK |-> 30,
  AMM_CLAWBACK |-> 31, AMM_CREATE |-> 35, AMM_DEPOSIT |-> 36, AMM_WITHDRAW |-> 37,
  AMM_VOTE |-> 38, AMM_BID |-> 39, AMM_DELETE |-> 40, URITOKEN_MINT |-> 45,
  URITOKEN_BURN |-> 46, URITOKEN_BUY |-> 47, URITOKEN_CREATE_SELL_OFFER |-> 48,
  URITOKEN_CANCEL_SELL_OFFER |-> 49, XCHAIN_CREATE_CLAIM_ID |-> 50, XCHAIN_COMMIT |-> 51,
  XCHAIN_CLAIM |-> 52, XCHAIN_ACCOUNT_CREATE_COMMIT |-> 53,
  XCHAIN_ADD_CLAIM_ATTESTATION |-> 54, XCHAIN_ADD_ACCOUNT_CREATE_ATTESTATION |-> 55,
  XCHAIN_MODIFY_BRIDGE |-> 56, XCHAIN_CREATE_BRIDGE |-> 57, DID_SET |-> 58,
  DID_DELETE |-> 59, ORACLE_SET |-> 60, ORACLE_DELETE |-> 61, LEDGER_STATE_FIX |-> 62,
  MPTOKEN_ISSUANCE_CREATE |-> 63, MPTOKEN_ISSUANCE_DESTROY |-> 64,
  MPTOKEN_ISSUANCE_SET |-> 65, MPTOKEN_AUTHORIZE |-> 66, CREDENTIAL_CREATE |-> 67,
  CREDENTIAL_ACCEPT |-> 68, CREDENTIAL_DELETE |-> 69, NFTOKEN_MODIFY |-> 70,
  PERMISSIONED_DOMAIN_SET |-> 71, PERMISSIONED_DOMAIN_DELETE |-> 72, CRON |-> 92,
  CRON_SET |-> 93, REMARKS_SET |-> 94, REMIT |-> 95, GENESIS_MINT |-> 96, IMPORT |-> 97,
  CLAIM_REWARD |-> 98, INVOKE |-> 99, AMENDMENT |-> 100, FEE |-> 101, UNL_MODIFY |-> 102,
  EMIT_FAILURE |-> 103, UNL_REPORT |-> 104]

\* The variants of TxType with their code.
Variant == [
  Payment |-> tt.PAYMENT, EscrowCreate |-> tt.ESCROW_CREATE,
  EscrowFinish |-> tt.ESCROW_FINISH, AccountSet |-> tt.ACCOUNT_SET,
  EscrowCancel |-> tt.ESCROW_CANCEL, SetRegularKey |-> tt.REGULAR_KEY_SET,
  OfferCreate |-> tt.OFFER_CREATE, OfferCancel |-> tt.OFFER_CANCEL,
  TicketCreate |-> tt.TICKET_CREATE, SignerListSet |-> tt.SIGNER_LIST_SET,
  PaymentChannelCreate |-> tt.PAYCHAN_CREATE, PaymentChannelFund |-> tt.PAYCHAN_FUND,
  PaymentChannelClaim |-> tt.PAYCHAN_CLAIM, CheckCreate |-> tt.CHECK_CREATE,
  CheckCash |-> tt.CHECK_CASH, CheckCancel |-> tt.CHECK_CANCEL,
  DepositPreauth |-> tt.DEPOSIT_PREAUTH, TrustSet |-> tt.TRUST_SET,
  AccountDelete |-> tt.ACCOUNT_DELETE, SetHook |-> tt.HOOK_SET,
  NFTokenMint |-> tt.NFTOKEN_MINT, NFTokenBurn |-> tt.NFTOKEN_BURN,
  NFTokenCreateOffer |-> tt.NFTOKEN_CREATE_OFFER,
  NFTokenCancelOffer |-> tt.NFTOKEN_CANCEL_OFFER,
  NFTokenAcceptOffer |-> tt.NFTOKEN_ACCEPT_OFFER, Clawback |-> tt.CLAWBACK,
  AMMClawback |-> tt.AMM_CLAWBACK, AMMCreate |-> tt.AMM_CREATE,
  AMMDeposit |-> tt.AMM_DEPOSIT, AMMWithdraw |-> tt.AMM_WITHDRAW, AMMVote |-> tt.AMM_VOTE,
  AMMBid |-> tt.AMM_BID, AMMDelete |-> tt.AMM_DELETE, URITokenMint |-> tt.URITOKEN_MINT,
  URITokenBurn |-> tt.URITOKEN_BURN, URITokenBuy |-> tt.URITOKEN_BUY,
  URITokenCreateSellOffer |-> tt.URITOKEN_CREATE_SELL_OFFER,
  URITokenCancelSellOffer |-> tt.URITOKEN_CANCEL_SELL_OFFER,
  XChainCreateClaimID |-> tt.XCHAIN_CREATE_CLAIM_ID, XChainCommit |-> tt.XCHAIN_COMMIT,
  XChainClaim |-> tt.XCHAIN_CLAIM,
  XChainAccountCreateCommit |-> tt.XCHAIN_ACCOUNT_CREATE_COMMIT,
  XChainAddClaimAttestation |-> tt.XCHAIN_ADD_CLAIM_ATTESTATION,
  XChainAddAccountCreateAttestation |-> tt.XCHAIN_ADD_ACCOUNT_CREATE_ATTESTATION,
  XChainModifyBridge |-> tt.XCHAIN_MODIFY_BRIDGE,
  XChainCreateBridge |-> tt.XCHAIN_CREATE_BRIDGE, DIDSet |-> tt.DID_SET,
  DIDDelete |-> tt.DID_DELETE, OracleSet |-> tt.ORACLE_SET,
  OracleDelete |-> tt.ORACLE_DELETE, LedgerStateFix |-> tt.LEDGER_STATE_FIX,
  MPTokenIssuanceCreate |-> tt.MPTOKEN_ISSUANCE_CREATE,
  MPTokenIssuanceDestroy |-> tt.MPTOKEN_ISSUANCE_DESTROY,
  MPTokenIssuanceSet |-> tt.MPTOKEN_ISSUANCE_SET,
  MPTokenAuthorize |-> tt.MPTOKEN_AUTHORIZE, CredentialCreate |-> tt.CREDENTIAL_CREATE,
  CredentialAccept |-> tt.CREDENTIAL_ACCEPT, CredentialDelete |-> tt.CREDENTIAL_DELETE,
  NFTokenModify |-> tt.NFTOKEN_MODIFY,
  PermissionedDomainSet |-> tt.PERMISSIONED_DOMAIN_SET,
  PermissionedDomainDelete |-> tt.PERMISSIONED_DOMAIN_DELETE, Cron |-> tt.CRON,
  CronSet |-> tt.CRON_SET, SetRemarks |-> tt.REMARKS_SET, Remit |-> tt.REMIT,
  GenesisMint |-> tt.GENESIS_MINT, Import |-> tt.IMPORT, ClaimReward |-> tt.CLAIM_REWARD,
  Invoke |-> tt.INVOKE, EnableAmendment |-> tt.AMENDMENT, SetFee |-> tt.FEE,
  UNLModify |-> tt.UNL_MODIFY, EmitFailure |-> tt.EMIT_FAILURE, UNLReport |-> tt.UNL_REPORT]

\* From<u16> for TxType, and code; a code unknown to the crate is kept.
FromCode(c) ==
  IF \E v \in DOMAIN Variant : Variant[v] = c
  THEN [known |-> TRUE, type |-> CHOOSE v \in DOMAIN Variant : Variant[v] = c]
  ELSE [known |-> FALSE, type |-> c]
Code(ty) == IF ty.known THEN Variant[ty.type] ELSE ty.type

\* TRANSACTION_TYPES and TRANSACTION_TYPE_CODES, position for position.
TransactionTypes == <<
  "Payment", "EscrowCreate", "EscrowFinish", "AccountSet", "EscrowCancel", "SetRegularKey",
  "OfferCreate", "OfferCancel", "TicketCreate", "SignerListSet", "PaymentChannelCreate",
  "PaymentChannelFund", "PaymentChannelClaim", "CheckCreate", "CheckCash", "CheckCancel",
  "DepositPreauth", "TrustSet", "AccountDelete", "SetHook", "NFTokenMint", "NFTokenBurn",
  "NFTokenCreateOffer", "NFTokenCancelOffer", "NFTokenAcceptOffer", "Clawback",
  "AMMClawback", "AMMCreate", "AMMDeposit", "AMMWithdraw", "AMMVote", "AMMBid",
  "AMMDelete", "URITokenMint", "URITokenBurn", "URITokenBuy", "URITokenCreateSellOffer",
  "URITokenCancelSellOffer", "XChainCreateClaimID", "XChainCommit", "XChainClaim",
  "XChainAccountCreateCommit", "XChainAddClaimAttestation",
  "XChainAddAccountCreateAttestation", "XChainModifyBridge", "XChainCreateBridge",
  "DIDSet", "DIDDelete", "OracleSet", "OracleDelete", "LedgerStateFix",
  "MPTokenIssuanceCreate", "MPTokenIssuanceDestroy", "MPTokenIssuanceSet",
  "MPTokenAuthorize", "CredentialCreate", "CredentialAccept", "CredentialDelete",
  "NFTokenModify", "PermissionedDomainSet", "PermissionedDomainDelete", "Cron", "CronSet",
  "SetRemarks", "Remit", "GenesisMint", "Import", "ClaimReward", "Invoke",
  "EnableAmendment", "SetFee", "UNLModify", "EmitFailure", "UNLReport">>
MutTransactionTypeCodes == [i \in 1..74 |-> i - 1]
TransactionTypeCodes == <<
  0, 1, 2, 3, 4, 5, 7, 8, 10, 12, 13, 14, 15, 16, 17, 18, 19, 20, 21, 22, 25, 26, 27, 28,
  29, 30, 31, 35, 36, 37, 38, 39, 40, 45, 46, 47, 48, 49, 50, 51, 52, 53, 54, 55, 56, 57,
  58, 59, 60, 61, 62, 63, 64, 65, 66, 67, 68, 69, 70, 71, 72, 92, 93, 94, 95, 96, 97, 98,
  99, 100, 101, 102, 103, 104>>
=============================================================================
