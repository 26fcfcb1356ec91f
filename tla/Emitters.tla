------------------------------- MODULE Emitters -------------------------------
(***************************************************************************)
(* The transactions that the governance and reward Hooks build by hand and *)
(* emit: the GenesisMint of examples/80_reward/src/mint_txn.rs, the        *)
(* forwarded vote and the HookSet of examples/81_govern/src/txn.rs, byte   *)
(* by byte, and how the protocol reads them back.                          *)
(*                                                                         *)
(* Offsets count from 0.  A transaction under construction is a record of  *)
(* the bytes pushed so far and the offsets that are patched at the end.    *)
(***************************************************************************)
EXTENDS StObject

CONSTANTS
  HashLen, PubKeyLen,  \* 32 and 33 bytes
  Positions,           \* the Hooks of a HookSet (10 in the code)
  FeeOf(_),            \* etxn_fee_base, of the blob's length
  Address,             \* account -> its AccLen bytes
  GenesisAccount       \* GENESIS_ACCOUNT

sfHookHash == <<5, 31>>
sfAmount == <<6, 1>>
sfCreateCode == <<7, 11>>
sfHookParameterName == <<7, 24>>
sfHookParameterValue == <<7, 25>>
sfEmitDetails == <<14, 13>>
sfHook == <<14, 14>>
sfHookParameter == <<14, 23>>
sfGenesisMint == <<14, 96>>
sfHooks == <<15, 11>>
sfHookParameters == <<15, 19>>
sfGenesisMints == <<15, 96>>

ttHOOK_SET == 22
ttGENESIS_MINT == 96
ttINVOKE == 99

ObjectEnd == 225
ArrayEnd == 241

Zeros(n) == [i \in 1 .. n |-> 0]

tfCANONICAL == [Zeros(U32Len) EXCEPT ![1] = 128]

\* Overwriting bytes in place, as the patches do.
Patch(buf, offset, src) ==
  [i \in DOMAIN buf |-> IF offset < i /\ i <= offset + Len(src) THEN src[i - offset] ELSE buf[i]]

-----------------------------------------------------------------------------
(* mint_txn.rs *)

U32Field(code, v) == FieldHeader(code) \o BigEndian(v, U32Len)
AccountField(code, a) == FieldHeader(code) \o <<AccLen>> \o Address[a]

\* MintTxn::start.  push_field_header and push_u32_field return the offset at
\* which they began to write, that is, of the header.
MintStart ==
  LET b1 == FieldHeader(sfTransactionType) \o BigEndian(ttGENESIS_MINT, 2)
              \o FieldHeader(sfFlags) \o tfCANONICAL \o U32Field(sfSequence, 0)
      b2 == b1 \o U32Field(sfFirstLedgerSequence, 0)
      b3 == b2 \o U32Field(sfLastLedgerSequence, 0)
      b4 == b3 \o FieldHeader(sfFee) \o Zeros(AmountLen)
              \o FieldHeader(sfSigningPubKey) \o <<PubKeyLen>> \o Zeros(PubKeyLen)
              \o AccountField(sfAccount, GenesisAccount)
  IN  [buf |-> b4, fls |-> Len(b1), lls |-> Len(b2), fee |-> Len(b3)]

\* push_entry
MintEntry(e) ==
  FieldHeader(sfGenesisMint) \o FieldHeader(sfAmount) \o NativeAmount(e.drops)
    \o AccountField(sfDestination, e.to) \o <<ObjectEnd>>

RECURSIVE Flat(_)
Flat(seqs) == IF seqs = << >> THEN << >> ELSE Head(seqs) \o Flat(Tail(seqs))

\* finish: closes the array, patches the ledger window and then the fee, which
\* is asked for the whole blob.
MintBlob(entries, details, seq) ==
  LET t    == MintStart
      body == t.buf \o details \o FieldHeader(sfGenesisMints)
                \o Flat([i \in DOMAIN entries |-> MintEntry(entries[i])]) \o <<ArrayEnd>>
      seqs == Patch(Patch(body, t.fls, BigEndian(seq + 1, U32Len)), t.lls, BigEndian(seq + 5, U32Len))
  IN  Patch(seqs, t.fee, NativeAmount(FeeOf(Len(seqs))))

-----------------------------------------------------------------------------
(* txn.rs *)

\* write_common_header: the fee's offset is one past its one-byte header.
CommonHeader(tt, seq, account) ==
  LET b1 == FieldHeader(sfTransactionType) \o BigEndian(tt, 2)
              \o FieldHeader(sfFlags) \o tfCANONICAL \o U32Field(sfSequence, 0)
              \o U32Field(sfFirstLedgerSequence, seq + 1) \o U32Field(sfLastLedgerSequence, seq + 5)
  IN  [buf |-> b1 \o FieldHeader(sfFee) \o Zeros(AmountLen)
                 \o FieldHeader(sfSigningPubKey) \o <<0>> \o AccountField(sfAccount, account),
       fee |-> Len(b1) + 1]

FinishFee(buf, offset) == Patch(buf, offset, NativeAmount(FeeOf(Len(buf))))

\* emit_l1_vote_forward: two byte templates with the topic and the value
\* between them.  No EmitDetails are written, and a zero precedes the topic.
ForwardBlob(table, type, id, value, seq) ==
  LET t == CommonHeader(ttINVOKE, seq, table)
  IN  FinishFee(t.buf \o AccountField(sfDestination, GenesisAccount)
                  \o <<240, 19, 224, 23, 112, 24, 1, 84, 112, 25, 2, 0, type, id>>
                  \o <<225, 224, 23, 112, 24, 1, 86, 112, 25, Len(value)>> \o value
                  \o <<ObjectEnd, ArrayEnd>>, t.fee)

\* (mutant) The voted position is counted from 1.
MutHookEntry(i, slot, hash) ==
  FieldHeader(sfHook)
    \o (IF i + 1 # slot THEN << >>
        ELSE U32Field(sfFlags, 1)
               \o (IF hash = << >> THEN FieldHeader(sfCreateCode) \o <<0>> ELSE FieldHeader(sfHookHash) \o hash))
    \o <<ObjectEnd>>

\* One of the Hook objects of a HookSet: hsfOVERRIDE and either the hash
\* or an empty CreateCode at the voted position, nothing anywhere else.
HookEntry(i, slot, hash) ==
  FieldHeader(sfHook)
    \o (IF i # slot THEN << >>
        ELSE U32Field(sfFlags, 1)
               \o (IF hash = << >> THEN FieldHeader(sfCreateCode) \o <<0>> ELSE FieldHeader(sfHookHash) \o hash))
    \o <<ObjectEnd>>

\* emit_hookset
HookSetBlob(table, slot, hash, details, seq) ==
  LET t == CommonHeader(ttHOOK_SET, seq, table)
  IN  FinishFee(t.buf \o details \o FieldHeader(sfHooks)
                  \o Flat([i \in 1 .. Positions |-> HookEntry(i - 1, slot, hash)]) \o <<ArrayEnd>>, t.fee)

-----------------------------------------------------------------------------
(* How the protocol reads a transaction *)

Bad == [fields |-> <<Malformed>>, rest |-> << >>]
From(b, n) == SubSeq(b, n, Len(b))

\* The fields of an object up to its end marker (end = 225), of an array's
\* elements up to its (241), or of a transaction up to the last byte (0).
RECURSIVE Fields(_, _)
Fields(b, end) ==
  IF b = << >> THEN (IF end = 0 THEN [fields |-> << >>, rest |-> << >>] ELSE Bad)
  ELSE IF end # 0 /\ b[1] = end THEN [fields |-> << >>, rest |-> From(b, 2)]
  ELSE IF Len(b) < 3 THEN Bad
  ELSE LET head   == ReadCode(b)
           type   == head.code[1]
           after  == From(b, head.len + 1)
           nested == Fields(after, IF type = 14 THEN ObjectEnd ELSE ArrayEnd)
           span   == CASE type = 1 -> <<0, 2>> [] type = 2 -> <<0, U32Len>>
                       [] type = 5 -> <<0, HashLen>> [] type = 6 -> <<0, AmountLen>>
                       [] type \in {7, 8} /\ after # << >> -> <<1, after[1]>>
                       [] OTHER -> <<0, Len(after) + 1>>
           value  == IF type \in {14, 15} THEN nested.fields
                     ELSE SubSeq(after, span[1] + 1, span[1] + span[2])
           left   == IF type \in {14, 15} THEN nested.rest ELSE From(after, span[1] + span[2] + 1)
           more   == Fields(left, end)
       IN  IF type \notin {14, 15} /\ span[1] + span[2] > Len(after) THEN Bad
           ELSE IF \E i \in DOMAIN nested.fields : type \in {14, 15} /\ nested.fields[i] = Malformed THEN Bad
           ELSE [fields |-> <<[code |-> head.code, value |-> value]>> \o more.fields, rest |-> more.rest]

Read(b) == Fields(b, 0).fields

F(code, value) == [code |-> code, value |-> value]

\* The fields that every emitted transaction begins with.
Preamble(tt, seq, len, key, account) ==
  << F(sfTransactionType, BigEndian(tt, 2)), F(sfFlags, tfCANONICAL),
     F(sfSequence, BigEndian(0, U32Len)),
     F(sfFirstLedgerSequence, BigEndian(seq + 1, U32Len)),
     F(sfLastLedgerSequence, BigEndian(seq + 5, U32Len)),
     F(sfFee, NativeAmount(FeeOf(len))), F(sfSigningPubKey, key), F(sfAccount, Address[account]) >>

DetailsField(details) == Read(details)[1]

\* 80_reward/README.md, "GenesisMint wire format".
MintReads(entries, details, seq) ==
  LET b == MintBlob(entries, details, seq) IN
  Read(b) =
    Preamble(ttGENESIS_MINT, seq, Len(b), Zeros(PubKeyLen), GenesisAccount)
      \o << DetailsField(details),
            F(sfGenesisMints, [i \in DOMAIN entries |->
                F(sfGenesisMint, <<F(sfAmount, NativeAmount(entries[i].drops)),
                                   F(sfDestination, Address[entries[i].to])>>)]) >>

\* 81_govern/README.md, "Emitted transactions": the forwarded vote.
ForwardReads(table, type, id, value, details, seq) ==
  LET b == ForwardBlob(table, type, id, value, seq) IN
  Read(b) =
    Preamble(ttINVOKE, seq, Len(b), << >>, table)
      \o << F(sfDestination, Address[GenesisAccount]), DetailsField(details),
            F(sfHookParameters,
              << F(sfHookParameter, <<F(sfHookParameterName, <<84>>), F(sfHookParameterValue, <<type, id>>)>>),
                 F(sfHookParameter, <<F(sfHookParameterName, <<86>>), F(sfHookParameterValue, value)>>) >>) >>

\* 81_govern/README.md, "Emitted transactions": nine empty Hook objects and
\* the voted one.
HookSetReads(table, slot, hash, details, seq) ==
  LET b == HookSetBlob(table, slot, hash, details, seq) IN
  Read(b) =
    Preamble(ttHOOK_SET, seq, Len(b), << >>, table)
      \o << DetailsField(details),
            F(sfHooks, [i \in 1 .. Positions |->
                F(sfHook, IF i # slot + 1 THEN << >>
                          ELSE <<F(sfFlags, BigEndian(1, U32Len)),
                                 IF hash = << >> THEN F(sfCreateCode, << >>) ELSE F(sfHookHash, hash)>>)]) >>
=============================================================================
