------------------------------- MODULE StObject -------------------------------
(***************************************************************************)
(* The wire format's building blocks that every encoder of transactions    *)
(* uses (crates/rshooks/src/txn.rs, module codec): field headers, big-     *)
(* endian integers, native amounts, and how a header is read back.  Bytes  *)
(* are numbers below 256.                                                  *)
(***************************************************************************)
EXTENDS Naturals, Sequences

CONSTANTS U32Len, AmountLen, AccLen   \* payload widths: 4, 8 and 20 bytes

\* Fields by <<type code, field code>>.
sfTransactionType == <<1, 2>>
sfSequence == <<2, 4>>
sfFirstLedgerSequence == <<2, 26>>
sfLastLedgerSequence == <<2, 27>>
sfFee == <<6, 8>>
sfSigningPubKey == <<7, 3>>
sfAccount == <<8, 1>>
sfFlags == <<2, 2>>
sfDestination == <<8, 3>>

BigEndian(v, n) == [i \in 1 .. n |-> (v \div 256 ^ (n - i)) % 256]

FieldHeader(code) ==
  LET type == code[1]
      field == code[2]
  IN  CASE type < 16 /\ field < 16   -> <<type * 16 + field>>
        [] type < 16 /\ field >= 16  -> <<type * 16, field>>
        [] type >= 16 /\ field < 16  -> <<field * 16, type>>
        [] type >= 16 /\ field >= 16 -> <<0, type, field>>

\* The flag 0x40 of a native amount in its first byte.
NativeAmount(drops) ==
  [BigEndian(drops, AmountLen) EXCEPT ![1] = @ + 64]

Malformed == [code |-> "malformed", value |-> << >>]

\* A zero type (field) nibble stands for a type (field) byte that follows.
ReadCode(b) ==
  LET type  == b[1] \div 16
      field == b[1] % 16
  IN  CASE type # 0 /\ field # 0 -> [code |-> <<type, field>>, len |-> 1]
        [] type = 0 /\ field # 0 -> [code |-> <<b[2], field>>, len |-> 2]
        [] type # 0 /\ field = 0 -> [code |-> <<type, b[2]>>, len |-> 2]
        [] OTHER                 -> [code |-> <<b[2], b[3]>>, len |-> 3]
=============================================================================
