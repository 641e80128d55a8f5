--------------------------- MODULE ProcessingCodes ----------------------------
(***************************************************************************)
(* Field 3 and the message type of a transaction, internal/proccode, and   *)
(* the type of the answer as internal/auth/engine.go forms it.  Codes are  *)
(* sequences of digits; an account is two digits, or none.                 *)
(***************************************************************************)
EXTENDS Integers, Sequences

TransactionType ==
    {"PURCHASE", "PURCHASE_CASHBACK", "PURCHASE_RETURN", "CASH_WITHDRAWAL", "CASH_ADVANCE",
     "CASH_DEPOSIT", "BALANCE_INQUIRY", "MINI_STATEMENT", "PAYMENT", "TRANSFER",
     "ORIGINAL_CREDIT", "REVERSAL", "ADJUSTMENT", "PREAUTH", "PREAUTH_COMPLETION", "REFUND",
     "CARD_VERIFICATION", "ACCOUNT_VERIFICATION"}

AccDefault  == <<0, 0>>
AccountType == {<<d, 0>> : d \in 0 .. 5}

------------------------------------------------------------------------------
\* The switch of GetProcessingCode.
TxCode(t) ==
    CASE t = "PURCHASE_CASHBACK"                      -> <<0, 9>>
      [] t \in {"PURCHASE_RETURN", "REFUND"}          -> <<2, 0>>
      [] t \in {"CASH_WITHDRAWAL", "CASH_ADVANCE"}    -> <<0, 1>>
      [] t = "CASH_DEPOSIT"                           -> <<2, 1>>
      [] t = "BALANCE_INQUIRY"                        -> <<3, 1>>
      [] t = "MINI_STATEMENT"                         -> <<3, 8>>
      [] t \in {"PAYMENT", "TRANSFER"}                -> <<4, 0>>
      [] t = "ORIGINAL_CREDIT"                        -> <<2, 6>>
      [] t \in {"REVERSAL", "ADJUSTMENT"}             -> <<0, 2>>
      [] t = "ACCOUNT_VERIFICATION"                   -> <<9, 3>>
      [] OTHER                                        -> <<0, 0>>

\* The table of AllTransactionTypes, which the same package keeps beside it.
Listed ==
    [t \in TransactionType |->
        CASE t \in {"PURCHASE", "PREAUTH", "PREAUTH_COMPLETION", "CARD_VERIFICATION"} -> <<0, 0>>
          [] t = "PURCHASE_CASHBACK"                -> <<0, 9>>
          [] t \in {"CASH_WITHDRAWAL", "CASH_ADVANCE"} -> <<0, 1>>
          [] t \in {"REVERSAL", "ADJUSTMENT"}       -> <<0, 2>>
          [] t \in {"PURCHASE_RETURN", "REFUND"}    -> <<2, 0>>
          [] t = "CASH_DEPOSIT"                     -> <<2, 1>>
          [] t = "ORIGINAL_CREDIT"                  -> <<2, 6>>
          [] t = "BALANCE_INQUIRY"                  -> <<3, 1>>
          [] t = "MINI_STATEMENT"                   -> <<3, 8>>
          [] t \in {"PAYMENT", "TRANSFER"}          -> <<4, 0>>
          [] t = "ACCOUNT_VERIFICATION"             -> <<9, 3>>]

GetProcessingCode(t, from, to) ==
    TxCode(t) \o (IF from = <<>> THEN AccDefault ELSE from)
              \o (IF to = <<>> THEN AccDefault ELSE to)

ValidProcessingCode(code) == Len(code) = 6 /\ \A i \in 1 .. 6 : code[i] \in 0 .. 9

ParseProcessingCode(code) ==
    [type |-> SubSeq(code, 1, 2), from |-> SubSeq(code, 3, 4), to |-> SubSeq(code, 5, 6)]

------------------------------------------------------------------------------
\* A fault: the answer to a reversal has the type of other answers.
UniformMTI(t, isResponse) ==
    IF isResponse THEN <<0, 1, 1, 0>>
    ELSE IF t = "REVERSAL" THEN <<0, 4, 0, 0>> ELSE <<0, 1, 0, 0>>

GetMTIForTransaction(t, isResponse) ==
    <<0, IF t = "REVERSAL" THEN 4 ELSE 1, IF isResponse THEN 1 ELSE 0, 0>>

\* The engine: the first two digits, and 10; 04xx is handled as a reversal.
AnswerMTI(mti)      == IF Len(mti) = 4 THEN SubSeq(mti, 1, 2) \o <<1, 0>> ELSE mti
TakenAsReversal(mti) == Len(mti) = 4 /\ SubSeq(mti, 1, 2) = <<0, 4>>
==============================================================================
