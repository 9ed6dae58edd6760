----------------------- MODULE ApplicationFormProofs -----------------------
(***************************************************************************)
(* Proofs about ApplicationForm, for any texts, consents, amounts and least *)
(* fees.                                                                    *)
(***************************************************************************)
EXTENDS ApplicationForm, TLAPS

FormInv == TypeOK /\ OfferedFeeIsKnown /\ StoredFeeFits

(* The least fees are fees. *)
LEMMA MinFeeFits ==
  ASSUME NEW y \in BOOLEAN
  PROVE  /\ MinFee(y) \in 0 .. FeeLimit - 1 /\ MinFee(y) \in Nat
         /\ MinFee(y) \in {MonthlyFee, YearlyFee}
         /\ 2 * MinFee(y) < FeeLimit - 1
BY FormAssumption DEF MinFee

(* The integer that is made of an amount is a fee, and no less than any     *)
(* least fee that the amount is no less than.                               *)
LEMMA WholeFits ==
  ASSUME NEW n \in Nat, NEW f \in Whole(n)
  PROVE  /\ f \in 0 .. FeeLimit - 1
         /\ \A y \in BOOLEAN : n >= 100 * MinFee(y) => f >= MinFee(y)
<1>1. FeeLimit \in Nat /\ FeeLimit > 1
  BY FormAssumption
<1>2. /\ n \div 100 \in Nat /\ 100 * (n \div 100) <= n
      /\ n < 100 * (n \div 100) + 100
  OBVIOUS
<1>3. /\ FeeLimit \div 2 \in Nat /\ 2 * (FeeLimit \div 2) <= FeeLimit
      /\ FeeLimit <= 2 * (FeeLimit \div 2) + 1
  BY <1>1
<1>4. \A y \in BOOLEAN : /\ MinFee(y) \in Nat
                         /\ 2 * MinFee(y) < FeeLimit - 1
  BY MinFeeFits
<1>5. CASE n \div 100 < FeeLimit
  <2>1. f = n \div 100
    BY <1>5 DEF Whole
  <2> QED BY <1>1, <1>2, <1>4, <1>5, <2>1
<1>6. CASE ~ (n \div 100 < FeeLimit)
  <2>1. f = FeeLimit \div 2 \/ f = FeeLimit - 1
    BY <1>6 DEF Whole
  <2> QED BY <1>1, <1>3, <1>4, <2>1
<1> QED BY <1>5, <1>6

(* What the record gets as its fee. *)
LEMMA FeesFit ==
  ASSUME TypeOK, NEW f \in Fees
  PROVE  /\ f \in 0 .. FeeLimit - 1
         /\ f >= MinFee(form.yearly) \/ form.reduction
<1>1. form.yearly \in BOOLEAN
  BY DEF TypeOK, Forms
<1>2. CASE form.custom
  <2>1. CustomFeeFits /\ f \in Whole(Fee)
    BY <1>2 DEF Fees
  <2>2. Fee \in Nat
    BY DEF Fee
  <2>3. Fee >= 100 * MinFee(form.yearly) \/ form.reduction
    BY <2>1 DEF CustomFeeFits
  <2> QED BY <1>1, <2>1, <2>2, <2>3, WholeFits
<1>3. CASE ~ form.custom
  <2>1. f = MinFee(form.yearly)
    BY <1>3 DEF Fees
  <2> QED BY <1>1, <2>1, MinFeeFits
<1> QED BY <1>2, <1>3

(* What is stored fits. *)
LEMMA StoreRecordFits ==
  ASSUME FormInv, NEW n \in Fees, StoreRecord(n)
  PROVE  /\ applications' \subseteq
              [missing : SUBSET Texts, yearly : BOOLEAN,
               fee : 0 .. FeeLimit - 1, reduction : BOOLEAN]
         /\ StoredFeeFits'
<1> DEFINE a == [missing |-> form.missing, yearly |-> form.yearly, fee |-> n,
                 reduction |-> form.reduction]
<1>1. /\ n \in 0 .. FeeLimit - 1
      /\ n >= MinFee(form.yearly) \/ form.reduction
  BY FeesFit DEF FormInv
<1>2. a \in [missing : SUBSET Texts, yearly : BOOLEAN,
             fee : 0 .. FeeLimit - 1, reduction : BOOLEAN]
  BY <1>1 DEF FormInv, TypeOK, Forms
<1>3. applications' = applications \cup {a}
  BY DEF StoreRecord
<1>4. a.fee >= MinFee(a.yearly) \/ a.reduction
  BY <1>1
<1>5. StoredFeeFits'
  BY <1>3, <1>4 DEF FormInv, StoredFeeFits
<1> QED BY <1>2, <1>3, <1>5 DEF FormInv, TypeOK

(* The form that is shown again is one, and offers the yearly fee with the  *)
(* year.                                                                    *)
LEMMA RenderFits ==
  ASSUME TypeOK, RenderForm
  PROVE  form' \in Forms /\ page' = "form" /\ OfferedFeeIsKnown'
<1>1. ASSUME NEW amount \in Nat \cup {NoAmount, Junk}, form' = Rendered(amount)
      PROVE  form' \in Forms /\ OfferedFeeIsKnown'
  <2>1. form' \in Forms
    BY <1>1 DEF Rendered, TypeOK, Forms
  <2>2. form'.yearly = TRUE /\ form'.least = YearlyFee
    BY <1>1 DEF Rendered, TypeOK, Forms
  <2> QED BY <2>1, <2>2 DEF OfferedFeeIsKnown, MinFee
<1>2. \A n \in Fees : 100 * n \in Nat
  <2> TAKE n \in Fees
  <2>1. n \in 0 .. FeeLimit - 1 /\ FeeLimit \in Nat
    BY FeesFit, FormAssumption
  <2> QED BY <2>1
<1> QED BY <1>1, <1>2 DEF RenderForm

(* The applicant's steps. *)
LEMMA FillFits ==
  ASSUME FormInv, NEW f \in Forms, Fill(f), f.least = MinFee(f.yearly)
  PROVE  FormInv'
BY DEF FormInv, Fill, TypeOK, OfferedFeeIsKnown, StoredFeeFits

LEMMA ApplicantFits == ASSUME FormInv, Applicant PROVE FormInv'
<1> USE DEF FormInv, TypeOK, Forms, OfferedFeeIsKnown
<1>1. ASSUME NEW t \in Texts, EnterText(t) PROVE FormInv'
  BY <1>1, FillFits DEF EnterText
<1>2. ASSUME NEW d \in Fields, EnterField(d) PROVE FormInv'
  BY <1>2, FillFits DEF EnterField
<1>3. ASSUME NEW c \in Consents, Agree(c) PROVE FormInv'
  BY <1>3, FillFits DEF Agree
<1>4. ASSUME NEW b \in BOOLEAN, ChoosePeriod(b) PROVE FormInv'
  BY <1>4, FillFits, MinFeeFits DEF ChoosePeriod
<1>5. ASSUME NEW b \in BOOLEAN, ChooseFee(b) PROVE FormInv'
  BY <1>5, FillFits DEF ChooseFee
<1>6. ASSUME NEW b \in BOOLEAN, AskForReduction(b) PROVE FormInv'
  BY <1>6, FillFits DEF AskForReduction
<1>7. ASSUME NEW n \in Amounts \cup {NoAmount, Junk}, EnterAmount(n)
      PROVE  FormInv'
  BY <1>7, FillFits, FormAssumption DEF EnterAmount
<1>8. CASE Load
  BY <1>8 DEF Load, EmptyForm, MinFee, StoredFeeFits, Fields
<1>9. CASE Back
  BY <1>9 DEF Back, StoredFeeFits
<1> QED BY <1>1, <1>2, <1>3, <1>4, <1>5, <1>6, <1>7, <1>8, <1>9 DEF Applicant

LEMMA NextFits == ASSUME FormInv, [Next]_vars PROVE FormInv'
<1>1. CASE Applicant
  BY <1>1, ApplicantFits
<1>2. CASE Refuse
  BY <1>2, RenderFits DEF Refuse, FormInv, TypeOK, StoredFeeFits
<1>3. CASE Accept
  BY <1>3, StoreRecordFits DEF Accept, FormInv, TypeOK, OfferedFeeIsKnown
<1>4. CASE StoreFails
  <2>1. form' \in Forms /\ page' = "form" /\ OfferedFeeIsKnown'
    BY <1>4, RenderFits DEF StoreFails, FormInv
  <2>2. CASE UNCHANGED applications
    BY <2>1, <2>2 DEF FormInv, TypeOK, StoredFeeFits
  <2>3. CASE \E n \in Fees : StoreRecord(n)
    BY <2>1, <2>3, StoreRecordFits DEF FormInv, TypeOK
  <2> QED BY <1>4, <2>2, <2>3 DEF StoreFails
<1>5. CASE AnswerLost
  BY <1>5, StoreRecordFits DEF AnswerLost, FormInv, TypeOK, OfferedFeeIsKnown
<1>6. CASE UNCHANGED vars
  BY <1>6 DEF vars, FormInv, TypeOK, OfferedFeeIsKnown, StoredFeeFits
<1> QED BY <1>1, <1>2, <1>3, <1>4, <1>5, <1>6 DEF Next

LEMMA InitFits == ASSUME Init PROVE FormInv
BY FormAssumption
   DEF Init, EmptyForm, FormInv, TypeOK, Forms, Fields, OfferedFeeIsKnown,
       StoredFeeFits, MinFee

(* The variables keep their types: what is stored as a fee is an integer of *)
(* 64 bits, whatever amount was entered (formvalidator.go).                 *)
THEOREM TypeCorrect == Spec => []TypeOK
<1>1. Init => FormInv BY InitFits
<1>2. FormInv /\ [Next]_vars => FormInv' BY NextFits
<1>3. FormInv => TypeOK BY DEF FormInv
<1> QED BY <1>1, <1>2, <1>3, PTL DEF Spec

(* The template, the script of the form and the handler go together in what *)
(* the least fee is.                                                        *)
THEOREM OfferedIsKnown == Spec => []OfferedFeeIsKnown
<1>1. Init => FormInv BY InitFits
<1>2. FormInv /\ [Next]_vars => FormInv' BY NextFits
<1>3. FormInv => OfferedFeeIsKnown BY DEF FormInv
<1> QED BY <1>1, <1>2, <1>3, PTL DEF Spec

(* No stored fee is below the least of its period, except where a reduction *)
(* was asked for.                                                           *)
THEOREM StoredFeesFit == Spec => []StoredFeeFits
<1>1. Init => FormInv BY InitFits
<1>2. FormInv /\ [Next]_vars => FormInv' BY NextFits
<1>3. FormInv => StoredFeeFits BY DEF FormInv
<1> QED BY <1>1, <1>2, <1>3, PTL DEF Spec
=============================================================================
