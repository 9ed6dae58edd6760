-------------------------- MODULE ApplicationForm --------------------------
(***************************************************************************)
(* The membership application: html/form.html in the browser of one         *)
(* applicant, and FormInputHandler (membersys/formvalidator.go), which      *)
(* checks what is sent, and stores it or shows the form again.              *)
(*                                                                          *)
(* A request and its answer are one step: the handler keeps nothing between *)
(* requests and reads nothing that others write.  The answer may be lost.   *)
(* The database is the interface MembershipDB (db.go).                      *)
(*                                                                          *)
(* Of the fields of the form there is what the handler tells apart.         *)
(* Amounts are in centimes, as a field of numbers from 1 on gives them      *)
(* (type="number"); NoAmount is the empty field, Junk what a browser that   *)
(* does not know such fields sends and is no number.                        *)
(***************************************************************************)
EXTENDS Integers, FiniteSets

CONSTANTS
  Texts,      \* the fields that are only looked at for being empty
  Consents,   \* what has to be agreed to, and the age
  Amounts,    \* the numbers that are entered as the fee
  NoAmount, Junk,
  MonthlyFee, YearlyFee,  \* the least fees, in francs
  FeeLimit,   \* fees are integers below this, 2^64 in the code
  MaxStored   \* bound: applications that are stored

Fields == {"email", "telephone", "password"}

ASSUME FormAssumption ==
  /\ Amounts \subseteq Nat
  /\ NoAmount \notin Nat /\ Junk \notin Nat /\ NoAmount # Junk
  /\ MonthlyFee \in Nat /\ YearlyFee \in Nat
  /\ FeeLimit \in Nat
  /\ 2 * MonthlyFee < FeeLimit - 1 /\ 2 * YearlyFee < FeeLimit - 1
  /\ MaxStored \in Nat

VARIABLES
  form,         \* what is in the form in the browser
  page,         \* what the browser shows: the form or the page to print
  applications  \* what was stored, with what was asked for with it

vars == <<form, page, applications>>

MinFee(yearly) == IF yearly THEN YearlyFee ELSE MonthlyFee

(* The form: the texts that are missing, the fields that are not accepted,  *)
(* what was agreed to, the period, the amount that goes with the first      *)
(* choice of the fee, whether the other is chosen, and what is in it.       *)
Forms == [missing : SUBSET Texts, wrong : SUBSET Fields,
          agreed : SUBSET Consents, yearly : BOOLEAN,
          least : {MonthlyFee, YearlyFee}, custom : BOOLEAN,
          amount : Nat \cup {NoAmount, Junk}, reduction : BOOLEAN]

EmptyForm ==
  [missing |-> Texts, wrong |-> {"email"}, agreed |-> {}, yearly |-> FALSE,
   least |-> MonthlyFee, custom |-> TRUE, amount |-> NoAmount,
   reduction |-> FALSE]

Init ==
  /\ form = EmptyForm
  /\ page = "form"
  /\ applications = {}
-----------------------------------------------------------------------------
(* The applicant and the scripts of the form. *)

Fill(f) ==
  /\ page = "form"
  /\ form' = f
  /\ UNCHANGED <<page, applications>>

EnterText(t) == \E m \in {form.missing \cup {t}, form.missing \ {t}} :
                  Fill([form EXCEPT !.missing = m])

EnterField(d) == \E w \in {form.wrong \cup {d}, form.wrong \ {d}} :
                   Fill([form EXCEPT !.wrong = w])

Agree(c) == \E a \in {form.agreed \cup {c}, form.agreed \ {c}} :
              Fill([form EXCEPT !.agreed = a])

(* The change of the period changes the amount of the first choice. *)
ChoosePeriod(y) == Fill([form EXCEPT !.yearly = y, !.least = MinFee(y)])

(* The field of the amount is for the second choice only. *)
ChooseFee(c) == Fill([form EXCEPT !.custom = c])

EnterAmount(n) == form.custom /\ Fill([form EXCEPT !.amount = n])

AskForReduction(b) == Fill([form EXCEPT !.reduction = b])

(* The page is loaded, or the applicant goes back to the form. *)
Load ==
  /\ page' = "form" /\ form' = EmptyForm
  /\ UNCHANGED applications

Back ==
  /\ page = "print" /\ page' = "form"
  /\ UNCHANGED <<form, applications>>
-----------------------------------------------------------------------------
(* FormInputHandler. *)

(* What ParseFloat returns, in centimes: 0 without an amount or a number. *)
Sent == IF form.custom THEN form.amount ELSE NoAmount
Fee == IF Sent \in Nat THEN Sent ELSE 0

(* Mutant: integers have no limit. *)
Unlimited(n) == {n \div 100}

(* uint64(fee): the fraction is cut off; beyond the limit it is one or the  *)
(* other, depending on the processor.                                       *)
Whole(n) == IF n \div 100 < FeeLimit THEN {n \div 100}
            ELSE {FeeLimit \div 2, FeeLimit - 1}

(* Mutant: the yearly fee is compared with the monthly one. *)
CustomFeeFitsMonthly ==
  /\ Fee >= 100 * MonthlyFee \/ form.reduction
  /\ Sent # NoAmount

CustomFeeFits ==
  /\ Fee >= 100 * MinFee(form.yearly) \/ form.reduction
  /\ Sent # NoAmount

FeeFits ==
  /\ Sent # Junk
  /\ IF form.custom THEN CustomFeeFits ELSE form.least = MinFee(form.yearly)

(* The fees that the record may get; none when the fee is refused. *)
Fees ==
  IF form.custom
  THEN IF CustomFeeFits THEN Whole(Fee) ELSE {}
  ELSE IF form.least = MinFee(form.yearly) THEN {MinFee(form.yearly)} ELSE {}

(* "ok".  A missing text is an error of the form, but leaves ok as it is. *)
Acceptable == form.wrong = {} /\ form.agreed = Consents /\ FeeFits

(* Mutant: the first choice is always the monthly fee. *)
RenderedMonthly(amount) ==
  [form EXCEPT !.wrong = form.wrong \cap {"email"}, !.agreed = {}, !.yearly = TRUE,
               !.least = MonthlyFee, !.custom = TRUE, !.amount = amount,
               !.reduction = FALSE]

(* The form as the template shows it again.  FeeYearly is a pointer that is *)
(* set, so that it is true for the template whatever it points to.  What is *)
(* not accepted is left out, and passwords and what was agreed to are.      *)
Rendered(amount) ==
  [form EXCEPT !.wrong = form.wrong \cap {"email"}, !.agreed = {},
               !.yearly = TRUE, !.least = YearlyFee, !.custom = TRUE,
               !.amount = amount, !.reduction = FALSE]

(* The amount in the form that is shown again: the fee of the record. *)
RenderForm ==
  /\ page' = "form"
  /\ \/ Fees = {} /\ form' = Rendered(NoAmount)
     \/ \E n \in Fees : form' = Rendered(100 * n)

(* Something is not accepted. *)
Refuse ==
  /\ page = "form" /\ ~ Acceptable
  /\ RenderForm
  /\ UNCHANGED applications

(* StoreMembershipRequest adds a record. *)
StoreRecord(n) ==
  /\ Cardinality(applications) < MaxStored
  /\ applications' = applications \cup
       {[missing |-> form.missing, yearly |-> form.yearly, fee |-> n,
         reduction |-> form.reduction]}

(* It is stored, and shown for printing. *)
Accept ==
  /\ page = "form" /\ Acceptable
  /\ \E n \in Fees : StoreRecord(n)
  /\ page' = "print"
  /\ UNCHANGED form

(* StoreMembershipRequest fails, with or without a record: the form is      *)
(* shown with the error.                                                    *)
StoreFails ==
  /\ page = "form" /\ Acceptable
  /\ UNCHANGED applications \/ \E n \in Fees : StoreRecord(n)
  /\ RenderForm

(* The answer is lost after the record was stored. *)
AnswerLost ==
  /\ page = "form" /\ Acceptable
  /\ \E n \in Fees : StoreRecord(n)
  /\ UNCHANGED <<form, page>>
-----------------------------------------------------------------------------
Applicant ==
  \/ \E t \in Texts : EnterText(t)
  \/ \E d \in Fields : EnterField(d)
  \/ \E c \in Consents : Agree(c)
  \/ \E b \in BOOLEAN : ChoosePeriod(b) \/ ChooseFee(b) \/ AskForReduction(b)
  \/ \E n \in Amounts \cup {NoAmount, Junk} : EnterAmount(n)
  \/ Load \/ Back

Next == Applicant \/ Refuse \/ Accept \/ StoreFails \/ AnswerLost

Spec == Init /\ [][Next]_vars
-----------------------------------------------------------------------------
(* The types of the variables. *)
TypeOK ==
  /\ form \in Forms
  /\ page \in {"form", "print"}
  /\ applications \subseteq [missing : SUBSET Texts, yearly : BOOLEAN,
                            fee : 0 .. FeeLimit - 1, reduction : BOOLEAN]

(* The form never offers a fee that the handler does not know ("Unbekannter *)
(* Wert"), however often the period is changed and the form shown again.    *)
OfferedFeeIsKnown == form.least = MinFee(form.yearly)

(* Who has not asked for a reduction pays at least the fee of the period    *)
(* that was stored: the amount was compared before it was made an integer.  *)
StoredFeeFits ==
  \A a \in applications : a.fee >= MinFee(a.yearly) \/ a.reduction
=============================================================================
