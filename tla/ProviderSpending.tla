-------------------------- MODULE ProviderSpending --------------------------
(***************************************************************************)
(* Metered calls to a paid provider (metered_cohere_post): admission       *)
(* against the monthly budget of the deployment and the budget of one      *)
(* operation, under a deployment-wide advisory lock, in a transaction of   *)
(* its own; the HTTP exchange; and the completion that replaces the        *)
(* reserved charge by the billed one.                                      *)
(*                                                                         *)
(* One call is one HTTP attempt (a retry is another call).  Amounts are    *)
(* small naturals.  "answered" stands for completed and for http_error,   *)
(* which nothing tells apart.  The provider bills at most the estimate:    *)
(* the code overcounts bytes and documents for that reason.                *)
(***************************************************************************)
EXTENDS Naturals, FiniteSetsExt, Functions

CONSTANTS
    Calls,          \* metered HTTP attempts
    Operations,     \* references: an HTTP request, a job, an evaluation run
    OperationOf,    \* the reference a call is made under
    Estimate,       \* reserved_micro_usd of a call
    MonthlyBudget,
    OperationBudget,
    NoAttempt,
    MaxMonth        \* BOUND: month boundaries that pass

ASSUME SpendingAssumption ==
    /\ OperationOf \in [Calls -> Operations]
    /\ Estimate \in [Calls -> Nat]
    /\ MonthlyBudget \in Nat
    /\ OperationBudget \in Nat
    /\ NoAttempt \notin Calls
    /\ MaxMonth \in Nat

VARIABLES
    attempt,     \* provider_usage_attempts; month is that of created_at
    admission,   \* holder of the admission lock
    metered,     \* what each call is doing
    month,       \* current calendar month
    spent        \* history: what the provider charged for each call

spendingVars == <<attempt, admission, metered, month, spent>>

-----------------------------------------------------------------------------
Costs == UNION {0 .. Estimate[c] : c \in Calls}
Unbilled == {}      \* billed_micro_usd IS NULL

Attempt == [status : {"absent", "reserved", "answered", "unknown"},
            month : 0 .. MaxMonth, billed : SUBSET Costs]
Metered == [pc : {"idle", "waiting", "admitting", "sending", "completing", "ended"},
            began : 0 .. MaxMonth, counted : 0 .. MaxMonth, room : BOOLEAN,
            status : {"reserved", "answered", "unknown"},
            cost : SUBSET Costs]

SpendingInit ==
    /\ attempt = [c \in Calls |-> [status |-> "absent", month |-> 0,
                                   billed |-> Unbilled]]
    /\ admission = NoAttempt
    /\ metered = [c \in Calls |-> [pc |-> "idle", began |-> 0, counted |-> 0, room |-> FALSE,
                                   status |-> "reserved", cost |-> Unbilled]]
    /\ month = 0
    /\ spent = [c \in Calls |-> 0]

-----------------------------------------------------------------------------
Recorded == {c \in Calls : attempt[c].status # "absent"}
InMonth(m) == {c \in Recorded : attempt[c].month = m}
InOperation(o) == {c \in Recorded : OperationOf[c] = o}

\* coalesce(billed_micro_usd, reserved_micro_usd)
Charge(c) == IF attempt[c].billed = Unbilled THEN Estimate[c]
                                             ELSE Max(attempt[c].billed)
Charged(cs) == SumFunctionOnSet([c \in Calls |-> Charge(c)], cs)

Place(c, pc) == metered' = [metered EXCEPT ![c].pc = pc]
\* MUTANT: admission without the advisory lock.
AdmitTogether == TRUE
Exclusive == admission = NoAttempt

\* What is recorded for the month of the clock and for the operation leaves room
\* for the estimate.
Affordable(c) ==
    /\ Charged(InMonth(month)) + Estimate[c] <= MonthlyBudget
    /\ Charged(InOperation(OperationOf[c])) + Estimate[c] <= OperationBudget

\* The accounting transaction begins: created_at will be this instant.
Begin(c) ==
    /\ metered[c].pc = "idle"
    /\ metered' = [metered EXCEPT ![c].pc = "waiting", ![c].began = month]
    /\ UNCHANGED <<attempt, admission, month, spent>>

\* pg_advisory_xact_lock is granted; then the two sums.
Sum(c) ==
    /\ metered[c].pc = "waiting"
    /\ Exclusive
    /\ admission' = c
    /\ metered' = [metered EXCEPT
         ![c].pc = "admitting",
         ![c].counted = month,
         ![c].room = Affordable(c)]
    /\ UNCHANGED <<attempt, month, spent>>

\* The attempt commits and the lock goes with the transaction.
Reserve(c) ==
    /\ metered[c].pc = "admitting"
    /\ metered[c].room
    /\ attempt' = [attempt EXCEPT ![c] = [status |-> "reserved", month |-> metered[c].began,
                                          billed |-> Unbilled]]
    /\ admission' = NoAttempt
    /\ Place(c, "sending")
    /\ UNCHANGED <<month, spent>>

\* ProviderBudgetError: nothing is sent.
RefuseCall(c) ==
    /\ metered[c].pc = "admitting"
    /\ ~metered[c].room
    /\ admission' = NoAttempt
    /\ Place(c, "ended")
    /\ UNCHANGED <<attempt, month, spent>>

\* The provider does the work and bills it.  The caller learns the amount
\* only from a response with usable billing units; a timeout, a cancellation
\* or a malformed body leaves it unknown.
Send(c) ==
    /\ metered[c].pc = "sending"
    /\ \E paid \in 0 .. Estimate[c],
          status \in {"answered", "unknown"} :
       \E cost \in IF status = "unknown" THEN {Unbilled} ELSE {Unbilled, {paid}} :
         /\ spent' = [spent EXCEPT ![c] = paid]
         /\ metered' = [metered EXCEPT ![c].pc = "completing",
                          ![c].status = status, ![c].cost = cost]
    /\ UNCHANGED <<attempt, admission, month>>

Complete(c) ==
    /\ metered[c].pc = "completing"
    /\ attempt' = [attempt EXCEPT ![c].status = metered[c].status,
                                  ![c].billed = metered[c].cost]
    /\ Place(c, "ended")
    /\ UNCHANGED <<admission, month, spent>>

\* The completion fails or is cancelled, or the process dies anywhere: what is
\* recorded stays as it is.
Interrupt(c) ==
    /\ metered[c].pc \notin {"idle", "ended"}
    /\ Place(c, "ended")
    /\ admission' = IF admission = c THEN NoAttempt ELSE admission
    /\ UNCHANGED <<attempt, month, spent>>

NextMonth ==
    /\ month < MaxMonth
    /\ month' = month + 1
    /\ UNCHANGED <<attempt, admission, metered, spent>>

SpendingNext ==
    \/ \E c \in Calls :
         \/ Begin(c) \/ Sum(c) \/ Reserve(c) \/ RefuseCall(c)
         \/ Send(c) \/ Complete(c) \/ Interrupt(c)
    \/ NextMonth

SpendingSpec == SpendingInit /\ [][SpendingNext]_spendingVars

-----------------------------------------------------------------------------
(* Properties.                                                              *)

\* Types.
SpendingTypeOK ==
    /\ attempt \in [Calls -> Attempt]
    /\ admission \in Calls \cup {NoAttempt}
    /\ metered \in [Calls -> Metered]
    /\ month \in 0 .. MaxMonth
    /\ spent \in [Calls -> Costs \cup {0}]

\* Attempts recorded in the month that their admission counted.  One whose
\* transaction waited for the lock over the end of the month is recorded in the
\* month before, and neither month's sum holds it back.
InTime(m) == {c \in InMonth(m) : metered[c].counted = m}

\* What the provider charges in a month, or under one operation, stays within
\* its budget.
WithinBudgets ==
    /\ \A m \in 0 .. month : SumFunctionOnSet(spent, InTime(m)) <= MonthlyBudget
    /\ \A o \in Operations :
         SumFunctionOnSet(spent, InOperation(o)) <= OperationBudget

\* The ledger never understates: every amount the provider charged is covered by
\* the charge of a recorded attempt.
LedgerCoversSpending ==
    \A c \in Calls : spent[c] > 0 => c \in Recorded /\ spent[c] <= Charge(c)

\* The budgets hold, and the ledger that holds them is true, although calls run
\* concurrently, amounts may stay unknown, and completions are lost.
SpendingWithinBudget == WithinBudgets /\ LedgerCoversSpending
=============================================================================
