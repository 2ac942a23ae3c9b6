--------------------------- MODULE MeteredThought ---------------------------
(***************************************************************************)
(* The thoughts of one agent as economic operations: MeteredCognitiveLoop  *)
(* of src/v2/cognitive-loop.ts.  A thought reserves model tokens and       *)
(* credits, asks a provider for a completion, settles what was delivered   *)
(* and returns the rest.                                                   *)
(*                                                                         *)
(* Every await is on the economy or on the provider, and thoughts of the   *)
(* same agent draw on the same purse in between; `at` says at which await  *)
(* a thought is.  A call of the economy is one atomic mutation.            *)
(***************************************************************************)
EXTENDS Naturals, FiniteSetsExt

CONSTANTS
    Thought,        \* the thoughts
    Reserve,        \* what each reserves, of each resource; 0 credits: none
    Usage,          \* bound: what a completion may turn out to have used
    Funds,          \* bound: what the agent may have at first
    FaultModels     \* sets of things that may go wrong together

AllFaults == {"providerThrows", "decisionThrows", "storageFails"}

Resource == {"tokens", "credits"}

Amounts == [Resource -> Nat]

ASSUME ThoughtAssumption ==
    /\ Reserve \in [Thought -> Amounts]
    /\ \A t \in Thought : Reserve[t]["tokens"] > 0
    /\ Usage \subseteq Amounts
    /\ \A used \in Usage : used["tokens"] > 0
    /\ Funds \subseteq Amounts
    /\ FaultModels \subseteq SUBSET AllFaults

VARIABLES
    policy,     \* overrunPolicy: "topUp" or "reject"
    faults,     \* what may go wrong in this behaviour, chosen at first
    purse,      \* the balances of the agent
    reserved,   \* the balances of the reservation accounts of each thought
    paid,       \* what the provider was paid for each thought
    at,         \* the await at which each thought is
    delivered,  \* the usage of the completion, 0 tokens before there is one
    settled,    \* tokensSettled and creditsSettled: the resources that are
    unbilled    \* the resources the error of a thought reports as unbilled

given == <<policy, faults>>

vars == <<given, purse, reserved, paid, at, delivered, settled, unbilled>>

Nothing == [r \in Resource |-> 0]

Init ==
    /\ policy \in {"topUp", "reject"}
    /\ faults \in FaultModels
    /\ purse \in Funds
    /\ reserved = [t \in Thought |-> Nothing]
    /\ paid = [t \in Thought |-> Nothing]
    /\ at = [t \in Thought |-> "reserve tokens"]
    /\ delivered = [t \in Thought |-> Nothing]
    /\ settled = [t \in Thought |-> {}]
    /\ unbilled = [t \in Thought |-> {}]

Goto(t, await) == at' = [at EXCEPT ![t] = await]

Answered(t) == delivered[t]["tokens"] > 0

HasReservation(t, r) == Reserve[t][r] > 0

Overrun(t, r) == delivered[t][r] > Reserve[t][r]

\* Fault: the policy is not looked at.
TopsUpAlways(t, r) == HasReservation(t, r) /\ Overrun(t, r)

\* What exceeds the reservation is to be drawn from the purse ...
TopsUp(t, r) == HasReservation(t, r) /\ Overrun(t, r) /\ policy = "topUp"

\* ... or is refused, because the reservation is a ceiling.
Rejected(t, r) == HasReservation(t, r) /\ Overrun(t, r) /\ ~ TopsUp(t, r)

-----------------------------------------------------------------------------
(* The calls of the economy *)

\* reserve, and the transfer of reconcileReservation: from the purse.
SetAside(t, r, n) ==
    /\ n <= purse[r]
    /\ purse' = [purse EXCEPT ![r] = @ - n]
    /\ reserved' = [reserved EXCEPT ![t][r] = @ + n]
    /\ UNCHANGED paid

\* Fault: the remainder stays in the reservation.
SettleWithoutRefund(t, r, used) ==
    /\ used <= reserved[t][r]
    /\ paid' = [paid EXCEPT ![t][r] = @ + used]
    /\ reserved' = [reserved EXCEPT ![t][r] = @ - used]
    /\ UNCHANGED purse

\* settleReservation: the provider is paid, the remainder returned.
SettleReservation(t, r, used) ==
    /\ used <= reserved[t][r]
    /\ paid' = [paid EXCEPT ![t][r] = @ + used]
    /\ purse' = [purse EXCEPT ![r] = @ + reserved[t][r] - used]
    /\ reserved' = [reserved EXCEPT ![t][r] = 0]

\* refundReservation.
RefundReservation(t, r) ==
    /\ purse' = [purse EXCEPT ![r] = @ + reserved[t][r]]
    /\ reserved' = [reserved EXCEPT ![t][r] = 0]
    /\ UNCHANGED paid

\* A call throws: the books are what they were.
Refuse(refused) ==
    /\ refused \/ "storageFails" \in faults
    /\ UNCHANGED <<purse, reserved, paid>>

-----------------------------------------------------------------------------
(* think *)

\* The first reserve is outside the try: nothing is to be undone.
ReserveTokens(t) ==
    /\ at[t] = "reserve tokens"
    /\ \/ SetAside(t, "tokens", Reserve[t]["tokens"]) /\ Goto(t, "reserve credits")
       \/ /\ Refuse(Reserve[t]["tokens"] > purse["tokens"])
          /\ Goto(t, "failed")
    /\ UNCHANGED <<given, delivered, settled, unbilled>>

ReserveCredits(t) ==
    /\ at[t] = "reserve credits"
    /\ \/ SetAside(t, "credits", Reserve[t]["credits"]) /\ Goto(t, "complete")
       \/ /\ HasReservation(t, "credits")
          /\ Refuse(Reserve[t]["credits"] > purse["credits"])
          /\ Goto(t, "catch")
    /\ UNCHANGED <<given, delivered, settled, unbilled>>

\* The provider answers, or its call throws.
Complete(t) ==
    /\ at[t] = "complete"
    /\ \/ /\ \E used \in Usage : delivered' = [delivered EXCEPT ![t] = used]
          /\ Goto(t, "reconcile tokens")
       \/ /\ "providerThrows" \in faults
          /\ UNCHANGED delivered
          /\ Goto(t, "catch")
    /\ UNCHANGED <<given, purse, reserved, paid, settled, unbilled>>

\* reconcileReservation: what exceeds the reservation is drawn from the purse.
Reconcile(t, r, settle) ==
    /\ IF TopsUp(t, r)
       THEN LET shortfall == delivered[t][r] - Reserve[t][r]
            IN  \/ SetAside(t, r, shortfall) /\ Goto(t, settle)
                \/ Refuse(shortfall > purse[r]) /\ Goto(t, "catch")
       ELSE UNCHANGED <<purse, reserved, paid>> /\ Goto(t, settle)
    /\ UNCHANGED <<given, delivered, settled, unbilled>>

ReconcileTokens(t) ==
    at[t] = "reconcile tokens" /\ Reconcile(t, "tokens", "settle tokens")

ReconcileCredits(t) ==
    at[t] = "reconcile credits" /\ Reconcile(t, "credits", "settle credits")

Charged(t, r) == IF Rejected(t, r) THEN Reserve[t][r] ELSE delivered[t][r]

\* The settlement of a resource.  A refused overrun is billed up to the
\* reservation and thrown as a CognitiveOverrunError that reports the rest.
Settle(t, r, next) ==
    \/ /\ IF Charged(t, r) > 0
          THEN SettleReservation(t, r, Charged(t, r))
          ELSE RefundReservation(t, r)
       /\ settled' = [settled EXCEPT ![t] = @ \cup {r}]
       /\ IF Rejected(t, r)
          THEN /\ unbilled' = [unbilled EXCEPT ![t] = @ \cup {r}]
               /\ Goto(t, "catch")
          ELSE Goto(t, next) /\ UNCHANGED unbilled
    \/ /\ Refuse(FALSE)
       /\ Goto(t, "catch")
       /\ UNCHANGED <<settled, unbilled>>

SettleTokens(t) ==
    /\ at[t] = "settle tokens"
    /\ Settle(t, "tokens", "reconcile credits")
    /\ UNCHANGED <<given, delivered>>

SettleCredits(t) ==
    /\ at[t] = "settle credits"
    /\ HasReservation(t, "credits")
    /\ Settle(t, "credits", "decide")
    /\ UNCHANGED <<given, delivered>>

\* Without a reservation the credits are transferred from the purse.
TransferCredits(t) ==
    LET due == delivered[t]["credits"]
    IN  /\ at[t] = "settle credits"
        /\ ~ HasReservation(t, "credits")
        /\ \/ /\ due <= purse["credits"]
              /\ purse' = [purse EXCEPT !["credits"] = @ - due]
              /\ paid' = [paid EXCEPT ![t]["credits"] = due]
              /\ UNCHANGED reserved
              /\ Goto(t, "decide")
           \/ due > 0 /\ Refuse(due > purse["credits"]) /\ Goto(t, "catch")
        /\ UNCHANGED <<given, delivered, settled, unbilled>>

\* parseDecision, applyDecision and the action handlers.
Decide(t) ==
    /\ at[t] = "decide"
    /\ \/ Goto(t, "done")
       \/ "decisionThrows" \in faults /\ Goto(t, "catch")
    /\ UNCHANGED <<given, purse, reserved, paid, delivered, settled, unbilled>>

-----------------------------------------------------------------------------
(* The catch clause *)

\* Fault: a thought that was answered is refunded like one that was not.
CatchTokensWithRefund(t) ==
    /\ at[t] = "catch"
    /\ IF "tokens" \in settled[t] THEN UNCHANGED <<purse, reserved, paid>>
       ELSE RefundReservation(t, "tokens")
    /\ Goto(t, "catch credits")
    /\ UNCHANGED <<given, delivered, settled, unbilled>>

\* Tokens that are not settled: settleDelivered when there was a completion,
\* and otherwise a refund of the whole.
CatchTokens(t) ==
    LET billable == Min({delivered[t]["tokens"], Reserve[t]["tokens"]})
    IN  /\ at[t] = "catch"
        /\ \/ /\ "tokens" \in settled[t]
              /\ Goto(t, "catch credits")
              /\ UNCHANGED <<purse, reserved, paid, unbilled>>
           \/ /\ "tokens" \notin settled[t]
              /\ Answered(t)
              /\ SettleReservation(t, "tokens", billable)
              /\ unbilled' = IF billable < delivered[t]["tokens"]
                             THEN [unbilled EXCEPT ![t] = @ \cup {"tokens"}]
                             ELSE unbilled
              /\ Goto(t, "catch credits")
           \/ /\ "tokens" \notin settled[t]
              /\ ~ Answered(t)
              /\ RefundReservation(t, "tokens")
              /\ Goto(t, "catch credits")
              /\ UNCHANGED unbilled
           \/ /\ "tokens" \notin settled[t]
              /\ Refuse(FALSE)
              /\ Goto(t, "failed")
              /\ UNCHANGED unbilled
        /\ UNCHANGED <<given, delivered, settled>>

\* A reservation of credits that is not settled is refunded whole.
CatchCredits(t) ==
    /\ at[t] = "catch credits"
    /\ IF "credits" \in settled[t] THEN UNCHANGED <<purse, reserved, paid>>
       ELSE RefundReservation(t, "credits") \/ Refuse(FALSE)
    /\ Goto(t, "failed")
    /\ UNCHANGED <<given, delivered, settled, unbilled>>

-----------------------------------------------------------------------------

Advance(t) ==
    \/ ReconcileTokens(t) \/ SettleTokens(t)
    \/ ReconcileCredits(t) \/ SettleCredits(t) \/ TransferCredits(t)
    \/ Decide(t) \/ CatchTokens(t) \/ CatchCredits(t)

Next ==
    \E t \in Thought :
        ReserveTokens(t) \/ ReserveCredits(t) \/ Complete(t) \/ Advance(t)

Spec == Init /\ [][Next]_vars

\* A thought that has been answered goes on: its awaits are on the economy,
\* which always returns.  Nothing makes a provider answer.
FairSpec == Spec /\ \A t \in Thought : WF_vars(Advance(t))

-----------------------------------------------------------------------------
(* Properties *)

Ended(t) == at[t] \in {"done", "failed"}

\* No thought ends with anything left in its reservations, on whichever of its
\* error paths it ends and whatever the other thoughts took meanwhile, unless
\* the economy itself fails.  One that was answered has paid for its tokens, as
\* far as they were reserved, and reports the rest as unbilled; one that was
\* not answered has paid nothing.  Of credits nothing is said but that none stay
\* reserved: the catch clause may refund them whole though they were delivered
\* (src/v2/cognitive-loop.ts:264).
EndedIsSettled ==
    "storageFails" \notin faults =>
        \A t \in Thought : Ended(t) =>
            LET due == delivered[t]["tokens"]
            IN  /\ reserved[t] = Nothing
                /\ IF Answered(t)
                   THEN /\ paid[t]["tokens"] >= Min({due, Reserve[t]["tokens"]})
                        /\ paid[t]["tokens"] < due => "tokens" \in unbilled[t]
                   ELSE paid[t] = Nothing

\* The provider is paid exactly what it delivered when the thought succeeds,
\* and on every path, failures of the economy included, never more than it
\* delivered, nor more than was reserved where the reservation is a ceiling.
PaidAsAgreed ==
    \A t \in Thought :
        /\ at[t] = "done" => paid[t] = delivered[t] /\ reserved[t] = Nothing
        /\ \A r \in Resource :
             /\ paid[t][r] <= delivered[t][r]
             /\ policy = "reject" /\ HasReservation(t, r)
                  => paid[t][r] <= Reserve[t][r]

\* Once the provider has answered, the reservations are released.
AnsweredIsReleased ==
    \A t \in Thought :
        Answered(t) /\ "storageFails" \notin faults
            ~> (Ended(t) /\ reserved[t] = Nothing)
=============================================================================
