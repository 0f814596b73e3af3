---------------------------- MODULE BudgetLedger ----------------------------
(***************************************************************************)
(* The budget ledger of a run (crates/runtime/src/budget_ledger.rs): two   *)
(* atomics, what is reserved and what is settled, under reservations that  *)
(* are settled, cancelled or dropped, and child ledgers that take an       *)
(* allocation from their parent and give back what they did not use.       *)
(*                                                                         *)
(* Every atomic access is a step of its own, so that the threads sharing a *)
(* ledger interleave between them.                                         *)
(***************************************************************************)
EXTENDS Integers, FiniteSets

CONSTANTS
    Threads,       \* threads that hold a clone of a ledger
    Amounts,       \* estimated costs and allocations, in micro-USD
    InitialBudget, \* initial of the root ledger
    MaxSettled,    \* bound: what is spent on a ledger
    WordSize       \* 2^64: what fetch_sub adds to a number below zero

ASSUME LedgerAmountsType ==
    /\ Amounts \subseteq Nat /\ InitialBudget \in Nat /\ MaxSettled \in Nat /\ WordSize \in Nat
ASSUME ThreadsFinite == IsFiniteSet(Threads)

Ledgers == {"root", "child"}

VARIABLES
    ledgers,   \* BudgetLedgerInner by name: initial, reserved, settled
    child,     \* the child ledger: "none", "open", "released" when it was done,
               \* or "reused": released too early, twice, or used after that
    op,        \* thread -> the call it is in the middle of
    held,      \* thread -> the Reservation it holds
    charged,   \* what has been spent on each ledger, kept to compare with
    forced     \* has force_settle been called on the child?

ledgerVars == <<ledgers, child, op, held, charged, forced>>

\* BudgetLedgerInner::new.
NewLedger(initial) == [initial |-> initial, reserved |-> 0, settled |-> 0]
Resting == [step |-> "rest"]
NoReservation == [on |-> "none", amount |-> 0]
Saturating(n) == IF n < 0 THEN 0 ELSE n

Smaller(a, b) == IF a < b THEN a ELSE b

\* A call that is still loading and deciding, and one that still has to take
\* its reservation back or to tell the parent.
Calling == [step : {"reserved", "settled", "decide"}, call : {"reserve", "child", "force"},
            on : Ledgers, amount : Amounts, seen : Nat, spent : Int]
Finishing == [step : {"unreserve", "report"}, on : Ledgers, amount : Nat]

LedgerTypeOK ==
    /\ ledgers \in [Ledgers -> [initial : Nat, reserved : Nat, settled : Int]]
    /\ child \in {"none", "open", "released", "reused"}
    /\ op \in [Threads -> {Resting} \cup Calling \cup Finishing]
    /\ held \in [Threads -> {NoReservation} \cup [on : Ledgers, amount : Nat]]
    /\ charged \in [Ledgers -> Nat]
    /\ forced \in BOOLEAN

LedgerInit ==
    /\ ledgers = [l \in Ledgers |-> NewLedger(IF l = "root" THEN InitialBudget ELSE 0)]
    /\ child = "none"
    /\ op = [t \in Threads |-> Resting]
    /\ held = [t \in Threads |-> NoReservation]
    /\ charged = [l \in Ledgers |-> 0]
    /\ forced = FALSE

Usable(l) == l = "child" => child # "none"
Go(t, next) == op' = [op EXCEPT ![t] = next]

-----------------------------------------------------------------------------
(* reserve, create_child and force_settle all begin by loading the two      *)
(* atomics, reserved first.                                                 *)

\* Bound: one child ledger.
IsAllocation(o) == o.step \in {"reserved", "settled", "decide"} /\ o.call = "child"
Allocating == \E t \in Threads : IsAllocation(op[t])

\* A zero estimate is granted without looking.
StartCall(t, call, l, amount) ==
    /\ op[t] = Resting /\ Usable(l)
    /\ call = "reserve" => held[t] = NoReservation
    /\ call = "child" => l = "root" /\ child = "none" /\ ~Allocating
    /\ IF call = "reserve" /\ amount = 0
       THEN held' = [held EXCEPT ![t] = [on |-> l, amount |-> 0]] /\ UNCHANGED op
       ELSE /\ Go(t, [step |-> "reserved", call |-> call, on |-> l, amount |-> amount,
                      seen |-> 0, spent |-> 0])
            /\ UNCHANGED held
    /\ child' = IF l = "child" /\ child = "released" THEN "reused" ELSE child
    /\ forced' = (forced \/ (call = "force" /\ l = "child"))
    /\ UNCHANGED <<ledgers, charged>>

LoadReserved(t) ==
    /\ op[t].step = "reserved"
    /\ Go(t, [op[t] EXCEPT !.step = "settled", !.seen = ledgers[op[t].on].reserved])
    /\ UNCHANGED <<ledgers, child, held, charged, forced>>

\* settled is kept as an integer; below zero it is read as a huge number.
AsWord(n) == IF n < 0 THEN n + WordSize ELSE n

LoadSettled(t) ==
    /\ op[t].step = "settled"
    /\ Go(t, [op[t] EXCEPT !.step = "decide", !.spent = AsWord(ledgers[op[t].on].settled)])
    /\ UNCHANGED <<ledgers, child, held, charged, forced>>

\* remaining, from the two values this thread has loaded.
RemainingSeen(t) == Saturating(ledgers[op[t].on].initial - op[t].seen - op[t].spent)

\* Mutant: the reservation is stored without comparing.
TryReserveStores(t) ==
    /\ op[t].step = "decide" /\ op[t].call = "reserve"
    /\ IF op[t].amount > RemainingSeen(t)
       THEN UNCHANGED <<ledgers, held>>
       ELSE /\ ledgers' = [ledgers EXCEPT ![op[t].on].reserved = op[t].seen + op[t].amount]
            /\ held' = [held EXCEPT ![t] = [on |-> op[t].on, amount |-> op[t].amount]]
    /\ Go(t, Resting)
    /\ UNCHANGED <<child, charged, forced>>

\* try_reserve: refuse, or compare-exchange on reserved and start over when
\* another thread has changed it.  settled is not compared again.
TryReserve(t) ==
    /\ op[t].step = "decide" /\ op[t].call = "reserve"
    /\ \/ /\ op[t].amount > RemainingSeen(t)
          /\ Go(t, Resting)
          /\ UNCHANGED <<ledgers, held>>
       \/ /\ op[t].amount <= RemainingSeen(t)
          /\ ledgers[op[t].on].reserved = op[t].seen
          /\ ledgers' = [ledgers EXCEPT ![op[t].on].reserved = @ + op[t].amount]
          /\ held' = [held EXCEPT ![t] = [on |-> op[t].on, amount |-> op[t].amount]]
          /\ Go(t, Resting)
       \/ /\ op[t].amount <= RemainingSeen(t)
          /\ ledgers[op[t].on].reserved # op[t].seen
          /\ Go(t, [op[t] EXCEPT !.step = "reserved"])
          /\ UNCHANGED <<ledgers, held>>
    /\ UNCHANGED <<child, charged, forced>>

\* Settled on l: the atomic and the history of what was really spent.
Charge(l, cost) ==
    /\ charged[l] + cost <= MaxSettled
    /\ ledgers' = [ledgers EXCEPT ![l].settled = @ + cost]
    /\ charged' = [charged EXCEPT ![l] = @ + cost]

\* Reservation::settle, whatever the estimate was: settled first ...
SettleReservation(t, cost) ==
    /\ op[t] = Resting /\ held[t] # NoReservation
    /\ Charge(held[t].on, cost)
    /\ Go(t, [step |-> "unreserve", on |-> held[t].on, amount |-> held[t].amount])
    /\ held' = [held EXCEPT ![t] = NoReservation]
    /\ UNCHANGED <<child, forced>>

\* ... and then the reservation is taken back.
Unreserve(t) ==
    /\ op[t].step = "unreserve"
    /\ ledgers' = [ledgers EXCEPT ![op[t].on].reserved = @ - op[t].amount]
    /\ Go(t, Resting)
    /\ UNCHANGED <<child, held, charged, forced>>

\* cancel, or the drop of a reservation that was never settled.
CancelReservation(t) ==
    /\ op[t] = Resting /\ held[t] # NoReservation
    /\ ledgers' = [ledgers EXCEPT ![held[t].on].reserved = @ - held[t].amount]
    /\ held' = [held EXCEPT ![t] = NoReservation]
    /\ UNCHANGED <<child, op, charged, forced>>

\* create_child: what fits is settled on the parent and becomes the child.
CreateChild(t) ==
    /\ op[t].step = "decide" /\ op[t].call = "child"
    /\ Go(t, Resting)
    /\ \/ /\ op[t].amount > RemainingSeen(t)
          /\ UNCHANGED <<ledgers, child>>
       \/ /\ op[t].amount <= RemainingSeen(t)
          /\ ledgers' = [ledgers EXCEPT !["root"].settled = @ + op[t].amount,
                                        !["child"] = NewLedger(op[t].amount)]
          /\ child' = "open"
    /\ UNCHANGED <<held, charged, forced>>

\* force_settle: what remains at most, on the ledger ...
ForceSettle(t) ==
    /\ op[t].step = "decide" /\ op[t].call = "force"
    /\ LET actual == Smaller(op[t].amount, RemainingSeen(t)) IN
       /\ Charge(op[t].on, actual)
       /\ Go(t, IF op[t].on = "child"
                THEN [step |-> "report", on |-> "root", amount |-> actual]
                ELSE Resting)
    /\ UNCHANGED <<child, held, forced>>

\* ... and, for a child, on its parent as well, which has already been charged
\* the whole allocation.
ReportToParent(t) ==
    /\ op[t].step = "report"
    /\ ledgers' = [ledgers EXCEPT !["root"].settled = @ + op[t].amount]
    /\ Go(t, Resting)
    /\ UNCHANGED <<child, held, charged, forced>>

\* Nobody is in a call on the child or holds a reservation of it.
ChildDone == \A t \in Threads : held[t].on # "child" /\ (op[t] # Resting => op[t].on # "child")

\* release_unused: nothing in it asks whether "a child ledger is done" or has
\* been released before.  Its load and its fetch_sub are one step here: they
\* are on two ledgers, and what another thread sees between them it could have
\* seen before.  Bound: nobody releases a child that has been reused.
ReleaseUnused ==
    /\ child \in {"open", "released"}
    /\ ledgers' = [ledgers EXCEPT !["root"].settled =
                      @ - Saturating(ledgers["child"].initial - ledgers["child"].settled)]
    /\ child' = IF child = "open" /\ ChildDone THEN "released" ELSE "reused"
    /\ UNCHANGED <<op, held, charged, forced>>

LedgerNext ==
    \/ \E t \in Threads :
         \/ \E call \in {"reserve", "child", "force"}, l \in Ledgers, n \in Amounts :
               StartCall(t, call, l, n)
         \/ LoadReserved(t) \/ LoadSettled(t) \/ TryReserve(t)
         \/ \E cost \in Amounts : SettleReservation(t, cost)
         \/ Unreserve(t) \/ CancelReservation(t)
         \/ CreateChild(t) \/ ForceSettle(t) \/ ReportToParent(t)
    \/ ReleaseUnused

LedgerSpec == LedgerInit /\ [][LedgerNext]_ledgerVars

-----------------------------------------------------------------------------
(* Properties.                                                              *)

\* What thread t has reserved on l and not taken back yet.
Reserves(t, l) ==
    IF held[t].on = l THEN held[t].amount
    ELSE IF op[t].step = "unreserve" /\ op[t].on = l THEN op[t].amount
    ELSE 0

\* The micro-dollars of what the threads have reserved, one by one.
Reserved(amounts) == UNION {{t} \X (1..amounts[t]) : t \in Threads}

\* reserved is the sum of the open reservations, in whatever order threads
\* reserve, settle, cancel and lose the race of the compare-exchange: no
\* reservation is lost, and none stays behind to block the budget for ever.
ReservedIsOpen ==
    \A l \in Ledgers :
        ledgers[l].reserved = Cardinality(Reserved([t \in Threads |-> Reserves(t, l)]))

\* What the parent has to be charged for its child: the whole allocation while
\* the child is open, and what it spent, within its allocation, once it has
\* been released.
ChildAllocation ==
    CASE child = "open" -> ledgers["child"].initial
      [] child = "released" -> Smaller(ledgers["child"].initial, charged["child"])
      [] OTHER -> 0

\* "no double-counting": the parent is charged what was spent on it and its
\* child's allocation, nothing less and nothing more.
NoDoubleCount == child # "reused" => ledgers["root"].settled = charged["root"] + ChildAllocation

\* The parent is charged no less than what was spent on it and on its child,
\* as long as the child is released once and when it is done; and exactly that
\* unless force_settle was called on the child, which charges the parent for
\* what its allocation has paid already.
AllocationConserved ==
    /\ child # "reused" => ledgers["root"].settled >= charged["root"] + ChildAllocation
    /\ ~forced => NoDoubleCount

\* No reservation is lost or stays behind, in any interleaving of the threads
\* of a run and of the child it delegates to, however they use it; and no
\* micro-dollar spent is lost, under the two conditions of AllocationConserved
\* on how the child is released and charged.
BudgetConserved == LedgerTypeOK /\ ReservedIsOpen /\ AllocationConserved

\* The inductive invariant behind BudgetConserved.  Nothing is under way on a
\* child that does not exist or has been released, so that creating and
\* releasing it disturb nobody; a thread that reserves or takes back holds no
\* other reservation; the allocation of the child is decided by one thread;
\* and only force_settle on the child reports to the parent.
ThreadOK(o, h, c, f) ==
    /\ h.on = "child" => c \in {"open", "reused"}
    /\ o.step # "rest" /\ o.on = "child" => c \in {"open", "reused"}
    /\ o.step = "unreserve" => h = NoReservation
    /\ o.step \in {"reserved", "settled", "decide"} /\ o.call = "reserve" => h = NoReservation
    /\ o.step \in {"reserved", "settled", "decide"} /\ o.call = "force" /\ o.on = "child" => f
    /\ o.step = "report" => f
    /\ IsAllocation(o) => o.on = "root" /\ c = "none"
LedgerInv ==
    /\ LedgerTypeOK
    /\ \A t \in Threads : ThreadOK(op[t], held[t], child, forced)
    /\ \A t, u \in Threads : IsAllocation(op[t]) /\ IsAllocation(op[u]) => t = u
    /\ child = "none" => charged["child"] = 0 /\ ~forced
    /\ ledgers["child"].settled = charged["child"]
    /\ ReservedIsOpen /\ AllocationConserved
=============================================================================
