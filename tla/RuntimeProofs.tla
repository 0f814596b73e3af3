--------------------------- MODULE RuntimeProofs ----------------------------
(***************************************************************************)
(* Proofs about the runtime: the budget ledger, for any finite set of      *)
(* threads and any amounts; the trees of delegated runs, for any layers of *)
(* configuration, agents and depth; and the stream of a turn's items, for  *)
(* any number of them, to the session's subscribers and to a caller of the *)
(* SDK.                                                                    *)
(***************************************************************************)
EXTENDS BudgetLedger, Delegation, TurnStream, FiniteSetTheorems, TLAPS

-----------------------------------------------------------------------------
(* BudgetLedger: counting what is reserved.                                 *)

\* What one thread has reserved, one by one.
LEMMA OneThreadReserved ==
    ASSUME NEW t, NEW n \in Nat
    PROVE  /\ IsFiniteSet({t} \X (1..n)) /\ Cardinality({t} \X (1..n)) = n
<1>1. IsFiniteSet(1..n) /\ Cardinality(1..n) = n
  BY FS_Interval
<1>2. IsFiniteSet({t}) /\ Cardinality({t}) = 1
  BY FS_Singleton
<1> QED
  BY <1>1, <1>2, FS_Product

\* Finitely many threads reserve finitely much.
LEMMA ReservedFinite ==
    ASSUME NEW a \in [Threads -> Nat]
    PROVE  IsFiniteSet(Reserved(a))
<1> DEFINE S == {{t} \X (1..a[t]) : t \in Threads}
           f == [t \in Threads |-> {t} \X (1..a[t])]
<1>1. f \in Surjection(Threads, S)
  BY DEF Surjection
<1>2. IsFiniteSet(S)
  BY <1>1, ThreadsFinite, FS_Surjection
<1>3. ASSUME NEW T \in S PROVE IsFiniteSet(T)
  <2>1. PICK t \in Threads : T = {t} \X (1..a[t])
    OBVIOUS
  <2> QED
    BY <2>1, OneThreadReserved
<1> QED
  BY <1>2, <1>3, FS_UNION DEF Reserved

\* When one thread's reservation changes, the sum changes by as much.
LEMMA ReservedChanges ==
    ASSUME NEW a \in [Threads -> Nat], NEW t \in Threads, NEW n \in Nat
    PROVE  Cardinality(Reserved([a EXCEPT ![t] = n])) = Cardinality(Reserved(a)) - a[t] + n
<1> DEFINE b == [a EXCEPT ![t] = n]
           Rest == {x \in Reserved(a) : x[1] # t}
           Mine(k) == {t} \X (1..k)
<1>1. Reserved(a) = Rest \cup Mine(a[t]) /\ Rest \cap Mine(a[t]) = {}
  BY DEF Reserved
<1>2. Reserved(b) = Rest \cup Mine(n) /\ Rest \cap Mine(n) = {}
  BY DEF Reserved
<1>3. IsFiniteSet(Rest) /\ Cardinality(Rest) \in Nat
  BY ReservedFinite, FS_Subset, FS_CardinalityType
<1>4. ASSUME NEW k \in Nat, Rest \cap Mine(k) = {}
      PROVE  Cardinality(Rest \cup Mine(k)) = Cardinality(Rest) + k
  <2>1. IsFiniteSet(Mine(k)) /\ Cardinality(Mine(k)) = k
    BY OneThreadReserved
  <2>2. Cardinality(Rest \cup Mine(k)) = Cardinality(Rest) + Cardinality(Mine(k)) - Cardinality({})
    BY <1>3, <1>4, <2>1, FS_Union
  <2> QED
    BY <1>3, <2>1, <2>2, FS_EmptySet
<1>5. a[t] \in Nat
  OBVIOUS
<1>6. Cardinality(Reserved(a)) = Cardinality(Rest) + a[t]
  BY <1>1, <1>4, <1>5
<1>7. Cardinality(Reserved(b)) = Cardinality(Rest) + n
  BY <1>2, <1>4
<1> QED
  BY <1>3, <1>5, <1>6, <1>7

\* A reservation is a number of micro-dollars.
LEMMA ReservesType ==
    ASSUME LedgerTypeOK, NEW l \in Ledgers
    PROVE  [t \in Threads |-> Reserves(t, l)] \in [Threads -> Nat]
BY LedgerAmountsType DEF LedgerTypeOK, Reserves, NoReservation, Resting, Calling, Finishing

\* reserved follows the reservation that thread u makes or takes back on l0.
LEMMA ReservationMoves ==
    ASSUME LedgerInv, NEW u \in Threads, NEW l0 \in Ledgers, NEW n \in Nat,
           Reserves(u, l0)' = n,
           ledgers'[l0].reserved = ledgers[l0].reserved - Reserves(u, l0) + n,
           \A t \in Threads, l \in Ledgers :
               t # u \/ l # l0 => Reserves(t, l)' = Reserves(t, l),
           \A l \in Ledgers : l # l0 => ledgers'[l].reserved = ledgers[l].reserved
    PROVE  ReservedIsOpen'
<1> DEFINE R(l) == [t \in Threads |-> Reserves(t, l)]
<1>1. \A l \in Ledgers : l # l0 => R(l)' = R(l)
  OBVIOUS
<1>2. R(l0)' = [R(l0) EXCEPT ![u] = n]
  OBVIOUS
<1>3. R(l0) \in [Threads -> Nat]
  BY ReservesType DEF LedgerInv
<1>4. Cardinality(Reserved(R(l0)')) = Cardinality(Reserved(R(l0))) - Reserves(u, l0) + n
  BY <1>2, <1>3, ReservedChanges
<1>5. ledgers[l0].reserved = Cardinality(Reserved(R(l0)))
  BY DEF LedgerInv, ReservedIsOpen
<1>6. ledgers'[l0].reserved = Cardinality(Reserved(R(l0)'))
  BY <1>4, <1>5
<1>7. \A l \in Ledgers : l # l0 => ledgers'[l].reserved = Cardinality(Reserved(R(l)'))
  BY <1>1 DEF LedgerInv, ReservedIsOpen
<1> QED
  BY <1>6, <1>7 DEF ReservedIsOpen, Reserved

\* A step that neither makes nor takes back a reservation.
LEMMA ReservationsKept ==
    ASSUME LedgerInv,
           \A t \in Threads, l \in Ledgers : Reserves(t, l)' = Reserves(t, l),
           \A l \in Ledgers : ledgers'[l].reserved = ledgers[l].reserved
    PROVE  ReservedIsOpen'
<1> DEFINE R(l) == [t \in Threads |-> Reserves(t, l)]
<1>1. \A l \in Ledgers : R(l)' = R(l)
  OBVIOUS
<1> QED
  BY <1>1 DEF LedgerInv, ReservedIsOpen, Reserved

\* The parts of LedgerInv that speak of the threads.
ThreadsOK ==
    /\ op \in [Threads -> {Resting} \cup Calling \cup Finishing]
    /\ held \in [Threads -> {NoReservation} \cup [on : Ledgers, amount : Nat]]
    /\ \A t \in Threads : ThreadOK(op[t], held[t], child, forced)
    /\ \A t, u \in Threads : IsAllocation(op[t]) /\ IsAllocation(op[u]) => t = u

\* One thread goes on, does not start an allocation beside another, and what
\* it does to the child is all right with the others.
LEMMA ThreadMovesOn ==
    ASSUME ThreadsOK, NEW t \in Threads,
           NEW o \in {Resting} \cup Calling \cup Finishing,
           NEW h \in {NoReservation} \cup [on : Ledgers, amount : Nat],
           op' = [op EXCEPT ![t] = o], held' = [held EXCEPT ![t] = h],
           \A u \in Threads : u # t => ThreadOK(op[u], held[u], child', forced'),
           ThreadOK(o, h, child', forced'),
           IsAllocation(o) => IsAllocation(op[t]) \/ ~Allocating
    PROVE  ThreadsOK'
<1>1. /\ op' \in [Threads -> {Resting} \cup Calling \cup Finishing]
      /\ held' \in [Threads -> {NoReservation} \cup [on : Ledgers, amount : Nat]]
  BY DEF ThreadsOK
<1>2. \A u \in Threads : u # t => op'[u] = op[u] /\ held'[u] = held[u]
  BY DEF ThreadsOK
<1>3. op'[t] = o /\ held'[t] = h
  BY DEF ThreadsOK
<1>4. \A u \in Threads : ThreadOK(op'[u], held'[u], child', forced')
  BY <1>2, <1>3
<1>5. \A u, v \in Threads : IsAllocation(op'[u]) /\ IsAllocation(op'[v]) => u = v
  BY <1>2, <1>3 DEF ThreadsOK, Allocating
<1> QED
  BY <1>1, <1>4, <1>5 DEF ThreadsOK

LEMMA ThreadMoves ==
    ASSUME ThreadsOK, NEW t \in Threads,
           NEW o \in {Resting} \cup Calling \cup Finishing,
           NEW h \in {NoReservation} \cup [on : Ledgers, amount : Nat],
           op' = [op EXCEPT ![t] = o], held' = [held EXCEPT ![t] = h],
           UNCHANGED <<child, forced>>,
           ThreadOK(o, h, child, forced),
           IsAllocation(o) => IsAllocation(op[t]) \/ ~Allocating
    PROVE  ThreadsOK'
BY ThreadMovesOn DEF ThreadsOK

\* The parts of LedgerInv that speak of the two accounts.
AccountsOK ==
    /\ ledgers \in [Ledgers -> [initial : Nat, reserved : Nat, settled : Int]]
    /\ child \in {"none", "open", "released", "reused"}
    /\ charged \in [Ledgers -> Nat]
    /\ forced \in BOOLEAN
    /\ child = "none" => charged["child"] = 0 /\ ~forced
    /\ ledgers["child"].settled = charged["child"]
    /\ AllocationConserved

\* LedgerInv is these two parts and ReservedIsOpen, before a step and after.
LEMMA LedgerInvParts ==
    /\ LedgerInv => ThreadsOK /\ AccountsOK /\ ReservedIsOpen
    /\ ThreadsOK' /\ AccountsOK' /\ ReservedIsOpen' => LedgerInv'
BY DEF LedgerInv, LedgerTypeOK, ThreadsOK, AccountsOK

\* A number of micro-dollars settled on a ledger that is in use.
LEMMA ChargeKeepsAccounts ==
    ASSUME AccountsOK, NEW l \in Ledgers, NEW cost \in Nat, Charge(l, cost),
           UNCHANGED <<child, forced>>, l = "child" => child \in {"open", "reused"}
    PROVE  /\ AccountsOK'
           /\ \A k \in Ledgers : ledgers'[k].reserved = ledgers[k].reserved
<1> USE DEF AccountsOK, Charge, Ledgers
<1>1. /\ ledgers' \in [Ledgers -> [initial : Nat, reserved : Nat, settled : Int]]
      /\ charged' \in [Ledgers -> Nat]
      /\ \A k \in Ledgers : /\ ledgers'[k].reserved = ledgers[k].reserved
                            /\ ledgers'[k].initial = ledgers[k].initial
      /\ ledgers'[l].settled = ledgers[l].settled + cost
      /\ charged'[l] = charged[l] + cost
      /\ \A k \in Ledgers : k # l => /\ ledgers'[k].settled = ledgers[k].settled
                                     /\ charged'[k] = charged[k]
  OBVIOUS
<1>2. ChildAllocation' = ChildAllocation /\ ChildAllocation \in Nat
  <2>1. CASE child \in {"none", "reused"}  BY <2>1 DEF ChildAllocation
  <2>2. CASE child = "open"      BY <1>1, <2>2 DEF ChildAllocation
  <2>3. CASE child = "released"  BY <1>1, <2>3 DEF ChildAllocation, Smaller
  <2> QED BY <2>1, <2>2, <2>3
<1>3. AllocationConserved'
  <2>1. ledgers["root"].settled \in Int /\ charged["root"] \in Nat
    OBVIOUS
  <2>2. CASE l = "root"
    BY <1>1, <1>2, <2>1, <2>2 DEF AllocationConserved, NoDoubleCount
  <2>3. CASE l = "child"
    BY <1>1, <1>2, <2>3 DEF AllocationConserved, NoDoubleCount
  <2> QED BY <2>2, <2>3
<1>4. child' = "none" => charged'["child"] = 0
  BY <1>1
<1>5. ledgers'["child"].settled = charged'["child"]
  BY <1>1
<1> QED
  BY <1>1, <1>3, <1>4, <1>5

\* Every atomic access of every call keeps the accounts balanced.
LEMMA LedgerStep ==
    ASSUME LedgerInv, [LedgerNext]_ledgerVars
    PROVE  LedgerInv'
<1>0. ThreadsOK /\ AccountsOK /\ ReservedIsOpen
  BY LedgerInvParts
<1> DEFINE Ops == {Resting} \cup Calling \cup Finishing
           Holds == {NoReservation} \cup [on : Ledgers, amount : Nat]
<1>A. ASSUME UNCHANGED <<ledgers, child, charged, forced>> PROVE AccountsOK'
  BY <1>0, <1>A DEF AccountsOK, AllocationConserved, NoDoubleCount, ChildAllocation
<1>B. \A t \in Threads : op[t] \in Ops /\ held[t] \in Holds /\ ThreadOK(op[t], held[t], child, forced)
  BY <1>0 DEF ThreadsOK
<1>C. Resting \in Ops /\ NoReservation \in Holds
      /\ \A h \in Holds : (h.on = "child" => child \in {"open", "reused"}) => ThreadOK(Resting, h, child, forced)
  BY DEF ThreadOK, IsAllocation, Resting
<1>1. CASE UNCHANGED ledgerVars
  <2>1. ThreadsOK'
    BY <1>0, <1>1 DEF ledgerVars, ThreadsOK
  <2>2. ReservedIsOpen'
    BY <1>1, ReservationsKept DEF ledgerVars, Reserves
  <2> QED
    BY <1>1, <1>A, <2>1, <2>2, LedgerInvParts DEF ledgerVars
<1>2. ASSUME NEW t \in Threads, NEW call \in {"reserve", "child", "force"},
             NEW l \in Ledgers, NEW n \in Amounts, StartCall(t, call, l, n)
      PROVE  LedgerInv'
  <2> DEFINE o == [step |-> "reserved", call |-> call, on |-> l, amount |-> n,
                   seen |-> 0, spent |-> 0]
  <2>1. /\ child' = IF l = "child" /\ child = "released" THEN "reused" ELSE child
        /\ forced' = (forced \/ (call = "force" /\ l = "child"))
        /\ UNCHANGED <<ledgers, charged>> /\ op[t] = Resting
        /\ call = "child" => l = "root" /\ child = "none" /\ ~Allocating
        /\ call = "reserve" => held[t] = NoReservation
    BY <1>2 DEF StartCall
  <2>2. /\ child' # child => child = "released" /\ child' = "reused"
        /\ l = "child" => child' \in {"open", "reused"}
        /\ forced => forced'
    BY <1>0, <1>2, <2>1 DEF StartCall, Usable, AccountsOK
  <2>3. \A u \in Threads : ThreadOK(op[u], held[u], child', forced')
    BY <1>B, <2>2 DEF ThreadOK
  <2>4. AccountsOK'
    <3>0. child' = "none" => ~forced'
      BY <1>0, <2>1, <2>2 DEF AccountsOK
    <3>1. child' \in {"none", "open", "released", "reused"} /\ forced' \in BOOLEAN
      BY <1>0, <2>1, <2>2 DEF AccountsOK
    <3>2. child' # "reused" => child' = child /\ ChildAllocation' = ChildAllocation
      BY <2>1, <2>2 DEF ChildAllocation
    <3>3. AllocationConserved'
      BY <1>0, <2>1, <2>2, <3>2 DEF AccountsOK, AllocationConserved, NoDoubleCount
    <3> QED
      BY <1>0, <2>1, <2>2, <3>0, <3>1, <3>3 DEF AccountsOK
  <2>5. CASE call = "reserve" /\ n = 0
    <3> DEFINE h == [on |-> l, amount |-> 0]
    <3>1. /\ op' = [op EXCEPT ![t] = Resting] /\ held' = [held EXCEPT ![t] = h]
      BY <1>0, <1>2, <2>5 DEF StartCall, ThreadsOK
    <3>2. h \in Holds /\ ThreadOK(Resting, h, child', forced') /\ ~IsAllocation(Resting)
      BY <2>2 DEF ThreadOK, IsAllocation, Resting
    <3>3. ThreadsOK'
      BY <1>0, <1>C, <2>3, <3>1, <3>2, ThreadMovesOn
    <3>4. \A u \in Threads, k \in Ledgers : Reserves(u, k)' = Reserves(u, k)
      BY <1>0, <2>1, <2>5, <3>1 DEF Reserves, ThreadsOK, Resting, NoReservation, Ledgers
    <3> QED
      BY <2>1, <2>4, <3>3, <3>4, ReservationsKept, LedgerInvParts
  <2>6. CASE ~(call = "reserve" /\ n = 0)
    <3>1. /\ op' = [op EXCEPT ![t] = o] /\ held' = [held EXCEPT ![t] = held[t]]
      BY <1>0, <1>2, <2>6 DEF StartCall, Go, ThreadsOK
    <3>2. o \in Ops
      BY DEF Calling
    <3>3. ThreadOK(o, held[t], child', forced')
      <4>1. held[t].on = "child" => child' \in {"open", "reused"}
        BY <2>3 DEF ThreadOK
      <4>2. IsAllocation(o) => l = "root" /\ child' = "none"
        BY <2>1, <2>2 DEF IsAllocation
      <4> QED
        BY <2>1, <2>2, <4>1, <4>2 DEF ThreadOK
    <3>4. IsAllocation(o) => ~Allocating
      BY <2>1 DEF IsAllocation
    <3>5. ThreadsOK'
      BY <1>0, <1>B, <2>3, <3>1, <3>2, <3>3, <3>4, ThreadMovesOn
    <3>6. \A u \in Threads, k \in Ledgers : Reserves(u, k)' = Reserves(u, k)
      BY <1>0, <2>1, <3>1 DEF Reserves, ThreadsOK, Resting
    <3> QED
      BY <2>1, <2>4, <3>5, <3>6, ReservationsKept, LedgerInvParts
  <2> QED
    BY <2>5, <2>6
<1>3. ASSUME NEW t \in Threads, NEW o \in Calling, op[t] \in Calling,
             o.call = op[t].call, o.on = op[t].on,
             op' = [op EXCEPT ![t] = o], UNCHANGED <<ledgers, child, held, charged, forced>>
      PROVE  LedgerInv'
  <2>1. ThreadOK(o, held[t], child, forced)
    BY <1>3, <1>B DEF ThreadOK, IsAllocation, Calling
  <2>2. IsAllocation(o) => IsAllocation(op[t])
    BY <1>3 DEF IsAllocation, Calling
  <2>3. held' = [held EXCEPT ![t] = held[t]]
    BY <1>0, <1>3 DEF ThreadsOK
  <2>4. ThreadsOK'
    BY <1>0, <1>3, <1>B, <2>1, <2>2, <2>3, ThreadMoves
  <2>5. \A u \in Threads, k \in Ledgers : Reserves(u, k)' = Reserves(u, k)
    BY <1>0, <1>3 DEF Reserves, ThreadsOK, Calling
  <2> QED
    BY <1>3, <1>A, <2>4, <2>5, ReservationsKept, LedgerInvParts
<1>4. ASSUME NEW t \in Threads, op[t].step \in {"reserved", "settled", "decide"}
      PROVE  op[t] \in Calling
  BY <1>4, <1>B DEF Resting, Finishing
<1>5. ASSUME NEW t \in Threads, LoadReserved(t) \/ LoadSettled(t) PROVE LedgerInv'
  <2>1. op[t] \in Calling
    BY <1>4, <1>5 DEF LoadReserved, LoadSettled
  <2>2. ledgers[op[t].on].reserved \in Nat /\ AsWord(ledgers[op[t].on].settled) \in Int
    BY <1>0, <2>1, LedgerAmountsType DEF AccountsOK, Calling, AsWord
  <2>3. CASE LoadReserved(t)
    BY <1>3, <2>1, <2>2, <2>3 DEF LoadReserved, Go, Calling
  <2>4. CASE LoadSettled(t)
    BY <1>3, <2>1, <2>2, <2>4 DEF LoadSettled, Go, Calling
  <2> QED
    BY <1>5, <2>3, <2>4
<1>6. ASSUME NEW t \in Threads, TryReserve(t) PROVE LedgerInv'
  <2>1. op[t] \in Calling /\ op[t].call = "reserve"
    BY <1>4, <1>6 DEF TryReserve
  <2>2. PICK l \in Ledgers, n \in Nat :
           /\ l = op[t].on /\ n = op[t].amount
           /\ held[t] = NoReservation /\ (l = "child" => child \in {"open", "reused"})
    BY <1>B, <2>1, LedgerAmountsType DEF Calling, ThreadOK
  <2> DEFINE h == [on |-> l, amount |-> n]
  <2>3. CASE Go(t, Resting) /\ UNCHANGED <<ledgers, child, held, charged, forced>>
    <3>1. held' = [held EXCEPT ![t] = held[t]] /\ ThreadOK(Resting, held[t], child, forced)
      BY <1>0, <1>B, <1>C, <2>3 DEF ThreadsOK, ThreadOK
    <3>2. ThreadsOK'
      BY <1>0, <1>B, <1>C, <2>3, <3>1, ThreadMoves DEF Go, IsAllocation, Resting
    <3>3. \A u \in Threads, k \in Ledgers : Reserves(u, k)' = Reserves(u, k)
      BY <1>0, <2>1, <2>3 DEF Go, Reserves, ThreadsOK, Calling, Resting
    <3> QED
      BY <1>A, <2>3, <3>2, <3>3, ReservationsKept, LedgerInvParts
  <2>4. CASE /\ ledgers' = [ledgers EXCEPT ![l].reserved = @ + n]
             /\ held' = [held EXCEPT ![t] = h] /\ Go(t, Resting) /\ UNCHANGED <<child, charged, forced>>
    <3>1. h \in Holds /\ ThreadOK(Resting, h, child, forced)
      BY <1>C, <2>2
    <3>2. ThreadsOK'
      BY <1>0, <1>C, <2>4, <3>1, ThreadMoves DEF Go, IsAllocation, Resting
    <3>3. \A u \in Threads, k \in Ledgers :
             u # t \/ k # l => Reserves(u, k)' = Reserves(u, k)
      BY <1>0, <2>1, <2>2, <2>4 DEF Go, Reserves, ThreadsOK, Calling, Resting, NoReservation
    <3>4. Reserves(t, l) = 0 /\ Reserves(t, l)' = n
      BY <1>0, <2>1, <2>2, <2>4 DEF Go, Reserves, ThreadsOK, Calling, Resting, NoReservation, Ledgers
    <3>5. /\ ledgers'[l].reserved = ledgers[l].reserved + n
          /\ \A k \in Ledgers : k # l => ledgers'[k] = ledgers[k]
          /\ \A k \in Ledgers : /\ ledgers'[k].settled = ledgers[k].settled
                                /\ ledgers'[k].initial = ledgers[k].initial
          /\ ledgers' \in [Ledgers -> [initial : Nat, reserved : Nat, settled : Int]]
      BY <1>0, <2>2, <2>4 DEF AccountsOK
    <3>6. ReservedIsOpen'
      <4>1. ledgers[l].reserved \in Nat
        BY <1>0, <2>2 DEF AccountsOK
      <4> QED
        BY <2>2, <3>3, <3>4, <3>5, <4>1, ReservationMoves
    <3>7. AccountsOK'
      BY <1>0, <2>4, <3>5 DEF AccountsOK, AllocationConserved, NoDoubleCount, ChildAllocation, Ledgers
    <3> QED
      BY <3>2, <3>6, <3>7, LedgerInvParts
  <2>5. CASE Go(t, [op[t] EXCEPT !.step = "reserved"]) /\ UNCHANGED <<ledgers, child, held, charged, forced>>
    BY <1>3, <2>1, <2>5 DEF Go, Calling
  <2> QED
    BY <1>6, <2>2, <2>3, <2>4, <2>5 DEF TryReserve
<1>7. ASSUME NEW t \in Threads, NEW cost \in Amounts, SettleReservation(t, cost)
      PROVE  LedgerInv'
  <2>1. PICK l \in Ledgers, n \in Nat :
           held[t] = [on |-> l, amount |-> n] /\ (l = "child" => child \in {"open", "reused"})
    BY <1>7, <1>B DEF SettleReservation, ThreadOK
  <2> DEFINE o == [step |-> "unreserve", on |-> l, amount |-> n]
  <2>2. /\ Charge(l, cost) /\ op' = [op EXCEPT ![t] = o] /\ op[t] = Resting
        /\ held' = [held EXCEPT ![t] = NoReservation] /\ UNCHANGED <<child, forced>>
    BY <1>7, <2>1 DEF SettleReservation, Go
  <2>3. o \in Ops /\ ThreadOK(o, NoReservation, child, forced) /\ ~IsAllocation(o)
    BY <2>1 DEF Finishing, ThreadOK, IsAllocation, NoReservation
  <2>4. ThreadsOK'
    BY <1>0, <1>C, <2>2, <2>3, ThreadMoves
  <2>5. cost \in Nat
    BY LedgerAmountsType
  <2>6. AccountsOK' /\ \A k \in Ledgers : ledgers'[k].reserved = ledgers[k].reserved
    BY <1>0, <2>1, <2>2, <2>5, ChargeKeepsAccounts
  <2>7. \A u \in Threads, k \in Ledgers : Reserves(u, k)' = Reserves(u, k)
    BY <1>0, <2>1, <2>2 DEF Reserves, ThreadsOK, Resting, NoReservation, Ledgers
  <2> QED
    BY <2>4, <2>6, <2>7, ReservationsKept, LedgerInvParts
<1>8. ASSUME NEW t \in Threads, NEW l \in Ledgers, NEW n \in Nat, Reserves(t, l) = n,
             \A k \in Ledgers : k # l => Reserves(t, k) = 0,
             ledgers' = [ledgers EXCEPT ![l].reserved = @ - n],
             op' = [op EXCEPT ![t] = Resting], held' = [held EXCEPT ![t] = NoReservation],
             UNCHANGED <<child, charged, forced>>
      PROVE  LedgerInv'
  <2>1. ThreadsOK'
    BY <1>0, <1>8, <1>C, ThreadMoves DEF IsAllocation, Resting, NoReservation
  <2>2. \A u \in Threads, k \in Ledgers : u # t => Reserves(u, k)' = Reserves(u, k)
    BY <1>0, <1>8 DEF Reserves, ThreadsOK
  <2>3. \A k \in Ledgers : Reserves(t, k)' = 0
    BY <1>0, <1>8 DEF Reserves, ThreadsOK, Resting, NoReservation, Ledgers
  <2>4. /\ ledgers'[l].reserved = ledgers[l].reserved - n
        /\ ledgers[l].reserved \in Nat
        /\ \A k \in Ledgers : k # l => ledgers'[k] = ledgers[k]
        /\ \A k \in Ledgers : /\ ledgers'[k].settled = ledgers[k].settled
                              /\ ledgers'[k].initial = ledgers[k].initial
        /\ ledgers' \in [Ledgers -> [initial : Nat, reserved : Int, settled : Int]]
    BY <1>0, <1>8 DEF AccountsOK
  <2>5. ReservedIsOpen'
    BY <1>8, <2>2, <2>3, <2>4, ReservationMoves
  <2>6. ledgers'[l].reserved \in Nat
    <3>1. [u \in Threads |-> Reserves(u, l)'] \in [Threads -> Nat]
      BY <1>8, <2>2, <2>3, ReservesType DEF LedgerInv
    <3>2. IsFiniteSet(Reserved([u \in Threads |-> Reserves(u, l)']))
      BY <3>1, ReservedFinite
    <3> QED
      BY <1>8, <2>5, <3>2, FS_CardinalityType DEF ReservedIsOpen, Reserved
  <2>7. AccountsOK'
    BY <1>0, <1>8, <2>4, <2>6 DEF AccountsOK, AllocationConserved, NoDoubleCount, ChildAllocation, Ledgers
  <2> QED
    BY <2>1, <2>5, <2>7, LedgerInvParts
<1>9. ASSUME NEW t \in Threads, Unreserve(t) PROVE LedgerInv'
  <2>1. PICK l \in Ledgers, n \in Nat :
           op[t] = [step |-> "unreserve", on |-> l, amount |-> n] /\ held[t] = NoReservation
    BY <1>9, <1>B DEF Unreserve, ThreadOK, Resting, Calling, Finishing
  <2>2. /\ ledgers' = [ledgers EXCEPT ![l].reserved = @ - n]
        /\ op' = [op EXCEPT ![t] = Resting] /\ held' = [held EXCEPT ![t] = NoReservation]
        /\ UNCHANGED <<child, charged, forced>>
    BY <1>0, <1>9, <2>1 DEF Unreserve, Go, ThreadsOK
  <2>3. Reserves(t, l) = n /\ \A k \in Ledgers : k # l => Reserves(t, k) = 0
    BY <2>1 DEF Reserves, NoReservation, Ledgers
  <2> QED
    BY <1>8, <2>2, <2>3
<1>10. ASSUME NEW t \in Threads, CancelReservation(t) PROVE LedgerInv'
  <2>1. PICK l \in Ledgers, n \in Nat : held[t] = [on |-> l, amount |-> n] /\ op[t] = Resting
    BY <1>10, <1>B DEF CancelReservation
  <2>2. /\ ledgers' = [ledgers EXCEPT ![l].reserved = @ - n]
        /\ op' = [op EXCEPT ![t] = Resting] /\ held' = [held EXCEPT ![t] = NoReservation]
        /\ UNCHANGED <<child, charged, forced>>
    BY <1>0, <1>10, <2>1 DEF CancelReservation, ThreadsOK
  <2>3. Reserves(t, l) = n /\ \A k \in Ledgers : k # l => Reserves(t, k) = 0
    BY <2>1 DEF Reserves, Resting
  <2> QED
    BY <1>8, <2>2, <2>3
<1>11. ASSUME NEW t \in Threads, CreateChild(t) PROVE LedgerInv'
  <2>1. PICK n \in Nat : /\ op[t] \in Calling /\ IsAllocation(op[t]) /\ n = op[t].amount
                         /\ child = "none" /\ op[t].on = "root" /\ held[t].on # "child"
    BY <1>4, <1>11, <1>B, LedgerAmountsType DEF CreateChild, ThreadOK, IsAllocation, Calling
  <2>2. op' = [op EXCEPT ![t] = Resting] /\ UNCHANGED <<held, charged, forced>>
    BY <1>11 DEF CreateChild, Go
  <2>3. \A u \in Threads, k \in Ledgers : Reserves(u, k)' = Reserves(u, k)
    BY <1>0, <2>1, <2>2 DEF Reserves, ThreadsOK, Resting, Calling
  <2>4. \A u \in Threads : op'[u] = IF u = t THEN Resting ELSE op[u]
    BY <1>0, <2>2 DEF ThreadsOK
  <2>5. \A u \in Threads : ~IsAllocation(op'[u])
    BY <1>0, <2>1, <2>4 DEF ThreadsOK, IsAllocation, Resting
  <2>6. ThreadsOK'
    <3>1. \A u \in Threads : ThreadOK(op'[u], held[u], child', forced')
      <4>1. child' \in {child, "open"} /\ forced' = forced
        BY <1>11, <2>2 DEF CreateChild
      <4>2. ASSUME NEW u \in Threads PROVE ThreadOK(op'[u], held[u], child', forced')
        <5>1. ThreadOK(op[u], held[u], child, forced)
          BY <1>B
        <5> QED
          BY <2>1, <2>4, <2>5, <4>1, <5>1 DEF ThreadOK, Resting
      <4> QED
        BY <4>2
    <3> QED
      BY <1>0, <2>2, <2>5, <3>1 DEF ThreadsOK
  <2>7. CASE UNCHANGED <<ledgers, child>>
    BY <1>A, <2>2, <2>3, <2>6, <2>7, ReservationsKept, LedgerInvParts
  <2>8. CASE /\ ledgers' = [ledgers EXCEPT !["root"].settled = @ + n, !["child"] = NewLedger(n)]
             /\ child' = "open"
    <3>1. ledgers["child"].reserved = 0
      <4>1. [u \in Threads |-> Reserves(u, "child")] = [u \in Threads |-> 0]
        BY <1>B, <2>1 DEF Reserves, ThreadOK, Resting
      <4>2. Reserved([u \in Threads |-> 0]) = {}
        BY DEF Reserved
      <4> QED
        BY <1>0, <4>1, <4>2, FS_EmptySet DEF ReservedIsOpen, Ledgers
    <3>2. /\ ledgers'["root"] = [ledgers["root"] EXCEPT !.settled = @ + n]
          /\ ledgers'["child"] = [initial |-> n, reserved |-> 0, settled |-> 0]
          /\ ledgers' \in [Ledgers -> [initial : Nat, reserved : Nat, settled : Int]]
      BY <1>0, <2>8 DEF AccountsOK, Ledgers, NewLedger
    <3>3. \A k \in Ledgers : ledgers'[k].reserved = ledgers[k].reserved
      BY <1>0, <3>1, <3>2 DEF Ledgers, AccountsOK
    <3>4. AllocationConserved'
      <4>1. ledgers["root"].settled = charged["root"] + 0 /\ charged["child"] = 0
        BY <1>0, <2>1 DEF AccountsOK, AllocationConserved, NoDoubleCount, ChildAllocation, Ledgers
      <4>2. ledgers'["root"].settled = ledgers["root"].settled + n
        BY <1>0, <3>2 DEF AccountsOK, Ledgers
      <4>3. ChildAllocation' = n
        BY <2>8, <3>2 DEF ChildAllocation
      <4>4. charged["root"] \in Nat
        BY <1>0 DEF AccountsOK, Ledgers
      <4> QED
        BY <2>2, <3>2, <4>1, <4>2, <4>3, <4>4 DEF AllocationConserved, NoDoubleCount
    <3>5. AccountsOK'
      <4>1. charged["child"] = 0
        BY <1>0, <2>1 DEF AccountsOK
      <4> QED
        BY <1>0, <2>2, <2>8, <3>2, <3>4, <4>1 DEF AccountsOK
    <3> QED
      BY <2>3, <2>6, <3>3, <3>5, ReservationsKept, LedgerInvParts
  <2> QED
    BY <1>11, <2>1, <2>7, <2>8 DEF CreateChild
<1>12. ASSUME NEW t \in Threads, NEW o \in Ops, NEW l \in Ledgers, NEW cost \in Nat,
              Charge(l, cost), l = "child" => child \in {"open", "reused"},
              op' = [op EXCEPT ![t] = o], UNCHANGED <<child, held, forced>>,
              o.step \in {"rest", "report"}, o.step = "report" => o.on = "root" /\ forced,
              op[t].step # "unreserve"
       PROVE  LedgerInv'
  <2>1. ThreadOK(o, held[t], child, forced) /\ ~IsAllocation(o)
    BY <1>12, <1>B DEF ThreadOK, IsAllocation
  <2>2. held' = [held EXCEPT ![t] = held[t]]
    BY <1>0, <1>12 DEF ThreadsOK
  <2>3. ThreadsOK'
    BY <1>0, <1>12, <1>B, <2>1, <2>2, ThreadMoves
  <2>4. AccountsOK' /\ \A k \in Ledgers : ledgers'[k].reserved = ledgers[k].reserved
    BY <1>0, <1>12, ChargeKeepsAccounts
  <2>5. \A u \in Threads, k \in Ledgers : Reserves(u, k)' = Reserves(u, k)
    BY <1>0, <1>12 DEF Reserves, ThreadsOK
  <2> QED
    BY <2>3, <2>4, <2>5, ReservationsKept, LedgerInvParts
<1>13. ASSUME NEW t \in Threads, ForceSettle(t) PROVE LedgerInv'
  <2> DEFINE actual == Smaller(op[t].amount, RemainingSeen(t))
  <2>1. op[t] \in Calling /\ (op[t].on = "child" => child \in {"open", "reused"} /\ forced)
    BY <1>4, <1>13, <1>B DEF ForceSettle, ThreadOK, Calling
  <2>2. PICK l \in Ledgers : l = op[t].on
    BY <2>1 DEF Calling
  <2>3. op[t].amount \in Nat /\ ledgers[l].initial - op[t].seen - op[t].spent \in Int
    <3>1. op[t].amount \in Nat /\ op[t].seen \in Nat /\ op[t].spent \in Int
      BY <2>1, LedgerAmountsType DEF Calling
    <3>2. ledgers[l].initial \in Nat
      BY <1>0 DEF AccountsOK
    <3> QED
      BY <3>1, <3>2
  <2>4. PICK cost \in Nat : cost = actual
    BY <2>2, <2>3 DEF RemainingSeen, Saturating, Smaller
  <2>5. PICK o \in Ops : /\ op' = [op EXCEPT ![t] = o] /\ o.step \in {"rest", "report"}
                         /\ o.step = "report" => o.on = "root" /\ forced
    <3> DEFINE r == [step |-> "report", on |-> "root", amount |-> cost]
    <3>1. r \in Ops /\ Resting.step = "rest"
      BY DEF Finishing, Ledgers, Resting
    <3>2. (op' = [op EXCEPT ![t] = r] /\ forced) \/ op' = [op EXCEPT ![t] = Resting]
      BY <1>13, <2>1, <2>4 DEF ForceSettle, Go
    <3> QED
      BY <1>C, <3>1, <3>2
  <2>6. Charge(l, cost) /\ UNCHANGED <<child, held, forced>> /\ op[t].step # "unreserve"
    BY <1>13, <2>2, <2>4 DEF ForceSettle
  <2> QED
    BY <1>12, <2>1, <2>2, <2>5, <2>6
<1>14. ASSUME NEW t \in Threads, ReportToParent(t) PROVE LedgerInv'
  <2>1. op[t] \in Finishing /\ forced
    BY <1>14, <1>B DEF ReportToParent, Resting, Calling, ThreadOK
  <2>2. PICK cost \in Nat : cost = op[t].amount
    BY <2>1 DEF Finishing
  <2>3. /\ op' = [op EXCEPT ![t] = Resting] /\ held' = [held EXCEPT ![t] = held[t]]
        /\ UNCHANGED <<child, held, charged, forced>> /\ op[t].step = "report"
        /\ ledgers' = [ledgers EXCEPT !["root"].settled = @ + cost]
    BY <1>0, <1>14, <2>2 DEF ReportToParent, Go, ThreadsOK
  <2>4. ThreadOK(Resting, held[t], child, forced)
    BY <1>B, <1>C DEF ThreadOK
  <2>5. ThreadsOK'
    BY <1>0, <1>B, <1>C, <2>3, <2>4, ThreadMoves DEF IsAllocation, Resting
  <2>6. /\ ledgers' \in [Ledgers -> [initial : Nat, reserved : Nat, settled : Int]]
        /\ ledgers'["root"].settled = ledgers["root"].settled + cost
        /\ ledgers["root"].settled \in Int
        /\ ledgers'["child"] = ledgers["child"]
        /\ \A k \in Ledgers : ledgers'[k].reserved = ledgers[k].reserved
    BY <1>0, <2>3 DEF AccountsOK, Ledgers
  <2>7. ChildAllocation' = ChildAllocation /\ ChildAllocation \in Nat /\ charged["root"] \in Nat
    BY <1>0, <2>3, <2>6 DEF AccountsOK, Ledgers, ChildAllocation, Smaller
  <2>8. AllocationConserved'
    BY <1>0, <2>1, <2>3, <2>6, <2>7 DEF AccountsOK, AllocationConserved
  <2>9. AccountsOK'
    BY <1>0, <2>3, <2>6, <2>8 DEF AccountsOK
  <2>10. \A u \in Threads, k \in Ledgers : Reserves(u, k)' = Reserves(u, k)
    BY <1>0, <2>3 DEF Reserves, ThreadsOK, Resting
  <2> QED
    BY <2>5, <2>6, <2>9, <2>10, ReservationsKept, LedgerInvParts
<1>15. CASE ReleaseUnused
  <2> DEFINE i == ledgers["child"].initial
             d == ledgers["child"].settled
  <2>1. /\ child \in {"open", "released"} /\ UNCHANGED <<op, held, charged, forced>>
        /\ child' \in {"released", "reused"}
        /\ child' = "released" => child = "open" /\ ChildDone
    BY <1>15 DEF ReleaseUnused
  <2>2. ThreadsOK'
    <3>1. ASSUME NEW t \in Threads PROVE ThreadOK(op[t], held[t], child', forced)
      <4>1. ThreadOK(op[t], held[t], child, forced) /\ op[t] \in Ops
        BY <1>B
      <4>2. CASE child' = "reused"
        BY <2>1, <4>1, <4>2 DEF ThreadOK
      <4>3. CASE child' = "released"
        <5>1. held[t].on # "child" /\ (op[t].step # "rest" => op[t].on # "child")
          BY <2>1, <4>3 DEF ChildDone, Resting
        <5> QED
          BY <2>1, <4>1, <4>3, <5>1 DEF ThreadOK
      <4> QED
        BY <2>1, <4>2, <4>3
    <3> QED
      BY <1>0, <2>1, <3>1 DEF ThreadsOK
  <2>3. /\ charged["root"] \in Nat /\ i \in Nat /\ d \in Nat /\ d = charged["child"]
        /\ ledgers["root"].settled \in Int
    BY <1>0 DEF AccountsOK, Ledgers
  <2>4. i - Saturating(i - d) = Smaller(i, d) /\ Smaller(i, d) \in Nat /\ Saturating(i - d) \in Nat
    BY <2>3 DEF Saturating, Smaller
  <2>6. /\ ledgers'["root"] = [ledgers["root"] EXCEPT !.settled = @ - Saturating(i - d)]
        /\ ledgers'["child"] = ledgers["child"]
        /\ ledgers' = [k \in Ledgers |-> ledgers'[k]]
    BY <1>0, <1>15 DEF ReleaseUnused, AccountsOK, Ledgers
  <2>7. ledgers'["root"].settled = ledgers["root"].settled - Saturating(i - d)
    <3>1. ledgers["root"] \in [initial : Nat, reserved : Nat, settled : Int]
      BY <1>0 DEF AccountsOK, Ledgers
    <3> QED
      BY <2>6, <3>1
  <2>8. ledgers' \in [Ledgers -> [initial : Nat, reserved : Nat, settled : Int]]
    <3>1. ledgers'["root"].settled \in Int
      BY <2>3, <2>4, <2>7
    <3>2. ledgers["root"] \in [initial : Nat, reserved : Nat, settled : Int]
          /\ ledgers["child"] \in [initial : Nat, reserved : Nat, settled : Int]
      BY <1>0 DEF AccountsOK, Ledgers
    <3>3. ledgers'["root"] \in [initial : Nat, reserved : Nat, settled : Int]
      BY <2>6, <3>1, <3>2
    <3> QED
      BY <2>6, <3>2, <3>3 DEF Ledgers
  <2>9. AllocationConserved'
    <3>1. CASE child' = "reused"
      BY <3>1 DEF AllocationConserved, NoDoubleCount
    <3>2. CASE child' = "released"
      <4>1. ChildAllocation = i /\ ChildAllocation' = Smaller(i, d)
        BY <2>1, <2>3, <2>6, <3>2 DEF ChildAllocation
      <4>2. /\ ledgers["root"].settled >= charged["root"] + i
            /\ ~forced => ledgers["root"].settled = charged["root"] + i
        BY <1>0, <2>1, <3>2, <4>1 DEF AccountsOK, AllocationConserved, NoDoubleCount
      <4> HIDE DEF i, d
      <4>3. /\ ledgers'["root"].settled >= charged["root"] + Smaller(i, d)
            /\ ~forced => ledgers'["root"].settled = charged["root"] + Smaller(i, d)
        BY <2>3, <2>4, <2>7, <4>2
      <4> QED
        BY <2>1, <4>1, <4>3 DEF AllocationConserved, NoDoubleCount
    <3> QED
      BY <2>1, <3>1, <3>2
  <2>10. AccountsOK'
    BY <1>0, <2>1, <2>6, <2>8, <2>9 DEF AccountsOK
  <2>11. \A k \in Ledgers : ledgers'[k].reserved = ledgers[k].reserved
    BY <1>0, <2>6 DEF Ledgers, AccountsOK
  <2>12. \A u \in Threads, k \in Ledgers : Reserves(u, k)' = Reserves(u, k)
    BY <2>1 DEF Reserves
  <2> QED
    BY <2>2, <2>10, <2>11, <2>12, ReservationsKept, LedgerInvParts
<1> QED
  BY <1>1, <1>2, <1>5, <1>6, <1>7, <1>9, <1>10, <1>11, <1>13, <1>14, <1>15 DEF LedgerNext

\* No reservation of a run's budget is lost or stays behind, and none of what is
\* spent is missing from the parent's account, whatever the threads of the run
\* and of its child do to the two atomics in between; the second for a child
\* that is released once, when it is done, and exactly so where force_settle is
\* not called on it.
THEOREM BudgetIsConserved == LedgerSpec => []BudgetConserved
<1>1. LedgerInit => LedgerInv
  <2> SUFFICES ASSUME LedgerInit PROVE LedgerInv
    OBVIOUS
  <2>1. ThreadsOK
    BY DEF LedgerInit, ThreadsOK, ThreadOK, IsAllocation, Resting, NoReservation
  <2>2. AccountsOK
    <3>1. ChildAllocation = 0
      BY DEF LedgerInit, ChildAllocation
    <3>2. ledgers["root"].settled = 0 /\ ledgers["child"].settled = 0
          /\ charged["root"] = 0 /\ charged["child"] = 0
      BY DEF LedgerInit, NewLedger, Ledgers
    <3>3. AllocationConserved
      BY <3>1, <3>2 DEF AllocationConserved, NoDoubleCount
    <3> QED
      <4>1. ledgers \in [Ledgers -> [initial : Nat, reserved : Nat, settled : Int]]
        BY LedgerAmountsType DEF LedgerInit, NewLedger
      <4> QED
        BY <3>2, <3>3, <4>1 DEF LedgerInit, AccountsOK
  <2>3. ReservedIsOpen
    <3>1. Reserved([t \in Threads |-> 0]) = {}
      BY DEF Reserved
    <3>2. \A l \in Ledgers : [t \in Threads |-> Reserves(t, l)] = [t \in Threads |-> 0]
      BY DEF LedgerInit, Reserves, Resting, NoReservation, Ledgers
    <3>3. \A l \in Ledgers : ledgers[l].reserved = 0
      BY DEF LedgerInit, NewLedger
    <3> QED
      BY <3>1, <3>2, <3>3, FS_EmptySet DEF ReservedIsOpen
  <2> QED
    BY <2>1, <2>2, <2>3 DEF LedgerInv, LedgerTypeOK, ThreadsOK, AccountsOK
<1>2. LedgerInv /\ [LedgerNext]_ledgerVars => LedgerInv'
  BY LedgerStep
<1>3. LedgerInv => BudgetConserved
  BY DEF LedgerInv, BudgetConserved
<1> QED
  BY <1>1, <1>2, <1>3, PTL DEF LedgerSpec

-----------------------------------------------------------------------------
(* The merge of policies is strictest-wins.                                 *)

\* The stricter of two optional limits exceeds neither.
LEMMA StricterIsAtMost ==
    ASSUME NEW a \in Option(Nat), NEW b \in Option(Nat)
    PROVE  /\ Stricter(a, b) \in Option(Nat)
           /\ AtMost(Stricter(a, b), a) /\ AtMost(Stricter(a, b), b)
           /\ a \in Nat \/ b \in Nat => Stricter(a, b) \in Nat
BY PolicyConstants DEF Option, Stricter, AtMost

\* Being at most composes.
LEMMA AtMostTransitive ==
    ASSUME NEW a \in Option(Nat), NEW b \in Option(Nat), NEW c \in Option(Nat),
           AtMost(a, b), AtMost(b, c)
    PROVE  AtMost(a, c)
BY PolicyConstants DEF Option, AtMost

\* Three layers.
LEMMA StrictestOfThree ==
    ASSUME NEW a \in Option(Nat), NEW b \in Option(Nat), NEW c \in Option(Nat)
    PROVE  LET m == Stricter(Stricter(a, b), c) IN
           /\ m \in Option(Nat) /\ AtMost(m, a) /\ AtMost(m, b) /\ AtMost(m, c)
           /\ a \in Nat \/ b \in Nat \/ c \in Nat => m \in Nat
<1> DEFINE l == Stricter(a, b)
           m == Stricter(l, c)
<1>1. /\ l \in Option(Nat) /\ AtMost(l, a) /\ AtMost(l, b)
      /\ a \in Nat \/ b \in Nat => l \in Nat
  BY StricterIsAtMost
<1>2. /\ m \in Option(Nat) /\ AtMost(m, l) /\ AtMost(m, c)
      /\ l \in Nat \/ c \in Nat => m \in Nat
  BY <1>1, StricterIsAtMost
<1>3. AtMost(m, a) /\ AtMost(m, b)
  BY <1>1, <1>2, AtMostTransitive
<1> QED
  BY <1>1, <1>2, <1>3

\* Strictness of policies composes.
LEMMA AsStrictTransitive ==
    ASSUME NEW p \in Policies, NEW q \in Policies, NEW r \in Policies,
           AsStrictAs(p, q), AsStrictAs(q, r)
    PROVE  AsStrictAs(p, r)
BY PolicyConstants DEF Policies, Option, AsStrictAs, AtMost

\* narrow_child_policy, for any parent, agent and request: the child's policy
\* is as strict as its parent's.
LEMMA ChildIsAsStrict ==
    ASSUME NEW p \in Policies, NEW a \in AgentLayers, NEW q \in Requests, NEW now \in Nat
    PROVE  LET narrowed == NarrowChildPolicy(p, a, q, now) IN
           narrowed \in Policies /\ AsStrictAs(narrowed, p)
<1> DEFINE turns == Stricter(Stricter(p.turns, a.turns), q.turns)
           budget == Stricter(Stricter(a.cost, q.cost), p.budget)
           narrowed == NarrowChildPolicy(p, a, q, now)
<1>1. /\ p.turns \in Nat /\ p.budget \in Nat /\ p.turns \in Option(Nat) /\ p.budget \in Option(Nat)
      /\ a.turns \in Option(Nat) /\ a.cost \in Option(Nat)
      /\ q.turns \in Option(Nat) /\ q.cost \in Option(Nat)
  BY LayerTypes DEF Policies, Option
<1>2. turns \in Nat /\ AtMost(turns, p.turns)
  BY <1>1, StrictestOfThree
<1>3. budget \in Nat /\ AtMost(budget, p.budget)
  BY <1>1, StrictestOfThree
<1>4. budget <= p.budget
  BY <1>1, <1>3, PolicyConstants DEF AtMost
<1>5. AtMost(p.deadline, p.deadline)
  BY PolicyConstants DEF AtMost, Policies, Option
<1>6. /\ narrowed.turns = turns /\ narrowed.budget = budget /\ narrowed.deadline = p.deadline
      /\ narrowed.disallowed = p.disallowed
      /\ narrowed.tools \subseteq p.tools /\ narrowed.auto \subseteq p.auto
  BY DEF NarrowChildPolicy
<1>7. narrowed \in Policies
  BY <1>2, <1>3, <1>6 DEF NarrowChildPolicy, Policies
<1> QED
  BY <1>2, <1>4, <1>5, <1>6, <1>7 DEF AsStrictAs

\* The merged policy of three layers is a policy and exceeds none of them.
LEMMA MergeIsStrictest ==
    ASSUME NEW g, NEW a, NEW r, NEW now \in Nat,
           g.turns \in Nat, g.cost \in Option(Nat), g.timeout \in Nat,
           a.turns \in Option(Nat), a.cost \in Option(Nat),
           r.turns \in Option(Nat), r.budget \in Option(Nat), r.runtime \in Option(Nat),
           Given(r.disallowed) \in {Given(l.disallowed) : l \in RunLayers} \cup {{}}
    PROVE  LET p == MergePolicy(g, a, r, now) IN
           /\ p \in Policies
           /\ AtMost(p.turns, g.turns) /\ AtMost(p.turns, a.turns) /\ AtMost(p.turns, r.turns)
           /\ AtMost(p.budget, g.cost) /\ AtMost(p.budget, a.cost) /\ AtMost(p.budget, r.budget)
           /\ p.auto \subseteq p.tools /\ p.tools \cap Given(r.disallowed) = {}
           /\ \A list \in {a.tools, r.toolset} : Given(list) # {} => p.tools \subseteq list
<1> DEFINE turns == MergeMaxTurns(g, a, r)
           least == Stricter(Stricter(g.cost, a.cost), r.budget)
           budget == MergeMaxBudget(g, a, r)
           secs == Stricter(g.timeout * turns, r.runtime)
           deadline == MergeDeadline(g, r, turns, now)
           tools == MergeToolPolicies(a, r)
           p == MergePolicy(g, a, r, now)
<1>1. /\ turns \in Nat
      /\ AtMost(turns, g.turns) /\ AtMost(turns, a.turns) /\ AtMost(turns, r.turns)
  BY StrictestOfThree DEF MergeMaxTurns, Option
<1>2. least \in Option(Nat) /\ AtMost(least, g.cost) /\ AtMost(least, a.cost) /\ AtMost(least, r.budget)
  BY StrictestOfThree
<1>3. /\ budget \in Nat
      /\ AtMost(budget, g.cost) /\ AtMost(budget, a.cost) /\ AtMost(budget, r.budget)
  <2>1. budget = IF least = Unset THEN 0 ELSE least
    BY DEF MergeMaxBudget
  <2> HIDE DEF least, budget
  <2> QED
    BY <1>2, <2>1, PolicyConstants DEF Option, AtMost
<1>4. deadline \in Option(Nat)
  <2>1. g.timeout * turns \in Nat
    <3> HIDE DEF turns
    <3> QED
      BY <1>1
  <2>2. secs \in Nat
    <3> DEFINE product == g.timeout * turns
    <3>1. product \in Option(Nat) /\ product \in Nat
      BY <2>1 DEF Option
    <3> HIDE DEF product
    <3>2. Stricter(product, r.runtime) \in Nat
      BY <3>1, StricterIsAtMost
    <3> QED
      BY <3>2 DEF product
  <2>3. deadline = IF secs > 0 THEN now + secs ELSE Unset
    BY DEF MergeDeadline
  <2> HIDE DEF secs, deadline
  <2> QED
    BY <2>2, <2>3 DEF Option
<1>5. /\ tools.tools \subseteq RunTools /\ tools.auto \subseteq tools.tools
      /\ tools.disallowed = Given(r.disallowed)
      /\ tools.tools \cap Given(r.disallowed) = {}
  BY DEF MergeToolPolicies
<1>6. \A list \in {a.tools, r.toolset} : Given(list) # {} => tools.tools \subseteq list
  BY DEF MergeToolPolicies, AllowedBy
<1>7. p = [turns |-> turns, budget |-> budget, deadline |-> deadline, started |-> now,
           tools |-> tools.tools, disallowed |-> tools.disallowed, auto |-> tools.auto]
  BY DEF MergePolicy
<1> HIDE DEF turns, budget, deadline, tools, p
<1>8. p \in Policies
  BY <1>1, <1>3, <1>4, <1>5, <1>7 DEF Policies
<1> QED
  BY <1>1, <1>3, <1>5, <1>6, <1>7, <1>8 DEF p

\* What RootWithinLayers says of a policy and the layers it came from.
Within(p, l) ==
    /\ l.kind = "session" =>
         /\ AtMost(p.turns, l.global.turns) /\ AtMost(p.turns, l.agent.turns)
         /\ AtMost(p.turns, l.run.turns)
         /\ AtMost(p.budget, l.global.cost) /\ AtMost(p.budget, l.agent.cost)
         /\ AtMost(p.budget, l.run.budget)
         /\ p.tools # {} /\ p.auto \subseteq p.tools
         /\ p.tools \cap Given(l.run.disallowed) = {}
         /\ \A list \in {l.agent.tools, l.run.toolset} : Given(list) # {} => p.tools \subseteq list
    /\ l.kind = "schedule" => AtMost(p.turns, l.config.turns) /\ AtMost(p.budget, l.config.cost)

\* A session's run is admitted with a policy within all its layers.
LEMMA SessionPolicyWithin ==
    ASSUME NEW g \in GlobalLayers, NEW a \in AgentLayers, NEW r \in RunLayers, NEW now \in Nat,
           ResolvePolicy(g, a, r, now) # Invalid
    PROVE  LET p == ResolvePolicy(g, a, r, now) IN
           p \in Policies
           /\ Within(p, [kind |-> "session", global |-> g, agent |-> a, run |-> r])
<1>1. ResolvePolicy(g, a, r, now) = MergePolicy(g, a, r, now)
      /\ MergePolicy(g, a, r, now).tools # {}
  BY DEF ResolvePolicy, EffectiveValid
<1> QED
  BY <1>1, LayerTypes, MergeIsStrictest DEF Within

\* A schedule's run is admitted with a policy within the scheduler's limits,
\* be it from the schedule's own policy or the fallback.
LEMMA SchedulePolicyWithin ==
    ASSUME NEW c \in ScheduleConfigs, NEW r \in RunLayers, NEW now \in Nat,
           ResolveSchedulePolicy(c, r, now) # Invalid
    PROVE  LET p == ResolveSchedulePolicy(c, r, now) IN
           p \in Policies /\ Within(p, [kind |-> "schedule", config |-> c, run |-> r])
<1> DEFINE g == ScheduleGlobal(c)
           own == ScheduleInput(c, r)
           fallback == ScheduleFallback(c)
           p == ResolveSchedulePolicy(c, r, now)
<1>1. /\ g.turns = c.turns /\ g.cost = c.cost /\ g.timeout = 60
      /\ DefaultAgent.turns = Unset /\ DefaultAgent.cost = Unset
      /\ c.turns \in Nat /\ c.cost \in Nat
      /\ c.turns \in Option(Nat) /\ c.cost \in Option(Nat) /\ Unset \in Option(Nat)
  BY LayerTypes DEF ScheduleGlobal, GlobalLayer, DefaultAgent, AgentLayer, Option
<1>2. ConfigBudget(c) \in Option(Nat)
  BY <1>1 DEF ConfigBudget, Option
<1>3. /\ own.turns \in Option(Nat) /\ own.budget \in Option(Nat) /\ own.runtime \in Option(Nat)
      /\ own.disallowed = r.disallowed
  <2>1. /\ r = RunLayer(r.turns, r.budget, r.runtime, r.toolset, r.disallowed, r.auto)
        /\ r.turns \in Option(Nat) /\ r.budget \in Option(Nat) /\ r.runtime \in Option(Nat)
    BY LayerTypes
  <2>2. Stricter(r.turns, c.turns) \in Option(Nat)
    BY <1>1, <2>1, StricterIsAtMost
  <2>3. /\ own.turns = Stricter(r.turns, c.turns)
        /\ own.budget = IF r.budget = Unset THEN ConfigBudget(c) ELSE r.budget
        /\ own.runtime = r.runtime /\ own.disallowed = r.disallowed
    <3>1. PICK t, b, secs, set, d, auto : r = RunLayer(t, b, secs, set, d, auto)
      BY <2>1
    <3> QED
      BY <3>1 DEF ScheduleInput, RunLayer
  <2> HIDE DEF own
  <2> QED
    BY <1>2, <2>1, <2>2, <2>3 DEF RunLayer
<1>4. /\ fallback.turns \in Option(Nat) /\ fallback.budget \in Option(Nat)
      /\ fallback.runtime \in Option(Nat) /\ Given(fallback.disallowed) = {}
  BY <1>1, <1>2 DEF ScheduleFallback, RunLayer, Given
<1>5. p = MergePolicy(g, DefaultAgent, own, now) \/ p = MergePolicy(g, DefaultAgent, fallback, now)
  BY DEF ResolveSchedulePolicy, ResolvePolicy
<1>6. ASSUME NEW in, in.turns \in Option(Nat), in.budget \in Option(Nat),
             in.runtime \in Option(Nat), p = MergePolicy(g, DefaultAgent, in, now),
             Given(in.disallowed) \in {Given(l.disallowed) : l \in RunLayers} \cup {{}}
      PROVE  p \in Policies /\ AtMost(p.turns, c.turns) /\ AtMost(p.budget, c.cost)
  <2> HIDE DEF p, g
  <2> QED
    BY <1>1, <1>6, MergeIsStrictest
<1>7. p \in Policies /\ AtMost(p.turns, c.turns) /\ AtMost(p.budget, c.cost)
  <2> HIDE DEF p, g, own, fallback
  <2> QED
    BY <1>3, <1>4, <1>5, <1>6
<1> QED
  BY <1>7 DEF Within
-----------------------------------------------------------------------------
(* Delegation: the stack of runs.                                           *)

\* The entries of q that are also in b have the same policies there.
SamePolicies(q, b) ==
    \A i \in 1..Len(b) : i <= Len(q) => b[i].policy = q[i].policy
SameTurns(q, b) ==
    \A i \in 1..Len(b) : i <= Len(q) => b[i].turn = q[i].turn

\* Replacing one entry of a sequence.
LEMMA ReplaceEntry ==
    ASSUME NEW S, NEW q \in Seq(S), NEW i \in 1..Len(q), NEW r \in S
    PROVE  LET b == [q EXCEPT ![i] = r] IN
           b \in Seq(S) /\ Len(b) = Len(q) /\ b[i] = r /\ \A j \in 1..Len(q) : j # i => b[j] = q[j]
OBVIOUS

\* The run at the top of the stack goes on.
LEMMA TopMoves ==
    ASSUME NEW q, StackOK(q), Len(q) > 0, NEW r \in Runs,
           r.policy = q[Len(q)].policy, r.at # "delegated", RunOK(r)
    PROVE  LET b == [q EXCEPT ![Len(q)] = r] IN
           /\ StackOK(b) /\ Len(b) = Len(q) /\ SamePolicies(q, b)
           /\ b[Len(q)] = r /\ \A i \in 1..Len(q) : i # Len(q) => b[i] = q[i]
<1> DEFINE n == Len(q)
           b == [q EXCEPT ![n] = r]
<1>1. q \in Seq(Runs) /\ n \in Nat \ {0} /\ n \in 1..n
  BY DEF StackOK
<1>2. b \in Seq(Runs) /\ Len(b) = n /\ b[n] = r /\ \A i \in 1..n : i # n => b[i] = q[i]
  BY <1>1
<1> HIDE DEF n, b
<1>3. \A i \in 1..n : b[i].policy = q[i].policy
  BY <1>2 DEF n
<1>4. \A i \in 1..n : RunOK(b[i]) /\ (b[i].at = "delegated" <=> i < n)
  BY <1>1, <1>2 DEF StackOK, n
<1>5. StackOK(b)
  BY <1>2, <1>3, <1>4 DEF StackOK, n
<1> QED
  BY <1>2, <1>3, <1>5 DEF SamePolicies, n, b

\* The runs above i end, with an answer or dropped by a timeout, and run i
\* goes on at the top of its loop.
LEMMA StackShrinks ==
    ASSUME NEW q, StackOK(q), NEW i \in 1..Len(q), i < Len(q)
    PROVE  LET b == [SubSeq(q, 1, i) EXCEPT ![i].at = "top"] IN
           StackOK(b) /\ Len(b) = i /\ SamePolicies(q, b) /\ SameTurns(q, b)
<1> DEFINE n == Len(q)
           s == SubSeq(q, 1, i)
           r == [q[i] EXCEPT !.at = "top"]
           b == [s EXCEPT ![i].at = "top"]
<1>1. q \in Seq(Runs) /\ n \in Nat /\ i \in Nat /\ i >= 1 /\ i < n /\ i \in 1..i
      /\ MaxDelegationDepth \in Nat /\ n <= MaxDelegationDepth + 1
  BY DelegationBounds DEF StackOK
<1>2. s \in Seq(Runs) /\ Len(s) = i /\ \A j \in 1..i : s[j] = q[j]
  BY <1>1
<1>3. q[i] \in Runs /\ \A j \in 1..i : j \in 1..n
  BY <1>1
<1>4. r \in Runs /\ r.policy = q[i].policy /\ r.turn = q[i].turn /\ r.spent = q[i].spent
      /\ r.at = "top"
  BY <1>3 DEF Runs
<1> HIDE DEF n, s, r
<1>5. b = [s EXCEPT ![i] = r]
  BY <1>1, <1>2 DEF r
<1>6. b \in Seq(Runs) /\ Len(b) = i /\ b[i] = r /\ \A j \in 1..i : j # i => b[j] = q[j]
  BY <1>1, <1>2, <1>4, <1>5
<1> HIDE DEF b
<1>7. q[i].at = "delegated" /\ RunOK(q[i])
  BY <1>1 DEF StackOK, n
<1>8. RunOK(r)
  BY <1>4, <1>7 DEF RunOK
<1>9. \A j \in 1..i : b[j].policy = q[j].policy /\ b[j].turn = q[j].turn
  BY <1>4, <1>6
<1>10. \A j \in 1..i : RunOK(b[j]) /\ (b[j].at = "delegated" <=> j < i)
  <2> TAKE j \in 1..i
  <2>1. j \in 1..n /\ RunOK(q[j]) /\ (q[j].at = "delegated" <=> j < n)
    BY <1>3 DEF StackOK, n
  <2> QED
    BY <1>1, <1>4, <1>6, <1>8, <2>1
<1>11. \A j, k \in 1..i : j < k => AsStrictAs(b[k].policy, b[j].policy)
  BY <1>3, <1>9 DEF StackOK, n
<1>12. StackOK(b)
  BY <1>1, <1>6, <1>10, <1>11 DEF StackOK
<1> QED
  BY <1>6, <1>9, <1>12 DEF SamePolicies, SameTurns, b, s

\* A child is put on top of the run that called delegate_to_agent.
LEMMA StackGrows ==
    ASSUME NEW q, StackOK(q), Len(q) > 0, q[Len(q)].at = "tool",
           Len(q) - 1 < MaxDelegationDepth,
           NEW r \in Runs, r.at = "top", r.turn = 0, AsStrictAs(r.policy, q[Len(q)].policy)
    PROVE  LET b == Append([q EXCEPT ![Len(q)].at = "delegated"], r) IN
           StackOK(b) /\ Len(b) = Len(q) + 1 /\ SamePolicies(q, b) /\ SameTurns(q, b)
<1> DEFINE n == Len(q)
           top == [q[n] EXCEPT !.at = "delegated"]
           s == [q EXCEPT ![n].at = "delegated"]
           b == Append(s, r)
<1>1. q \in Seq(Runs) /\ n \in Nat /\ n >= 1 /\ n \in 1..n /\ MaxDelegationDepth \in Nat
  BY DelegationBounds DEF StackOK
<1>2. q[n] \in Runs /\ RunOK(q[n])
  BY <1>1 DEF StackOK
<1>3. /\ top \in Runs /\ top.policy = q[n].policy /\ top.turn = q[n].turn
      /\ top.spent = q[n].spent /\ top.at = "delegated"
  BY <1>2 DEF Runs
<1>4. RunOK(top) /\ RunOK(r)
  BY <1>2, <1>3 DEF RunOK
<1> HIDE DEF top
<1>5. s = [q EXCEPT ![n] = top]
  BY <1>1 DEF top
<1> HIDE DEF s
<1>6. s \in Seq(Runs) /\ Len(s) = n /\ s[n] = top /\ \A j \in 1..n : j # n => s[j] = q[j]
  BY <1>1, <1>3, <1>5, ReplaceEntry
<1> HIDE DEF n
<1>7. /\ b \in Seq(Runs) /\ Len(b) = n + 1 /\ b[n + 1] = r
      /\ \A j \in 1..n : b[j] = s[j]
  BY <1>6
<1> HIDE DEF b
<1>8. \A j \in 1..(n + 1) : j = n + 1 \/ j = n \/ (j \in 1..n /\ j # n /\ j < n)
  BY <1>1
<1>9. \A j \in 1..n : b[j].policy = q[j].policy /\ b[j].turn = q[j].turn
  BY <1>3, <1>6, <1>7
<1>10. \A j \in 1..(n + 1) : RunOK(b[j]) /\ (b[j].at = "delegated" <=> j < n + 1)
  <2> TAKE j \in 1..(n + 1)
  <2>1. CASE j = n + 1
    BY <1>1, <1>4, <1>7, <2>1
  <2>2. CASE j = n
    BY <1>1, <1>3, <1>4, <1>6, <1>7, <2>2
  <2>3. CASE j \in 1..n /\ j # n /\ j < n
    <3>1. b[j] = q[j] /\ RunOK(q[j]) /\ q[j].at = "delegated"
      BY <1>6, <1>7, <2>3 DEF StackOK, n
    <3> QED
      BY <1>1, <2>3, <3>1
  <2> QED
    BY <1>8, <2>1, <2>2, <2>3
<1>11. \A j, k \in 1..(n + 1) : j < k => AsStrictAs(b[k].policy, b[j].policy)
  <2> SUFFICES ASSUME NEW j \in 1..(n + 1), NEW k \in 1..(n + 1), j < k
               PROVE  AsStrictAs(b[k].policy, b[j].policy)
    OBVIOUS
  <2>1. j \in 1..n
    BY <1>1
  <2>2. CASE k \in 1..n
    BY <1>9, <2>1, <2>2 DEF StackOK, n
  <2>3. CASE k = n + 1
    <3>1. AsStrictAs(r.policy, q[n].policy)
      BY DEF n
    <3>2. CASE j = n
      BY <1>7, <1>9, <2>1, <2>3, <3>1, <3>2
    <3>3. CASE j # n
      <4>1. AsStrictAs(q[n].policy, q[j].policy)
        BY <1>1, <2>1, <3>3 DEF StackOK, n
      <4>2. r.policy \in Policies /\ q[n].policy \in Policies /\ q[j].policy \in Policies
        <5>1. q[j] \in Runs
          BY <1>1, <2>1 DEF n
        <5> QED
          BY <1>2, <5>1 DEF Runs
      <4> QED
        BY <1>7, <1>9, <2>1, <2>3, <3>1, <4>1, <4>2, AsStrictTransitive
    <3> QED
      BY <3>2, <3>3
  <2> QED
    BY <1>1, <2>2, <2>3
<1>12. StackOK(b)
  <2>1. n + 1 <= MaxDelegationDepth + 1
    BY <1>1 DEF n
  <2> QED
    BY <1>7, <1>10, <1>11, <2>1 DEF StackOK
<1> QED
  BY <1>1, <1>7, <1>9, <1>12 DEF SamePolicies, SameTurns, n, s, b
\* The empty stack, and one with a freshly admitted run.
LEMMA StackStarts ==
    /\ StackOK(<<>>)
    /\ \A r \in Runs : r.at = "top" /\ r.turn = 0 => StackOK(<<r>>)
<1>1. StackOK(<<>>)
  BY DelegationBounds DEF StackOK
<1>2. ASSUME NEW r \in Runs, r.at = "top", r.turn = 0 PROVE StackOK(<<r>>)
  BY <1>2, DelegationBounds DEF StackOK, RunOK
<1> QED
  BY <1>1, <1>2

\* A new run.
LEMMA NewRunType ==
    ASSUME NEW p \in Policies
    PROVE  /\ NewRun(p) \in Runs /\ NewRun(p).policy = p
           /\ NewRun(p).at = "top" /\ NewRun(p).turn = 0
BY DEF NewRun, Runs, FilteredSchemas

\* RootWithinLayers is Within, of the root, before and after a step.
LEMMA RootWithin ==
    /\ RootWithinLayers <=> (Depth > 0 => Within(runs[1].policy, layers))
    /\ RootWithinLayers' <=> (Len(runs') > 0 => Within(runs'[1].policy, layers'))
BY DEF RootWithinLayers, Within, Depth

\* A step that executes no tool and keeps the root, or ends it.
LEMMA RootKept ==
    ASSUME DelegationInv, UNCHANGED <<layers, asks, executed>>, StackOK(runs'), clock' \in Nat,
           SamePolicies(runs, runs'), Len(runs) > 0 \/ Len(runs') = 0
    PROVE  DelegationInv'
<1>1. Len(runs) \in Nat /\ Len(runs') \in Nat
  BY DEF DelegationInv, StackOK
<1>2. Len(runs') > 0 => Len(runs) > 0 /\ runs'[1].policy = runs[1].policy
  BY <1>1 DEF SamePolicies
<1>3. RootWithinLayers'
  BY <1>2, RootWithin DEF DelegationInv, Depth
<1>4. ToolsWithinRootPolicy'
  BY <1>2 DEF DelegationInv, ToolsWithinRootPolicy, Depth
<1> QED
  BY <1>3, <1>4 DEF DelegationInv

\* A provider call is made within the limits of the run that makes it.
CallsWithinLimits ==
    \A i \in 1..Len(runs) :
        (i <= Len(runs') /\ runs'[i].turn = runs[i].turn + 1) =>
            /\ runs[i].turn < runs[i].policy.turns
            /\ runs[i].policy.deadline # Unset => clock < runs[i].policy.deadline
            /\ runs[i].turn > 0 => runs[i].spent < runs[i].policy.budget

LEMMA NoCalls ==
    ASSUME StackOK(runs), StackOK(runs'), SameTurns(runs, runs')
    PROVE  CallsWithinLimits
<1> SUFFICES ASSUME NEW i \in 1..Len(runs), i <= Len(runs'), runs'[i].turn = runs[i].turn + 1
             PROVE  FALSE
  BY DEF CallsWithinLimits
<1>1. Len(runs) \in Nat /\ Len(runs') \in Nat /\ runs[i] \in Runs
  BY DEF StackOK
<1>2. runs'[i].turn = runs[i].turn
  BY <1>1 DEF SameTurns
<1> QED
  BY <1>1, <1>2 DEF Runs

\* The end of a run, whose result is its parent's.
LEMMA PopKeeps ==
    ASSUME DelegationInv, Depth > 0, Pop
    PROVE  DelegationInv' /\ CallsWithinLimits
<1>0. Depth \in Nat /\ StackOK(runs)
  BY DEF DelegationInv, StackOK, Depth
<1>1. CASE Depth <= 1
  <2>1. runs' = <<>>
    BY <1>1 DEF Pop
  <2>2. Len(runs') = 0 /\ SamePolicies(runs, runs') /\ SameTurns(runs, runs') /\ StackOK(runs')
    BY <2>1, StackStarts DEF SamePolicies, SameTurns
  <2> QED
    BY <1>0, <2>2, RootKept, NoCalls DEF Pop, DelegationInv
<1>2. CASE Depth > 1
  <2>1. Depth - 1 \in 1..Len(runs) /\ Depth - 1 < Len(runs) /\ ~(Depth <= 1)
    BY <1>0, <1>2 DEF Depth
  <2>2. runs' = [SubSeq(runs, 1, Depth - 1) EXCEPT ![Depth - 1].at = "top"]
    BY <2>1 DEF Pop
  <2>3. StackOK(runs') /\ SamePolicies(runs, runs') /\ SameTurns(runs, runs')
    BY <1>0, <2>1, <2>2, StackShrinks
  <2> QED
    BY <1>0, <2>3, RootKept, NoCalls DEF Pop, Depth, DelegationInv
<1> QED
  BY <1>0, <1>1, <1>2

\* A step of the current run that makes no provider call and executes no tool.
LEMMA CurrentMoves ==
    ASSUME DelegationInv, Depth > 0, NEW r \in Runs, r.policy = Current.policy,
           r.at # "delegated", RunOK(r), Update(r), UNCHANGED executed
    PROVE  DelegationInv' /\ (r.turn = Current.turn => CallsWithinLimits)
<1>0. Depth \in Nat /\ StackOK(runs)
  BY DEF DelegationInv, StackOK, Depth
<1>1. runs' = [runs EXCEPT ![Len(runs)] = r]
  BY DEF Update, Depth
<1>2. /\ StackOK(runs') /\ Len(runs') = Len(runs) /\ SamePolicies(runs, runs')
      /\ runs'[Len(runs)] = r /\ \A i \in 1..Len(runs) : i # Len(runs) => runs'[i] = runs[i]
  BY <1>0, <1>1, TopMoves DEF Depth, Current
<1>3. DelegationInv'
  BY <1>0, <1>2, RootKept DEF Update, Depth, DelegationInv
<1>4. ASSUME r.turn = Current.turn PROVE CallsWithinLimits
  <2>1. SameTurns(runs, runs')
    BY <1>2, <1>4 DEF SameTurns, Current, Depth
  <2> QED
    BY <1>0, <1>2, <2>1, NoCalls
<1> QED
  BY <1>3, <1>4
\* Every step keeps the invariant and makes provider calls within limits.
LEMMA DelegationStep ==
    ASSUME DelegationInv, DelegationNext
    PROVE  DelegationInv' /\ CallsWithinLimits
<1> DEFINE Goal == DelegationInv' /\ CallsWithinLimits
<1>0. Depth \in Nat /\ StackOK(runs) /\ clock \in Nat /\ asks \in BOOLEAN
  BY DEF DelegationInv, StackOK, Depth
<1>1. ASSUME Depth > 0
      PROVE  Current \in Runs /\ RunOK(Current) /\ Current.policy \in Policies
  <2>1. Current \in Runs /\ RunOK(Current)
    BY <1>0, <1>1 DEF StackOK, Current, Depth
  <2> QED
    BY <2>1 DEF Runs
<1>2. ASSUME NEW p \in Policies, NEW from, Admit(p, from), Within(p, from) PROVE Goal
  <2>1. /\ NewRun(p) \in Runs /\ NewRun(p).policy = p
        /\ NewRun(p).at = "top" /\ NewRun(p).turn = 0
    BY NewRunType
  <2>2. runs' = <<NewRun(p)>> /\ StackOK(runs')
    BY <1>2, <2>1, StackStarts DEF Admit
  <2>3. Len(runs') > 0 /\ runs'[1].policy = p /\ layers' = from /\ Len(runs) = 0
    BY <1>2, <2>1, <2>2 DEF Admit, Depth
  <2>4. RootWithinLayers'
    BY <1>2, <2>3, RootWithin
  <2>5. ToolsWithinRootPolicy'
    BY <1>2 DEF Admit, ToolsWithinRootPolicy
  <2>6. CallsWithinLimits
    BY <2>3 DEF CallsWithinLimits
  <2> QED
    BY <1>0, <1>2, <2>2, <2>4, <2>5, <2>6 DEF DelegationInv, Admit
<1>3. ASSUME NEW g \in GlobalLayers, NEW a \in AgentLayers, NEW r \in RunLayers,
             AdmitSession(g, a, r)
      PROVE  Goal
  BY <1>0, <1>2, <1>3, SessionPolicyWithin DEF AdmitSession, Admit
<1>4. ASSUME NEW c \in ScheduleConfigs, NEW r \in RunLayers, AdmitSchedule(c, r) PROVE Goal
  BY <1>0, <1>2, <1>4, SchedulePolicyWithin DEF AdmitSchedule, Admit
<1>5. CASE StopAtTop
  BY <1>5, PopKeeps DEF StopAtTop
<1>6. CASE CallProvider
  <2> DEFINE r == [Current EXCEPT !.turn = @ + 1, !.at = "provider"]
  <2>1. Current \in Runs /\ RunOK(Current) /\ Depth > 0 /\ Update(r) /\ UNCHANGED executed
    BY <1>1, <1>6 DEF CallProvider
  <2>2. r \in Runs /\ r.policy = Current.policy /\ r.at = "provider"
    <3> DEFINE next == [Current EXCEPT !.turn = @ + 1]
    <3>1. next \in Runs /\ next.policy = Current.policy
      BY <2>1 DEF Runs
    <3>2. r = [next EXCEPT !.at = "provider"]
      OBVIOUS
    <3> HIDE DEF next, r
    <3> QED
      BY <3>1, <3>2 DEF Runs
  <2>3. DelegationInv'
    BY <2>1, <2>2, CurrentMoves DEF RunOK
  <2>4. /\ Len(runs') = Len(runs)
        /\ \A i \in 1..Len(runs) : i # Len(runs) => runs'[i] = runs[i]
    BY <1>0, <2>1, <2>2 DEF Update, StackOK, Depth
  <2>5. /\ Current.turn < Current.policy.turns
        /\ Current.policy.deadline # Unset => clock < Current.policy.deadline
        /\ Current.turn > 0 => Current.spent < Current.policy.budget
    <3>1. Current.turn < Current.policy.turns /\ ~Expired(Current) /\ Current.at = "top"
      BY <1>6 DEF CallProvider
    <3>2. /\ Current.policy.deadline \in Option(Nat)
          /\ Current.policy.deadline # Unset => ~(clock >= Current.policy.deadline)
      BY <1>1, <2>1, <3>1 DEF Expired, Policies
    <3>3. Current.policy.deadline # Unset => clock < Current.policy.deadline
      BY <1>0, <3>2 DEF Option
    <3>4. Current.turn > 0 => Current.spent < Current.policy.budget
      BY <2>1, <3>1 DEF RunOK, Runs
    <3> QED
      BY <3>1, <3>3, <3>4
  <2>6. CallsWithinLimits
    <3> SUFFICES ASSUME NEW i \in 1..Len(runs), runs'[i].turn = runs[i].turn + 1
                 PROVE  /\ runs[i].turn < runs[i].policy.turns
                        /\ runs[i].policy.deadline # Unset => clock < runs[i].policy.deadline
                        /\ runs[i].turn > 0 => runs[i].spent < runs[i].policy.budget
      BY DEF CallsWithinLimits
    <3>1. runs[i] \in Runs
      BY <1>0 DEF StackOK
    <3>2. i = Len(runs)
      BY <2>4, <3>1 DEF Runs
    <3> QED
      BY <2>5, <3>2 DEF Current, Depth
  <2> QED
    BY <2>3, <2>6
<1>7. ASSUME NEW cost \in RunCosts, SettleReply(cost) PROVE Goal
  <2> DEFINE paid == [Current EXCEPT !.spent = @ + cost]
  <2>1. CASE Pop
    BY <1>7, <2>1, PopKeeps DEF SettleReply
  <2>2. CASE /\ ~Exhausted(paid) /\ UNCHANGED executed
             /\ \E tool \in RunTools : Update([paid EXCEPT !.at = "tool", !.call = tool])
    <3>1. PICK tool \in RunTools : Update([paid EXCEPT !.at = "tool", !.call = tool])
      BY <2>2
    <3> DEFINE r == [paid EXCEPT !.at = "tool", !.call = tool]
    <3>2. Current \in Runs /\ Depth > 0 /\ cost \in Nat
      BY <1>1, <1>7, DelegationBounds DEF SettleReply
    <3>3. paid \in Runs /\ paid.policy = Current.policy /\ paid.turn = Current.turn
      BY <3>2 DEF Runs
    <3>4. paid.spent < paid.policy.budget
      BY <2>2, <3>3 DEF Exhausted, Runs, Policies
    <3> HIDE DEF paid
    <3>5. /\ r \in Runs /\ r.policy = Current.policy /\ r.turn = Current.turn
          /\ r.at = "tool" /\ r.spent = paid.spent
      BY <3>3 DEF Runs
    <3>6. RunOK(r)
      BY <3>3, <3>4, <3>5 DEF RunOK
    <3> QED
      BY <2>2, <3>1, <3>2, <3>5, <3>6, CurrentMoves
  <2> QED
    BY <1>7, <2>1, <2>2 DEF SettleReply
<1>8. ASSUME Depth > 0, Current.at = "tool"
      PROVE  LET r == [Current EXCEPT !.at = "top"] IN
             /\ r \in Runs /\ r.policy = Current.policy /\ r.turn = Current.turn
             /\ r.at = "top" /\ RunOK(r)
  <2> DEFINE r == [Current EXCEPT !.at = "top"]
  <2>1. Current \in Runs /\ RunOK(Current)
    BY <1>1, <1>8
  <2>2. /\ r \in Runs /\ r.policy = Current.policy /\ r.turn = Current.turn
        /\ r.at = "top" /\ r.spent = Current.spent
    BY <2>1 DEF Runs
  <2>3. Current.spent < Current.policy.budget
    BY <1>8, <2>1 DEF RunOK
  <2> QED
    BY <2>2, <2>3 DEF RunOK
<1>9. CASE ToolRefused
  BY <1>8, <1>9, CurrentMoves DEF ToolRefused
<1>10. CASE ExecuteTool
  <2> DEFINE r == [Current EXCEPT !.at = "top"]
             e == [tool |-> Current.call, asked |-> AskedFor(Current)]
  <2>1. /\ Depth > 0 /\ r \in Runs /\ r.policy = Current.policy /\ r.turn = Current.turn
        /\ r.at = "top" /\ RunOK(r)
    BY <1>8, <1>10 DEF ExecuteTool
  <2>2. runs' = [runs EXCEPT ![Len(runs)] = r] /\ Len(runs) > 0 /\ UNCHANGED <<layers, asks, clock>>
    BY <1>10, <2>1 DEF ExecuteTool, Update, Depth
  <2>3. /\ StackOK(runs') /\ Len(runs') = Len(runs) /\ SamePolicies(runs, runs')
        /\ runs'[Len(runs)] = r /\ \A i \in 1..Len(runs) : i # Len(runs) => runs'[i] = runs[i]
    <3> HIDE DEF r
    <3> QED
      BY <1>0, <2>1, <2>2, TopMoves DEF Current, Depth
  <2>4. SameTurns(runs, runs')
    BY <2>1, <2>3 DEF SameTurns, Current, Depth
  <2>5. CallsWithinLimits
    BY <1>0, <2>3, <2>4, NoCalls
  <2>6. runs'[1].policy = runs[1].policy /\ 1 \in 1..Len(runs)
    BY <1>0, <2>2, <2>3 DEF SamePolicies, Depth
  <2>7. RootWithinLayers'
    BY <2>2, <2>3, <2>6, RootWithin DEF DelegationInv, Depth
  <2>8. /\ runs[1].policy.disallowed \subseteq Current.policy.disallowed
        /\ Current.policy.auto \subseteq runs[1].policy.auto
    <3>1. CASE Len(runs) = 1
      BY <3>1 DEF Current, Depth
    <3>2. CASE Len(runs) # 1
      <4>1. 1 < Len(runs) /\ Len(runs) \in 1..Len(runs)
        <5>1. Len(runs) \in Nat
          BY <1>0 DEF Depth
        <5>2. Len(runs) > 0
          BY <2>2
        <5>3. \A n \in Nat : n > 0 /\ n # 1 => 1 < n /\ n \in 1..n
          OBVIOUS
        <5> QED
          BY <3>2, <5>1, <5>2, <5>3
      <4> QED
        BY <1>0, <2>6, <4>1 DEF StackOK, AsStrictAs, Current, Depth
    <3> QED
      BY <3>1, <3>2
  <2>9. /\ e.tool \notin runs[1].policy.disallowed
        /\ asks /\ ~e.asked => e.tool \in runs[1].policy.auto
    BY <1>10, <2>8 DEF ExecuteTool, Permitted, AskedFor
  <2>10. executed' = executed \cup {e}
    BY <1>10 DEF ExecuteTool
  <2> HIDE DEF e
  <2>11. ToolsWithinRootPolicy'
    BY <2>2, <2>3, <2>6, <2>9, <2>10 DEF DelegationInv, ToolsWithinRootPolicy, Depth
  <2> QED
    BY <1>0, <2>2, <2>3, <2>5, <2>7, <2>11 DEF DelegationInv
<1>11. ASSUME NEW a \in AgentLayers, NEW q \in Requests, DelegateRun(a, q) PROVE Goal
  <2> DEFINE p == NarrowChildPolicy(Current.policy, a, q, clock)
             r == NewRun(p)
  <2>1. p \in Policies /\ AsStrictAs(p, Current.policy)
    BY <1>0, <1>1, <1>11, ChildIsAsStrict DEF DelegateRun
  <2>2. r \in Runs /\ r.policy = p /\ r.at = "top" /\ r.turn = 0
    BY <2>1, NewRunType
  <2>3. runs' = Append([runs EXCEPT ![Len(runs)].at = "delegated"], r)
    BY <1>11 DEF DelegateRun, Depth
  <2> HIDE DEF r
  <2>4. StackOK(runs') /\ SamePolicies(runs, runs') /\ SameTurns(runs, runs')
    BY <1>0, <1>11, <2>1, <2>2, <2>3, StackGrows DEF DelegateRun, Current, Depth
  <2> QED
    BY <1>0, <1>11, <2>4, RootKept, NoCalls DEF DelegateRun, Depth
<1>12. ASSUME NEW i \in 1..Depth, TimeOutDelegate(i) PROVE Goal
  <2>1. StackOK(runs') /\ SamePolicies(runs, runs') /\ SameTurns(runs, runs')
    BY <1>0, <1>12, StackShrinks DEF TimeOutDelegate, Depth
  <2>2. Len(runs) > 0
    BY <1>0, <1>12 DEF Depth
  <2> QED
    BY <1>0, <1>12, <2>1, <2>2, RootKept, NoCalls DEF TimeOutDelegate
<1>13. CASE CancelRuns
  <2>1. Len(runs') = 0 /\ SamePolicies(runs, runs') /\ SameTurns(runs, runs') /\ StackOK(runs')
    BY <1>13, StackStarts DEF CancelRuns, SamePolicies, SameTurns
  <2> QED
    BY <1>0, <1>13, <2>1, RootKept, NoCalls DEF CancelRuns
<1>14. CASE PassSecond
  <2>1. SamePolicies(runs, runs') /\ SameTurns(runs, runs') /\ StackOK(runs') /\ clock' \in Nat
    BY <1>0, <1>14 DEF PassSecond, SamePolicies, SameTurns
  <2>2. RootWithinLayers' /\ ToolsWithinRootPolicy'
    BY <1>14 DEF PassSecond, DelegationInv, RootWithinLayers, ToolsWithinRootPolicy, Depth
  <2> QED
    BY <1>0, <1>14, <2>1, <2>2, NoCalls DEF PassSecond, DelegationInv
<1> QED
  BY <1>3, <1>4, <1>5, <1>6, <1>7, <1>9, <1>10, <1>11, <1>12, <1>13, <1>14
  DEF DelegationNext, RunsStep

\* A tree of runs stays within the policy its root was given, and that within
\* every layer it was merged from, for any configuration, any agents on the
\* way down, any interleaving of timeouts and cancellations: no tool the root
\* may not use is executed, no run outlives its deadline, turns or budget, and
\* the tree is never deeper than MAX_DELEGATION_DEPTH allows.
THEOREM DelegationIsConfined == DelegationSpec => DelegationConfined
<1>1. DelegationInit => DelegationInv
  <2> SUFFICES ASSUME DelegationInit PROVE DelegationInv
    OBVIOUS
  <2>1. runs = <<>> /\ asks \in BOOLEAN /\ clock \in Nat
    BY DEF DelegationInit
  <2>2. StackOK(runs)
    BY <2>1, StackStarts
  <2>3. ~(Depth > 0)
    BY <2>1 DEF Depth
  <2> QED
    BY <2>1, <2>2, <2>3 DEF DelegationInv, ToolsWithinRootPolicy, RootWithinLayers
<1>2. DelegationInv /\ [DelegationNext]_delegationVars => DelegationInv'
  <2>1. DelegationInv /\ UNCHANGED delegationVars => DelegationInv'
    BY DEF delegationVars, DelegationInv, ToolsWithinRootPolicy, RootWithinLayers, Depth
  <2> QED
    BY <2>1, DelegationStep
<1>3. DelegationInv /\ [DelegationNext]_delegationVars => [CallsWithinLimits]_delegationVars
  BY DelegationStep
<1>4. DelegationInv => /\ DelegationNarrows /\ DelegationDepthBounded
                       /\ ToolsWithinRootPolicy /\ RootWithinLayers
  BY DEF DelegationInv, StackOK, DelegationNarrows, DelegationDepthBounded, Depth
<1>5. [CallsWithinLimits]_delegationVars <=>
        [\A i \in 1..Len(runs) :
         (i <= Len(runs') /\ runs'[i].turn = runs[i].turn + 1) =>
            /\ runs[i].turn < runs[i].policy.turns
            /\ runs[i].policy.deadline # Unset => clock < runs[i].policy.deadline
            /\ runs[i].turn > 0 => runs[i].spent < runs[i].policy.budget]_delegationVars
  BY DEF CallsWithinLimits
<1> QED
  BY <1>1, <1>2, <1>3, <1>4, <1>5, PTL
  DEF DelegationSpec, DelegationConfined, ProviderCallsWithinLimits

-----------------------------------------------------------------------------
(* TurnStream: what a channel holds of a kind of items.                     *)

LEMMA NumbersAppended ==
    ASSUME NEW s \in Seq(StreamItems), NEW x \in StreamItems, NEW k
    PROVE  /\ Append(s, x) \in Seq(StreamItems)
           /\ x.kind = k => Numbers(k, Append(s, x)) = Numbers(k, s) \cup {x.nr}
           /\ x.kind # k => Numbers(k, Append(s, x)) = Numbers(k, s)
<1>1. /\ Append(s, x) \in Seq(StreamItems) /\ DOMAIN s = 1..Len(s) /\ Len(s) \in Nat
      /\ DOMAIN Append(s, x) = 1..(Len(s) + 1)
      /\ Append(s, x)[Len(s) + 1] = x
      /\ \A i \in 1..Len(s) : Append(s, x)[i] = s[i]
  OBVIOUS
<1>2. ASSUME NEW n \in Numbers(k, Append(s, x))
      PROVE  n \in Numbers(k, s) \cup (IF x.kind = k THEN {x.nr} ELSE {})
  <2>1. PICK i \in DOMAIN Append(s, x) : Append(s, x)[i].kind = k /\ n = Append(s, x)[i].nr
    BY DEF Numbers
  <2>2. CASE i = Len(s) + 1
    BY <1>1, <2>1, <2>2
  <2>3. CASE i \in 1..Len(s)
    BY <1>1, <2>1, <2>3 DEF Numbers
  <2> QED
    BY <1>1, <2>1, <2>2, <2>3
<1>3. ASSUME NEW n \in Numbers(k, s)
      PROVE  n \in Numbers(k, Append(s, x))
  <2>1. PICK i \in DOMAIN s : s[i].kind = k /\ n = s[i].nr
    BY DEF Numbers
  <2>2. i \in DOMAIN Append(s, x) /\ Append(s, x)[i] = s[i]
    BY <1>1
  <2> QED
    BY <2>1, <2>2 DEF Numbers
<1>4. x.kind = k => x.nr \in Numbers(k, Append(s, x))
  <2>1. Len(s) + 1 \in DOMAIN Append(s, x)
    BY <1>1
  <2> QED
    BY <2>1, <1>1 DEF Numbers
<1> QED
  BY <1>1, <1>2, <1>3, <1>4

LEMMA NumbersOfTail ==
    ASSUME NEW s \in Seq(StreamItems), s # <<>>, NEW k
    PROVE  /\ Head(s) \in StreamItems /\ Tail(s) \in Seq(StreamItems)
           /\ Head(s).kind = k => Numbers(k, s) = {Head(s).nr} \cup Numbers(k, Tail(s))
           /\ Head(s).kind # k => Numbers(k, s) = Numbers(k, Tail(s))
<1>1. /\ Head(s) \in StreamItems /\ Tail(s) \in Seq(StreamItems)
      /\ Head(s) = s[1] /\ Len(s) \in Nat \ {0} /\ DOMAIN s = 1..Len(s)
      /\ DOMAIN Tail(s) = 1..(Len(s) - 1)
      /\ \A i \in 1..(Len(s) - 1) : Tail(s)[i] = s[i + 1]
  OBVIOUS
<1>2. ASSUME NEW n \in Numbers(k, s)
      PROVE  n \in (IF Head(s).kind = k THEN {Head(s).nr} ELSE {}) \cup Numbers(k, Tail(s))
  <2>1. PICK i \in DOMAIN s : s[i].kind = k /\ n = s[i].nr
    BY DEF Numbers
  <2>2. CASE i = 1
    BY <1>1, <2>1, <2>2
  <2>3. CASE i # 1
    <3>1. i - 1 \in DOMAIN Tail(s) /\ Tail(s)[i - 1] = s[i]
      BY <1>1, <2>3
    <3> QED
      BY <2>1, <3>1 DEF Numbers
  <2> QED
    BY <2>2, <2>3
<1>3. ASSUME NEW n \in Numbers(k, Tail(s))
      PROVE  n \in Numbers(k, s)
  <2>1. PICK i \in DOMAIN Tail(s) : Tail(s)[i].kind = k /\ n = Tail(s)[i].nr
    BY DEF Numbers
  <2>2. i + 1 \in DOMAIN s /\ Tail(s)[i] = s[i + 1]
    BY <1>1
  <2> QED
    BY <2>1, <2>2 DEF Numbers
<1>4. Head(s).kind = k => Head(s).nr \in Numbers(k, s)
  <2>1. 1 \in DOMAIN s
    BY <1>1
  <2> QED
    BY <2>1, <1>1 DEF Numbers
<1> QED
  BY <1>1, <1>2, <1>3, <1>4

LEMMA NumbersAreNat ==
    ASSUME NEW s \in Seq(StreamItems), NEW k
    PROVE  Numbers(k, s) \subseteq 1..MaxItems /\ Numbers(k, s) \subseteq Nat
<1>1. ASSUME NEW n \in Numbers(k, s) PROVE n \in 1..MaxItems
  <2>1. PICK i \in DOMAIN s : n = s[i].nr
    BY DEF Numbers
  <2>2. s[i] \in StreamItems
    BY <2>1
  <2> QED
    BY <2>1, <2>2 DEF StreamItems
<1> QED
  BY <1>1, MaxItemsType

LEMMA NoNumbers ==
    ASSUME NEW k
    PROVE  Numbers(k, <<>>) = {} /\ InOrder(k, <<>>) /\ <<>> \in Seq(StreamItems)
BY DEF Numbers, InOrder

\* An item that comes last is appended in order.
LEMMA OrderAppended ==
    ASSUME NEW s \in Seq(StreamItems), NEW x \in StreamItems, NEW k, InOrder(k, s),
           x.kind = k => Precede(Numbers(k, s), {x.nr})
    PROVE  InOrder(k, Append(s, x))
<1>1. /\ DOMAIN s = 1..Len(s) /\ Len(s) \in Nat
      /\ DOMAIN Append(s, x) = 1..(Len(s) + 1)
      /\ Append(s, x)[Len(s) + 1] = x
      /\ \A i \in 1..Len(s) : Append(s, x)[i] = s[i]
  OBVIOUS
<1>2. SUFFICES ASSUME NEW i \in DOMAIN Append(s, x), NEW j \in DOMAIN Append(s, x), i < j,
                      Append(s, x)[i].kind = k, Append(s, x)[j].kind = k
               PROVE  Append(s, x)[i].nr < Append(s, x)[j].nr
  BY DEF InOrder
<1>3. i \in DOMAIN s /\ Append(s, x)[i] = s[i]
  BY <1>1, <1>2
<1>4. CASE j \in DOMAIN s
  BY <1>1, <1>2, <1>3, <1>4 DEF InOrder
<1>5. CASE j = Len(s) + 1
  <2>1. s[i].nr \in Numbers(k, s)
    BY <1>2, <1>3 DEF Numbers
  <2> QED
    BY <1>1, <1>2, <1>3, <1>5, <2>1 DEF Precede
<1> QED
  BY <1>1, <1>4, <1>5

\* The head of a channel comes before the rest.
LEMMA OrderOfTail ==
    ASSUME NEW s \in Seq(StreamItems), s # <<>>, NEW k, InOrder(k, s)
    PROVE  /\ InOrder(k, Tail(s))
           /\ Head(s).kind = k => Precede({Head(s).nr}, Numbers(k, Tail(s)))
<1>1. /\ Head(s) = s[1] /\ Len(s) \in Nat \ {0} /\ DOMAIN s = 1..Len(s)
      /\ DOMAIN Tail(s) = 1..(Len(s) - 1)
      /\ \A i \in 1..(Len(s) - 1) : Tail(s)[i] = s[i + 1]
  OBVIOUS
<1>2. ASSUME NEW i \in DOMAIN Tail(s), NEW j \in DOMAIN Tail(s), i < j,
             Tail(s)[i].kind = k, Tail(s)[j].kind = k
      PROVE  Tail(s)[i].nr < Tail(s)[j].nr
  BY <1>1, <1>2 DEF InOrder
<1>3. ASSUME Head(s).kind = k, NEW n \in Numbers(k, Tail(s)) PROVE Head(s).nr < n
  <2>1. PICK i \in DOMAIN Tail(s) : Tail(s)[i].kind = k /\ n = Tail(s)[i].nr
    BY DEF Numbers
  <2>2. i + 1 \in DOMAIN s /\ 1 \in DOMAIN s /\ 1 < i + 1 /\ Tail(s)[i] = s[i + 1]
    BY <1>1
  <2> QED
    BY <1>1, <1>3, <2>1, <2>2 DEF InOrder
<1>4. InOrder(k, Tail(s))
  BY <1>2 DEF InOrder
<1> QED
  BY <1>3, <1>4 DEF Precede

\* The channels one after the other, as sets of numbers: an item is sent.
LEMMA LineGrows ==
    ASSUME NEW k, NEW out, NEW d, NEW e, NEW w, NEW sent, sent \subseteq Nat, NEW x \in Nat,
           Lined(k, out, d, e, w, sent, TRUE), Precede(sent, {x})
    PROVE  /\ Scrubbing /\ k = "media" => Lined(k, out, d, e, w \cup {x}, sent \cup {x}, TRUE)
           /\ ~(Scrubbing /\ k = "media") => Lined(k, out, d, e \cup {x}, w, sent \cup {x}, TRUE)
BY DEF Lined, Precede

\* ... leaves the scrubbing task,
LEMMA LineScrubs ==
    ASSUME NEW k, NEW out, NEW d, NEW e, NEW w, NEW sent, NEW h,
           Lined(k, out, d, e, {h} \cup w, sent, TRUE), Precede({h}, w)
    PROVE  Lined(k, out, d, e \cup {h}, w, sent, TRUE)
BY DEF Lined, Precede

\* ... is lost with the scrubbing task,
LEMMA LineLosesScrubbed ==
    ASSUME NEW k, NEW out, NEW d, NEW e, NEW w, NEW sent,
           Lined(k, out, d, e, w, sent, FALSE)
    PROVE  Lined(k, out, d, e, {}, sent, FALSE)
BY DEF Lined, Precede

\* ... is forwarded,
LEMMA LineForwards ==
    ASSUME NEW k, NEW out, NEW d, NEW e, NEW w, NEW sent, NEW h,
           Lined(k, out, d, {h} \cup e, w, sent, TRUE), Precede({h}, e)
    PROVE  Lined(k, out, d \cup {h}, e, w, sent, TRUE)
BY DEF Lined, Precede

\* ... is drained, when it is a medium,
LEMMA LineDrains ==
    ASSUME NEW out, NEW d, NEW e, NEW w, NEW sent, NEW h,
           Lined("media", out, d, {h} \cup e, w, sent, FALSE), Precede({h}, e)
    PROVE  Lined("media", out, d \cup {h}, e, w, sent, FALSE)
<1>1. out \cup (d \cup {h}) \cup e = out \cup d \cup ({h} \cup e)
  OBVIOUS
<1> QED
  BY <1>1 DEF Lined, Precede

\* ... or dropped,
LEMMA LineDrops ==
    ASSUME NEW k, k # "media", NEW out, NEW d, NEW e, NEW w, NEW sent, NEW f, f \subseteq e,
           Lined(k, out, d, e, w, sent, FALSE)
    PROVE  Lined(k, out, d, f, w, sent, FALSE)
BY DEF Lined, Precede

\* ... and comes out.
LEMMA LineComesOut ==
    ASSUME NEW k, NEW out, NEW d, NEW e, NEW w, NEW sent, NEW h, NEW fwd \in BOOLEAN,
           Lined(k, out, {h} \cup d, e, w, sent, fwd), Precede({h}, d)
    PROVE  Lined(k, out \cup {h}, d, e, w, sent, fwd)
<1> DEFINE m == IF k = "media" THEN e ELSE {}
<1>1. (out \cup {h}) \cup d \cup m = out \cup ({h} \cup d) \cup m
  OBVIOUS
<1>2. fwd = TRUE \/ fwd = FALSE
  OBVIOUS
<1> QED
  BY <1>1, <1>2 DEF Lined, Precede

\* When the loop is left, what is behind it is behind all that comes out.
LEMMA LineCloses ==
    ASSUME NEW k, NEW out, NEW d, NEW e, NEW w, NEW sent, sent \subseteq Nat,
           Lined(k, out, d, e, w, sent, TRUE)
    PROVE  Lined(k, out, d, e, w, sent, FALSE)
<1> DEFINE A == out \cup d \cup (IF k = "media" THEN e ELSE {})
<1>1. A \subseteq sent
  BY DEF Lined
<1>2. ASSUME NEW m \in A, NEW n \in sent, n <= m, n \notin A PROVE FALSE
  <2>1. m < n
    BY <1>2 DEF Lined, Precede
  <2>2. m \in Nat /\ n \in Nat
    BY <1>1
  <2> QED
    BY <1>2, <2>1, <2>2
<1>3. FirstOf(A, sent)
  BY <1>1, <1>2 DEF FirstOf
<1> QED
  BY <1>3 DEF Lined

\* What is out is what was sent first.
LEMMA LineGivesFirst ==
    ASSUME NEW k, NEW out, NEW d, NEW e, NEW w, NEW sent, sent \subseteq Nat,
           NEW fwd \in BOOLEAN, Lined(k, out, d, e, w, sent, fwd)
    PROVE  FirstOf(out, sent)
<1> DEFINE A == out \cup d \cup (IF k = "media" THEN e ELSE {})
<1>1. Lined(k, out, d, e, w, sent, FALSE)
  BY LineCloses
<1>2. FirstOf(A, sent) /\ out \subseteq sent
  BY <1>1 DEF Lined
<1>3. ASSUME NEW m \in out, NEW n \in sent, n <= m, n \notin out PROVE FALSE
  <2>1. n \in A
    BY <1>2, <1>3 DEF FirstOf
  <2>2. m < n
    BY <2>1, <1>1, <1>3 DEF Lined, Precede
  <2>3. m \in Nat /\ n \in Nat
    BY <1>2
  <2> QED
    BY <1>3, <2>2, <2>3
<1> QED
  BY <1>2, <1>3 DEF FirstOf

-----------------------------------------------------------------------------
(* TurnStream: the steps up to run_turn's return.                           *)

\* The types, one by one.
LEMMA FlowTypes ==
    ASSUME FlowBasics
    PROVE  /\ sentItems \in Seq(StreamItems) /\ scrub \in Seq(StreamItems)
           /\ stream \in Seq(StreamItems) /\ delta \in Seq(StreamItems)
           /\ published \in Seq(StreamItems) /\ Len(sentItems) \in Nat
           /\ runner \in {"forwarding", "draining", "returned"}
           /\ runtime \in {"running", "ready"} /\ gateway \in {"publishing", "ended"}
           /\ runner # "forwarding" => runtime = "ready"
BY DEF FlowBasics, FlowTypeOK

\* The next item has a number of its own, the highest.
LEMMA NextNumber ==
    ASSUME FlowBasics, NEW k, Len(sentItems) < MaxItems, NEW kind \in ItemKinds
    PROVE  /\ Precede(Numbers(k, sentItems), {Len(sentItems) + 1})
           /\ [kind |-> kind, nr |-> Len(sentItems) + 1] \in StreamItems
<1>1. sentItems \in Seq(StreamItems) /\ Len(sentItems) \in Nat
  BY FlowTypes
<1>2. ASSUME NEW n \in Numbers(k, sentItems) PROVE n < Len(sentItems) + 1
  <2>1. PICK i \in DOMAIN sentItems : n = sentItems[i].nr
    BY DEF Numbers
  <2>2. n = i /\ i \in 1..Len(sentItems)
    BY <1>1, <2>1 DEF FlowBasics
  <2> QED
    BY <1>1, <2>2
<1> QED
  BY <1>1, <1>2, MaxItemsType DEF Precede, StreamItems

\* Sending an item keeps the channels in line.
LEMMA SendKeepsLine ==
    ASSUME FlowBasics, NEW k, NEW out, NEW kind \in ItemKinds, SendItem(kind),
           InLine(k, out, delta, stream, scrub, sentItems, runner)
    PROVE  InLine(k, out, delta', stream', scrub', sentItems', runner')
<1> DEFINE x == [kind |-> kind, nr |-> Len(sentItems) + 1]
<1>1. x \in StreamItems /\ x.kind = kind /\ x.nr = Len(sentItems) + 1 /\ x.nr \in Nat
      /\ Precede(Numbers(k, sentItems), {x.nr})
  <2>1. Len(sentItems) < MaxItems /\ Len(sentItems) \in Nat
    BY FlowTypes DEF SendItem
  <2>2. x \in StreamItems /\ Precede(Numbers(k, sentItems), {Len(sentItems) + 1})
    BY <2>1, NextNumber
  <2>3. x.kind = kind /\ x.nr = Len(sentItems) + 1
    OBVIOUS
  <2> QED
    BY <2>1, <2>2, <2>3
<1>2. /\ sentItems' = Append(sentItems, x) /\ delta' = delta /\ runner' = runner
      /\ runner = "forwarding"
      /\ IF Scrubbing /\ kind = "media"
         THEN scrub' = Append(scrub, x) /\ stream' = stream
         ELSE stream' = Append(stream, x) /\ scrub' = scrub
  BY FlowTypes DEF SendItem
<1> HIDE DEF x
<1>3. /\ sentItems \in Seq(StreamItems) /\ scrub \in Seq(StreamItems)
      /\ stream \in Seq(StreamItems)
  BY FlowTypes
<1>4. Lined(k, out, Numbers(k, delta), Numbers(k, stream), Numbers(k, scrub),
            Numbers(k, sentItems), TRUE)
  BY <1>2 DEF InLine
<1>5. /\ Numbers(k, sentItems) \subseteq Nat
      /\ Numbers(k, stream) \subseteq Numbers(k, sentItems)
      /\ Numbers(k, scrub) \subseteq Numbers(k, sentItems)
  BY <1>3, <1>4, NumbersAreNat DEF Lined
<1>6. /\ Precede(Numbers(k, stream), {x.nr}) /\ Precede(Numbers(k, scrub), {x.nr})
  BY <1>1, <1>5 DEF Precede
<1>7. /\ InOrder(k, Append(stream, x)) /\ InOrder(k, Append(scrub, x))
  BY <1>1, <1>3, <1>6, OrderAppended DEF InLine
<1>8. InOrder(k, delta') /\ InOrder(k, stream') /\ InOrder(k, scrub')
  BY <1>2, <1>7 DEF InLine
<1>9. Lined(k, out, Numbers(k, delta'), Numbers(k, stream'), Numbers(k, scrub'),
            Numbers(k, sentItems'), TRUE)
  <2>1. CASE kind # k
    <3>1. /\ Numbers(k, Append(sentItems, x)) = Numbers(k, sentItems)
          /\ Numbers(k, Append(stream, x)) = Numbers(k, stream)
          /\ Numbers(k, Append(scrub, x)) = Numbers(k, scrub)
      BY <1>1, <1>3, <2>1, NumbersAppended
    <3>2. /\ Numbers(k, sentItems') = Numbers(k, sentItems)
          /\ Numbers(k, stream') = Numbers(k, stream)
          /\ Numbers(k, scrub') = Numbers(k, scrub)
          /\ Numbers(k, delta') = Numbers(k, delta)
      BY <1>2, <3>1
    <3> QED
      BY <1>4, <3>2
  <2>2. CASE kind = k
    <3>1. /\ Numbers(k, Append(sentItems, x)) = Numbers(k, sentItems) \cup {x.nr}
          /\ Numbers(k, Append(stream, x)) = Numbers(k, stream) \cup {x.nr}
          /\ Numbers(k, Append(scrub, x)) = Numbers(k, scrub) \cup {x.nr}
      <4>1. x \in StreamItems /\ x.kind = k
        BY <1>1, <2>2
      <4> QED
        BY <1>3, <4>1, NumbersAppended
    <3>2. CASE Scrubbing /\ k = "media"
      <4>1. Lined(k, out, Numbers(k, delta), Numbers(k, stream), Numbers(k, scrub) \cup {x.nr},
                  Numbers(k, sentItems) \cup {x.nr}, TRUE)
        BY <1>1, <1>4, <1>5, <3>2, LineGrows
      <4> QED
        BY <1>2, <2>2, <3>1, <3>2, <4>1
    <3>3. CASE ~(Scrubbing /\ k = "media")
      <4>1. Lined(k, out, Numbers(k, delta), Numbers(k, stream) \cup {x.nr}, Numbers(k, scrub),
                  Numbers(k, sentItems) \cup {x.nr}, TRUE)
        BY <1>1, <1>4, <1>5, <3>3, LineGrows
      <4> QED
        BY <1>2, <2>2, <3>1, <3>3, <4>1
    <3> QED
      BY <3>2, <3>3
  <2> QED
    BY <2>1, <2>2
<1>10. (runner' = "forwarding") = TRUE
  BY <1>2
<1> QED
  BY <1>8, <1>9, <1>10 DEF InLine

\* What the scrubbing task does keeps the channels in line.
LEMMA ScrubKeepsLine ==
    ASSUME FlowBasics, NEW k, NEW out, Scrub,
           InLine(k, out, delta, stream, scrub, sentItems, runner)
    PROVE  InLine(k, out, delta', stream', scrub', sentItems', runner')
<1>1. /\ scrub # <<>> /\ delta' = delta /\ sentItems' = sentItems /\ runner' = runner
      /\ scrub \in Seq(StreamItems) /\ stream \in Seq(StreamItems)
  BY FlowTypes DEF Scrub
<1> DEFINE h == Head(scrub)
           t == Tail(scrub)
<1>2. /\ h \in StreamItems /\ t \in Seq(StreamItems) /\ InOrder(k, t)
      /\ h.kind = k => Numbers(k, scrub) = {h.nr} \cup Numbers(k, t)
      /\ h.kind # k => Numbers(k, scrub) = Numbers(k, t)
      /\ h.kind = k => Precede({h.nr}, Numbers(k, t))
  BY <1>1, NumbersOfTail, OrderOfTail DEF InLine
<1>3. /\ h.kind = k => Numbers(k, Append(stream, h)) = Numbers(k, stream) \cup {h.nr}
      /\ h.kind # k => Numbers(k, Append(stream, h)) = Numbers(k, stream)
  BY <1>1, <1>2, NumbersAppended
<1>4. CASE runner = "forwarding"
  <2>1. scrub' = t /\ stream' = Append(stream, h)
    BY <1>4 DEF Scrub
  <2> HIDE DEF h, t
  <2>2. Lined(k, out, Numbers(k, delta), Numbers(k, stream), Numbers(k, scrub),
              Numbers(k, sentItems), TRUE)
    BY <1>4 DEF InLine
  <2>3. h.kind = k => Precede(Numbers(k, stream), {h.nr})
    BY <1>2, <2>2 DEF Lined, Precede
  <2>4. InOrder(k, Append(stream, h))
    BY <1>1, <1>2, <2>3, OrderAppended DEF InLine
  <2>5. Lined(k, out, Numbers(k, delta), Numbers(k, Append(stream, h)), Numbers(k, t),
              Numbers(k, sentItems), TRUE)
    <3>1. CASE h.kind = k
      <4>1. /\ Numbers(k, scrub) = {h.nr} \cup Numbers(k, t)
            /\ Numbers(k, Append(stream, h)) = Numbers(k, stream) \cup {h.nr}
        BY <1>2, <1>3, <3>1
      <4>3. Precede({h.nr}, Numbers(k, t))
        BY <1>2, <3>1
      <4>2. Lined(k, out, Numbers(k, delta), Numbers(k, stream), {h.nr} \cup Numbers(k, t),
              Numbers(k, sentItems), TRUE)
        BY <2>2, <4>1
      <4>4. Lined(k, out, Numbers(k, delta), Numbers(k, stream) \cup {h.nr}, Numbers(k, t),
                  Numbers(k, sentItems), TRUE)
        BY <4>2, <4>3, LineScrubs
      <4> QED
        BY <4>1, <4>4
    <3>2. CASE h.kind # k
      <4>1. /\ Numbers(k, scrub) = Numbers(k, t)
            /\ Numbers(k, Append(stream, h)) = Numbers(k, stream)
        BY <1>2, <1>3, <3>2
      <4> QED
        BY <2>2, <4>1
    <3> QED
      BY <3>1, <3>2
  <2>6. (runner' = "forwarding") = TRUE
    BY <1>1, <1>4
  <2> QED
    BY <1>1, <1>2, <2>1, <2>4, <2>5, <2>6 DEF InLine
<1>5. CASE runner # "forwarding"
  <2>1. scrub' = <<>> /\ stream' = stream
    BY <1>5 DEF Scrub
  <2>2. (runner = "forwarding") = FALSE /\ (runner' = "forwarding") = FALSE
    BY <1>1, <1>5
  <2>3. Lined(k, out, Numbers(k, delta), Numbers(k, stream), Numbers(k, scrub),
              Numbers(k, sentItems), FALSE)
    BY <2>2 DEF InLine
  <2>4. Lined(k, out, Numbers(k, delta), Numbers(k, stream), {}, Numbers(k, sentItems), FALSE)
    BY <2>3, LineLosesScrubbed
  <2> QED
    BY <1>1, <2>1, <2>2, <2>4, NoNumbers DEF InLine
<1> QED
  BY <1>4, <1>5

\* Taking an item from the stream, forwarding or draining, keeps the channels
\* in line.
LEMMA TakeKeepsLine ==
    ASSUME FlowBasics, NEW k \in {"text", "media"}, NEW out, Forward \/ DrainItem,
           InLine(k, out, delta, stream, scrub, sentItems, runner)
    PROVE  InLine(k, out, delta', stream', scrub', sentItems', runner')
<1> DEFINE h == Head(stream)
           t == Tail(stream)
           N(s) == Numbers(k, s)
<1>1. /\ stream # <<>> /\ stream' = t /\ scrub' = scrub /\ sentItems' = sentItems
      /\ runner' = runner /\ stream \in Seq(StreamItems) /\ delta \in Seq(StreamItems)
  BY FlowTypes DEF Forward, DrainItem
<1>2. /\ h \in StreamItems /\ t \in Seq(StreamItems) /\ InOrder(k, t)
      /\ h.kind = k => N(stream) = {h.nr} \cup N(t)
      /\ h.kind # k => N(stream) = N(t)
      /\ h.kind = k => Precede({h.nr}, N(t))
  BY <1>1, NumbersOfTail, OrderOfTail DEF InLine
<1>3. /\ h.kind = k => N(Append(delta, h)) = N(delta) \cup {h.nr}
      /\ h.kind # k => N(Append(delta, h)) = N(delta)
  BY <1>1, <1>2, NumbersAppended
<1>4. InOrder(k, Append(delta, h))
  <2>1. h.kind = k => Precede(N(delta), {h.nr})
    BY <1>2 DEF InLine, Lined, Precede
  <2> QED
    BY <1>1, <1>2, <2>1, OrderAppended DEF InLine
<1>5. \/ delta' = Append(delta, h)
      \/ h.kind # k /\ delta' = delta
      \/ DrainItem /\ k # "media" /\ delta' = delta
  BY DEF Forward, DrainItem
<1> HIDE DEF h, t
<1>6. InOrder(k, delta') /\ InOrder(k, stream') /\ InOrder(k, scrub')
  BY <1>1, <1>2, <1>4, <1>5 DEF InLine
<1>7. CASE h.kind # k
  <2>1. N(delta') = N(delta) /\ N(stream') = N(stream)
    BY <1>1, <1>2, <1>3, <1>5, <1>7
  <2> QED
    BY <1>1, <1>6, <2>1 DEF InLine
<1>8. CASE h.kind = k /\ Forward
  <2>1. /\ (runner = "forwarding") = TRUE /\ (runner' = "forwarding") = TRUE
        /\ delta' = Append(delta, h)
    BY <1>1, <1>5, <1>8 DEF Forward, DrainItem
  <2>2. Lined(k, out, N(delta), {h.nr} \cup N(t), N(scrub), N(sentItems), TRUE)
    BY <1>2, <1>8, <2>1 DEF InLine
  <2>3. Precede({h.nr}, N(t)) /\ N(delta') = N(delta) \cup {h.nr}
    BY <1>2, <1>3, <1>8, <2>1
  <2>4. Lined(k, out, N(delta) \cup {h.nr}, N(t), N(scrub), N(sentItems), TRUE)
    BY <2>2, <2>3, LineForwards
  <2> QED
    BY <1>1, <1>6, <2>1, <2>3, <2>4 DEF InLine
<1>9. CASE h.kind = k /\ DrainItem
  <2>1. /\ (runner = "forwarding") = FALSE /\ (runner' = "forwarding") = FALSE
        /\ delta' = IF k = "media" THEN Append(delta, h) ELSE delta
    BY <1>1, <1>9 DEF DrainItem, h
  <2>2. Lined(k, out, N(delta), {h.nr} \cup N(t), N(scrub), N(sentItems), FALSE)
    BY <1>2, <1>9, <2>1 DEF InLine
  <2>3. Precede({h.nr}, N(t)) /\ N(Append(delta, h)) = N(delta) \cup {h.nr}
    BY <1>2, <1>3, <1>9
  <2>4. CASE k = "media"
    <3>1. Lined("media", out, N(delta), {h.nr} \cup N(t), N(scrub), N(sentItems), FALSE)
      BY <2>2, <2>4
    <3>2. Lined("media", out, N(delta) \cup {h.nr}, N(t), N(scrub), N(sentItems), FALSE)
      BY <2>3, <3>1, LineDrains
    <3>3. N(delta') = N(delta) \cup {h.nr}
      BY <2>1, <2>3, <2>4
    <3> QED
      BY <1>1, <1>6, <2>1, <2>4, <3>2, <3>3 DEF InLine
  <2>5. CASE k # "media"
    <3>1. N(t) \subseteq {h.nr} \cup N(t)
      OBVIOUS
    <3>2. Lined(k, out, N(delta), N(t), N(scrub), N(sentItems), FALSE)
      BY <2>2, <2>5, <3>1, LineDrops
    <3>3. delta' = delta
      BY <2>1, <2>5
    <3> QED
      BY <1>1, <1>6, <2>1, <3>2, <3>3 DEF InLine
  <2> QED
    BY <2>4, <2>5
<1> QED
  BY <1>7, <1>8, <1>9

\* Leaving the loop keeps the channels in line.
LEMMA LeaveKeepsLine ==
    ASSUME FlowBasics, NEW k, NEW out, LeaveLoop \/ Drained,
           InLine(k, out, delta, stream, scrub, sentItems, runner)
    PROVE  InLine(k, out, delta', stream', scrub', sentItems', runner')
<1>1. /\ UNCHANGED <<sentItems, scrub, stream, delta>> /\ (runner' = "forwarding") = FALSE
  BY DEF LeaveLoop, Drained
<1>2. Numbers(k, sentItems) \subseteq Nat
  BY FlowTypes, NumbersAreNat
<1>3. Lined(k, out, Numbers(k, delta), Numbers(k, stream), Numbers(k, scrub),
            Numbers(k, sentItems), FALSE)
  <2>1. CASE runner = "forwarding"
    <3>1. Lined(k, out, Numbers(k, delta), Numbers(k, stream), Numbers(k, scrub),
                Numbers(k, sentItems), TRUE)
      BY <2>1 DEF InLine
    <3> QED
      BY <1>2, <3>1, LineCloses
  <2>2. CASE runner # "forwarding"
    BY <2>2 DEF InLine
  <2> QED
    BY <2>1, <2>2
<1> QED
  BY <1>1, <1>3 DEF InLine

\* An item comes out of delta.
LEMMA OutKeepsLine ==
    ASSUME FlowBasics, NEW k, NEW out, delta # <<>>, delta' = Tail(delta),
           UNCHANGED <<stream, scrub, sentItems, runner>>,
           InLine(k, out, delta, stream, scrub, sentItems, runner)
    PROVE  /\ Head(delta) \in StreamItems
           /\ Head(delta).kind = k =>
                /\ InLine(k, out \cup {Head(delta).nr}, delta', stream', scrub', sentItems', runner')
                /\ Precede(out, {Head(delta).nr})
           /\ Head(delta).kind # k =>
                InLine(k, out, delta', stream', scrub', sentItems', runner')
<1> DEFINE h == Head(delta)
           t == Tail(delta)
           N(s) == Numbers(k, s)
           fwd == runner = "forwarding"
<1>1. delta \in Seq(StreamItems)
  BY FlowTypes
<1>2. /\ h \in StreamItems /\ InOrder(k, t)
      /\ h.kind = k => N(delta) = {h.nr} \cup N(t)
      /\ h.kind # k => N(delta) = N(t)
      /\ h.kind = k => Precede({h.nr}, N(t))
  BY <1>1, NumbersOfTail, OrderOfTail DEF InLine
<1>3. /\ delta' = t /\ stream' = stream /\ scrub' = scrub /\ sentItems' = sentItems
      /\ runner' = runner
  OBVIOUS
<1>4. Lined(k, out, N(delta), N(stream), N(scrub), N(sentItems), fwd) /\ fwd \in BOOLEAN
  BY DEF InLine
<1> HIDE DEF h, t
<1>5. CASE h.kind = k
  <2>1. Lined(k, out, {h.nr} \cup N(t), N(stream), N(scrub), N(sentItems), fwd)
        /\ Precede({h.nr}, N(t))
    BY <1>2, <1>4, <1>5
  <2>2. Precede(out, {h.nr})
    BY <2>1 DEF Lined, Precede
  <2>3. Lined(k, out \cup {h.nr}, N(t), N(stream), N(scrub), N(sentItems), fwd)
    <3>1. CASE fwd
      <4>1. Lined(k, out, {h.nr} \cup N(t), N(stream), N(scrub), N(sentItems), TRUE)
        BY <2>1, <3>1
      <4>2. Lined(k, out \cup {h.nr}, N(t), N(stream), N(scrub), N(sentItems), TRUE)
        BY <2>1, <4>1, LineComesOut
      <4> QED
        BY <3>1, <4>2
    <3>2. CASE ~fwd
      <4>1. Lined(k, out, {h.nr} \cup N(t), N(stream), N(scrub), N(sentItems), FALSE)
        BY <2>1, <3>2
      <4>2. Lined(k, out \cup {h.nr}, N(t), N(stream), N(scrub), N(sentItems), FALSE)
        BY <2>1, <4>1, LineComesOut
      <4> QED
        BY <3>2, <4>2
    <3> QED
      BY <3>1, <3>2
  <2>4. InLine(k, out \cup {h.nr}, delta', stream', scrub', sentItems', runner')
    BY <1>2, <1>3, <2>3 DEF InLine
  <2> QED
    BY <1>2, <1>5, <2>2, <2>4 DEF h
<1>6. CASE h.kind # k
  <2>1. InLine(k, out, delta', stream', scrub', sentItems', runner')
    BY <1>2, <1>3, <1>4, <1>6 DEF InLine
  <2> QED
    BY <1>2, <1>6, <2>1 DEF h
<1> QED
  BY <1>5, <1>6

\* The steps up to run_turn's return, and their types.
LEMMA ItemsKeepLine ==
    ASSUME FlowBasics, NEW k \in {"text", "media"}, NEW out,
           SdkItems \/ RuntimeReturns,
           InLine(k, out, delta, stream, scrub, sentItems, runner)
    PROVE  InLine(k, out, delta', stream', scrub', sentItems', runner')
<1>1. ASSUME NEW kind \in ItemKinds, SendItem(kind)
      PROVE  InLine(k, out, delta', stream', scrub', sentItems', runner')
  BY <1>1, SendKeepsLine
<1>2. CASE Scrub
  BY <1>2, ScrubKeepsLine
<1>3. CASE Forward \/ DrainItem
  BY <1>3, TakeKeepsLine
<1>4. CASE LeaveLoop \/ Drained
  BY <1>4, LeaveKeepsLine
<1>5. CASE RuntimeReturns
  BY <1>5 DEF RuntimeReturns
<1> QED
  BY <1>1, <1>2, <1>3, <1>4, <1>5 DEF SdkItems, Drain

LEMMA ItemsKeepBasics ==
    ASSUME FlowBasics, SdkItems \/ RuntimeReturns
    PROVE  FlowBasics' /\ UNCHANGED <<published, gateway>>
<1>1. ASSUME NEW kind \in ItemKinds, SendItem(kind) PROVE FlowBasics'
  <2> DEFINE x == [kind |-> kind, nr |-> Len(sentItems) + 1]
  <2>1. x \in StreamItems /\ Len(sentItems) \in Nat
    BY <1>1, NextNumber, FlowTypes DEF SendItem
  <2>2. /\ sentItems' = Append(sentItems, x) /\ x.nr = Len(sentItems) + 1
        /\ scrub' \in {scrub, Append(scrub, x)} /\ stream' \in {stream, Append(stream, x)}
        /\ UNCHANGED <<delta, runtime, runner, gateway, published>>
    BY <1>1 DEF SendItem
  <2> HIDE DEF x
  <2>3. /\ sentItems' \in Seq(StreamItems) /\ scrub' \in Seq(StreamItems)
        /\ stream' \in Seq(StreamItems)
    BY <2>1, <2>2, FlowTypes, NumbersAppended
  <2>4. \A i \in DOMAIN sentItems' : sentItems'[i].nr = i
    BY <2>1, <2>2, FlowTypes DEF FlowBasics
  <2> QED
    BY <2>2, <2>3, <2>4, FlowTypes DEF FlowBasics, FlowTypeOK
<1>2. CASE Scrub
  <2>1. Head(scrub) \in StreamItems /\ Tail(scrub) \in Seq(StreamItems)
    BY <1>2, FlowTypes, NumbersOfTail DEF Scrub
  <2>2. stream' \in Seq(StreamItems) /\ scrub' \in Seq(StreamItems)
    BY <1>2, <2>1, FlowTypes, NumbersAppended, NoNumbers DEF Scrub
  <2> QED
    BY <1>2, <2>2, FlowTypes DEF Scrub, FlowBasics, FlowTypeOK
<1>3. CASE Forward \/ DrainItem
  <2>1. Head(stream) \in StreamItems /\ Tail(stream) \in Seq(StreamItems)
    BY <1>3, FlowTypes, NumbersOfTail DEF Forward, DrainItem
  <2>2. delta' \in Seq(StreamItems) /\ stream' \in Seq(StreamItems)
    BY <1>3, <2>1, FlowTypes, NumbersAppended DEF Forward, DrainItem
  <2> QED
    BY <1>3, <2>2, FlowTypes DEF Forward, DrainItem, FlowBasics, FlowTypeOK
<1>4. CASE LeaveLoop \/ Drained \/ RuntimeReturns
  BY <1>4, FlowTypes DEF LeaveLoop, Drained, RuntimeReturns, FlowBasics, FlowTypeOK
<1>5. UNCHANGED <<published, gateway>>
  BY DEF SdkItems, SendItem, Scrub, Forward, LeaveLoop, Drain, DrainItem, Drained, RuntimeReturns
<1> QED
  BY <1>1, <1>2, <1>3, <1>4, <1>5 DEF SdkItems, Drain

\* Empty channels are in line.
LEMMA NothingInLine ==
    ASSUME NEW k, NEW state
    PROVE  InLine(k, {}, <<>>, <<>>, <<>>, <<>>, state)
<1>1. Lined(k, {}, {}, {}, {}, {}, state = "forwarding")
  BY DEF Lined, Precede, FirstOf
<1> QED
  BY <1>1, NoNumbers DEF InLine

\* What is published is what was sent first, of either kind.
LEMMA FlowInvGivesNoGaps ==
    ASSUME FlowInv PROVE FlowTypeOK /\ NoGaps
<1>1. FlowBasics
  BY DEF FlowInv
<1>2. ASSUME NEW k \in {"text", "media"}
      PROVE  InOrder(k, published) /\ FirstOf(Numbers(k, published), Numbers(k, sentItems))
  <2>1. /\ InOrder(k, published)
        /\ InLine(k, Numbers(k, published), delta, stream, scrub, sentItems, runner)
    BY DEF FlowInv
  <2>2. PICK f \in BOOLEAN :
          Lined(k, Numbers(k, published), Numbers(k, delta), Numbers(k, stream),
                Numbers(k, scrub), Numbers(k, sentItems), f)
    BY <2>1 DEF InLine
  <2>3. Numbers(k, sentItems) \subseteq Nat
    BY <1>1, FlowTypes, NumbersAreNat
  <2> QED
    BY <2>1, <2>2, <2>3, LineGivesFirst
<1> QED
  BY <1>1, <1>2 DEF NoGaps, FlowBasics

\* A step of the turn's tasks keeps the invariant.
LEMMA FlowStep ==
    ASSUME FlowInv, [FlowNext]_flowVars PROVE FlowInv'
<1>1. FlowBasics
  BY DEF FlowInv
<1>2. CASE SdkItems \/ RuntimeReturns
  <2>1. FlowBasics' /\ published' = published
    BY <1>1, <1>2, ItemsKeepBasics
  <2>2. ASSUME NEW k \in {"text", "media"}
        PROVE  /\ InOrder(k, published')
               /\ InLine(k, Numbers(k, published'), delta', stream', scrub', sentItems', runner')
    BY <1>1, <1>2, <2>1, ItemsKeepLine DEF FlowInv
  <2> QED
    BY <2>1, <2>2 DEF FlowInv
<1>3. CASE Publish
  <2>1. /\ delta # <<>> /\ delta' = Tail(delta) /\ published' = Append(published, Head(delta))
        /\ UNCHANGED <<stream, scrub, sentItems, runner>>
        /\ UNCHANGED <<runtime, gateway>>
    BY <1>3 DEF Publish
  <2>2. Head(delta) \in StreamItems /\ Tail(delta) \in Seq(StreamItems)
        /\ published \in Seq(StreamItems)
    BY <1>1, <2>1, FlowTypes, NumbersOfTail
  <2>3. FlowBasics'
    BY <1>1, <2>1, <2>2, FlowTypes, NumbersAppended DEF FlowBasics, FlowTypeOK
  <2>4. ASSUME NEW k \in {"text", "media"}
        PROVE  /\ InOrder(k, published')
               /\ InLine(k, Numbers(k, published'), delta', stream', scrub', sentItems', runner')
    <3>1. /\ InOrder(k, published)
          /\ InLine(k, Numbers(k, published), delta, stream, scrub, sentItems, runner)
      BY DEF FlowInv
    <3>2. CASE Head(delta).kind = k
      <4>1. /\ InLine(k, Numbers(k, published) \cup {Head(delta).nr}, delta', stream', scrub',
                      sentItems', runner')
            /\ Precede(Numbers(k, published), {Head(delta).nr})
        BY <1>1, <2>1, <3>1, <3>2, OutKeepsLine
      <4>2. Numbers(k, published') = Numbers(k, published) \cup {Head(delta).nr}
        BY <2>1, <2>2, <3>2, NumbersAppended
      <4>3. InOrder(k, published')
        BY <2>1, <2>2, <3>1, <4>1, OrderAppended
      <4> QED
        BY <4>1, <4>2, <4>3
    <3>3. CASE Head(delta).kind # k
      <4>1. InLine(k, Numbers(k, published), delta', stream', scrub', sentItems', runner')
        BY <1>1, <2>1, <3>1, <3>3, OutKeepsLine
      <4>2. Numbers(k, published') = Numbers(k, published)
        BY <2>1, <2>2, <3>3, NumbersAppended
      <4>3. InOrder(k, published')
        BY <2>1, <2>2, <3>1, <3>3, OrderAppended
      <4> QED
        BY <4>1, <4>2, <4>3
    <3> QED
      BY <3>2, <3>3
  <2> QED
    BY <2>3, <2>4 DEF FlowInv
<1>4. CASE EndPublishing \/ UNCHANGED flowVars
  <2>1. /\ UNCHANGED <<sentItems, scrub, stream, delta, runtime, runner, published>>
        /\ gateway' \in {gateway, "ended"}
    BY <1>4 DEF EndPublishing, flowVars
  <2>2. FlowBasics'
    BY <1>1, <2>1 DEF FlowBasics, FlowTypeOK
  <2> QED
    BY <2>1, <2>2 DEF FlowInv
<1> QED
  BY <1>2, <1>3, <1>4 DEF FlowNext, SdkItems

\* FlowTypeOK and NoGaps (runtime/src/lib.rs, gateway/src/turn_runner.rs:284-319):
\* whatever the select!s choose, a subscriber sees the text and the media of a
\* turn in the order they were sent in and without a gap.
THEOREM SubscribersSeeNoGaps == FlowSpec => [](FlowTypeOK /\ NoGaps)
<1>1. FlowInit => FlowInv
  <2> SUFFICES ASSUME FlowInit PROVE FlowInv
    OBVIOUS
  <2>1. FlowBasics
    BY NoNumbers DEF FlowInit, NothingSent, FlowBasics, FlowTypeOK
  <2>2. ASSUME NEW k \in {"text", "media"}
        PROVE  /\ InOrder(k, published)
               /\ InLine(k, Numbers(k, published), delta, stream, scrub, sentItems, runner)
    BY NoNumbers, NothingInLine DEF FlowInit, NothingSent
  <2> QED
    BY <2>1, <2>2 DEF FlowInv
<1>2. FlowInv /\ [FlowNext]_flowVars => FlowInv'
  BY FlowStep
<1>3. FlowInv => FlowTypeOK /\ NoGaps
  BY FlowInvGivesNoGaps
<1> QED
  BY <1>1, <1>2, <1>3, PTL DEF FlowSpec

-----------------------------------------------------------------------------
(* TurnStream: a run started through the SDK.                               *)

\* What the stream and one_shot make of an outcome agrees.
LEMMA OutcomesAgree ==
    ASSUME NEW o \in RunOutcomes
    PROVE  /\ StreamOutcome(o) \in RunEvents /\ StreamOutcome(o).type # "Text"
           /\ StreamOutcome(o).reason = OneShotOutcome(o).reason
           /\ (StreamOutcome(o).type = "Completed") = OneShotOutcome(o).ok
<1>1. CASE o \in {"reply", "cut_reply", "reply_over_budget"}
  BY <1>1 DEF StreamOutcome, OneShotOutcome, RunEvent, RunEvents, DetermineStopReason
<1>2. CASE o = "TurnLimitExceeded"
  BY <1>2 DEF StreamOutcome, OneShotOutcome, RunEvent, RunEvents
<1>3. CASE o = "DeadlineExceeded"
  BY <1>3 DEF StreamOutcome, OneShotOutcome, RunEvent, RunEvents
<1>4. CASE o \in {"Cancelled", "BudgetExceeded", "other"}
  <2>1. ClassifyStreamError(o) \in {"Cancelled", "MaxBudgetExceeded", "Error"}
    BY <1>4 DEF ClassifyStreamError
  <2>2. /\ StreamOutcome(o) = RunEvent("PolicyStop", ClassifyStreamError(o), 0)
        /\ OneShotOutcome(o) = [ok |-> FALSE, reason |-> ClassifyStreamError(o)]
    BY <1>4 DEF StreamOutcome, OneShotOutcome
  <2>3. /\ StreamOutcome(o) \in RunEvents /\ StreamOutcome(o).type = "PolicyStop"
        /\ StreamOutcome(o).reason = ClassifyStreamError(o)
    BY <2>1, <2>2 DEF RunEvent, RunEvents
  <2>4. OneShotOutcome(o).reason = ClassifyStreamError(o) /\ OneShotOutcome(o).ok = FALSE
    BY <2>2
  <2> QED
    BY <2>3, <2>4
<1> QED
  BY <1>1, <1>2, <1>3, <1>4 DEF RunOutcomes

\* The text events come in the order of their numbers.
LEMMA EventAppended ==
    ASSUME events \in Seq(RunEvents), NEW e \in RunEvents, events' = Append(events, e),
           \A i, j \in DOMAIN events :
               (i < j /\ IsText(i) /\ IsText(j)) => events[i].nr < events[j].nr,
           e.type = "Text" => Precede(TextTold, {e.nr})
    PROVE  /\ events' \in Seq(RunEvents)
           /\ Len(events') = Len(events) + 1 /\ events'[Len(events')] = e
           /\ DOMAIN events' = DOMAIN events \cup {Len(events')}
           /\ \A i \in DOMAIN events : i # Len(events') /\ events'[i] = events[i]
           /\ e.type = "Text" => TextTold' = TextTold \cup {e.nr}
           /\ e.type # "Text" => TextTold' = TextTold
           /\ \A i, j \in DOMAIN events' :
                  (i < j /\ IsText(i)' /\ IsText(j)') => events'[i].nr < events'[j].nr
<1>1. /\ events' \in Seq(RunEvents) /\ Len(events) \in Nat /\ DOMAIN events = 1..Len(events)
      /\ Len(events') = Len(events) + 1 /\ events'[Len(events) + 1] = e
      /\ DOMAIN events' = 1..(Len(events) + 1)
      /\ \A i \in 1..Len(events) : events'[i] = events[i]
  OBVIOUS
<1>2. /\ DOMAIN events' = DOMAIN events \cup {Len(events')} /\ events'[Len(events')] = e
      /\ \A i \in DOMAIN events : i < Len(events') /\ i # Len(events') /\ events'[i] = events[i]
  BY <1>1
<1>3. TextTold' = {events'[i].nr : i \in {j \in DOMAIN events' : events'[j].type = "Text"}}
  BY DEF TextTold, IsText
<1>4. e.type = "Text" => TextTold' = TextTold \cup {e.nr}
  BY <1>2, <1>3 DEF TextTold, IsText
<1>5. e.type # "Text" => TextTold' = TextTold
  BY <1>2, <1>3 DEF TextTold, IsText
<1>6. ASSUME NEW i \in DOMAIN events', NEW j \in DOMAIN events', i < j,
             events'[i].type = "Text", events'[j].type = "Text"
      PROVE  events'[i].nr < events'[j].nr
  <2>1. i \in DOMAIN events
    BY <1>1, <1>6
  <2>2. CASE j \in DOMAIN events
    BY <1>2, <1>6, <2>1, <2>2 DEF IsText
  <2>3. CASE j = Len(events')
    <3>1. events[i].nr \in TextTold /\ e.type = "Text"
      BY <1>2, <1>6, <2>1, <2>3 DEF TextTold, IsText
    <3> QED
      BY <1>2, <2>1, <2>3, <3>1 DEF Precede
  <2> QED
    BY <1>2, <2>2, <2>3
<1> QED
  BY <1>1, <1>2, <1>4, <1>5, <1>6 DEF IsText

\* What the caller reads follows from the invariant.
LEMMA SdkInvGivesRun ==
    ASSUME SdkInv PROVE CallerReadsWholeRun
<1>1. FlowBasics /\ published = <<>> /\ Numbers("text", sentItems) \subseteq Nat
  BY FlowTypes, NumbersAreNat DEF SdkInv
<1>2. NoGaps
  <2>1. ASSUME NEW k PROVE InOrder(k, published) /\ Numbers(k, published) = {}
    BY <1>1, NoNumbers
  <2> QED
    BY <2>1 DEF NoGaps, FirstOf
<1>3. FirstOf(TextTold, Numbers("text", sentItems))
  <2>1. PICK f \in BOOLEAN :
          Lined("text", TextTold, Numbers("text", delta), Numbers("text", stream),
                Numbers("text", scrub), Numbers("text", sentItems), f)
    BY DEF SdkInv, InLine
  <2> QED
    BY <1>1, <2>1, LineGivesFirst
<1>4. ASSUME NEW i \in DOMAIN events, ~IsText(i)
      PROVE  /\ i = Len(events)
             /\ events[i].reason = OneShotOutcome(returned).reason
             /\ (events[i].type = "Completed") = OneShotOutcome(returned).ok
  <2>1. i = Len(events) /\ events[i] = StreamOutcome(returned) /\ returned \in RunOutcomes
    BY <1>4 DEF SdkInv, OutcomeOnce
  <2> QED
    BY <2>1, OutcomesAgree
<1> QED
  BY <1>1, <1>2, <1>3, <1>4
     DEF CallerReadsWholeRun, CallerReadsOneOutcome, SdkInv, FlowBasics

\* The steps that leave the caller's events and their outcome alone.
LEMMA SdkFlowStep ==
    ASSUME SdkInv, SdkItems \/ RuntimeReturns
    PROVE  /\ FlowBasics' /\ published' = <<>>
           /\ events' = events =>
                InLine("text", TextTold', delta', stream', scrub', sentItems', runner')
<1>1. FlowBasics' /\ published' = <<>>
  BY ItemsKeepBasics DEF SdkInv
<1>2. InLine("text", TextTold, delta', stream', scrub', sentItems', runner')
  BY ItemsKeepLine DEF SdkInv
<1>3. events' = events => TextTold' = TextTold
  BY DEF TextTold, IsText
<1> QED
  BY <1>1, <1>2, <1>3

\* A step of the run's tasks keeps the invariant.
LEMMA SdkStep ==
    ASSUME SdkInv, [SdkNext]_<<flowVars, sdkVars>> PROVE SdkInv'
<1> DEFINE Ordered == \A i, j \in DOMAIN events :
                          (i < j /\ IsText(i) /\ IsText(j)) => events[i].nr < events[j].nr
<1>1. /\ FlowBasics /\ published = <<>> /\ Ordered /\ OutcomeOnce
      /\ InLine("text", TextTold, delta, stream, scrub, sentItems, runner)
      /\ events \in Seq(RunEvents) /\ internal \in Seq(RunEvents)
      /\ runTask \in {"running", "ended"} /\ converter \in {"looping", "ended"}
  BY DEF SdkInv
<1>2. events' = events => Ordered' /\ TextTold' = TextTold
  BY <1>1 DEF IsText, TextTold
<1>3. CASE SdkItems /\ runTask = "running" /\ UNCHANGED sdkVars
  <2>1. /\ FlowBasics' /\ published' = <<>> /\ UNCHANGED sdkVars
        /\ InLine("text", TextTold', delta', stream', scrub', sentItems', runner')
    BY <1>3, SdkFlowStep DEF sdkVars
  <2>2. runtime' = runtime
    BY <1>3 DEF SdkItems, SendItem, Scrub, Forward, LeaveLoop, Drain, DrainItem, Drained
  <2>3. OutcomeOnce'
    BY <1>1, <2>1, <2>2 DEF OutcomeOnce, sdkVars, IsText
  <2> QED
    BY <1>1, <1>2, <2>1, <2>3 DEF SdkInv, sdkVars
<1>4. ASSUME NEW outcome \in RunOutcomes, SdkReturns(outcome) PROVE SdkInv'
  <2>1. /\ RuntimeReturns /\ returned' = outcome /\ runtime' = "ready" /\ runtime = "running"
        /\ UNCHANGED <<internal, runTask, converter, events>>
    BY <1>4 DEF SdkReturns, RuntimeReturns
  <2>2. /\ FlowBasics' /\ published' = <<>>
        /\ InLine("text", TextTold', delta', stream', scrub', sentItems', runner')
    BY <2>1, SdkFlowStep
  <2>3. /\ runTask = "running" /\ internal = <<>> /\ \A i \in DOMAIN events : IsText(i)
    BY <1>1, <2>1 DEF OutcomeOnce
  <2>4. OutcomeOnce'
    BY <1>4, <2>1, <2>3 DEF OutcomeOnce, IsText
  <2> QED
    BY <1>1, <1>2, <2>1, <2>2, <2>4 DEF SdkInv
<1>5. CASE ReportOutcome
  <2>1. /\ runTask = "running" /\ runTask' = "ended" /\ runner = "returned"
        /\ internal' = Append(internal, StreamOutcome(returned))
        /\ UNCHANGED <<sentItems, scrub, stream, delta, runtime, runner, gateway, published>>
        /\ UNCHANGED <<returned, converter, events>>
    BY <1>5 DEF ReportOutcome, flowVars
  <2>2. /\ internal = <<>> /\ \A i \in DOMAIN events : IsText(i)
        /\ runtime = "ready" /\ returned \in RunOutcomes
    BY <1>1, <2>1, FlowTypes DEF OutcomeOnce
  <2>3. internal' = <<StreamOutcome(returned)>> /\ StreamOutcome(returned) \in RunEvents
    BY <2>1, <2>2, OutcomesAgree
  <2>4. OutcomeOnce'
    BY <2>1, <2>2, <2>3 DEF OutcomeOnce, IsText
  <2>5. FlowBasics' /\ InLine("text", TextTold', delta', stream', scrub', sentItems', runner')
    BY <1>1, <1>2, <2>1 DEF FlowBasics, FlowTypeOK
  <2> QED
    BY <1>1, <1>2, <2>1, <2>3, <2>4, <2>5 DEF SdkInv
<1>6. CASE RunPanics
  <2>1. /\ runTask = "running" /\ runTask' = "ended" /\ runner = "forwarding"
        /\ runner' = "returned" /\ stream' = <<>> /\ scrub' = <<>> /\ runtime' = "ready"
        /\ UNCHANGED <<sentItems, delta, gateway, published>>
        /\ UNCHANGED <<returned, internal, converter, events>>
    BY <1>6 DEF RunPanics
  <2>2. /\ internal = <<>> /\ \A i \in DOMAIN events : IsText(i)
        /\ returned \in RunOutcomes \cup {NotReturned}
    BY <1>1, <2>1 DEF OutcomeOnce
  <2>3. OutcomeOnce'
    BY <2>1, <2>2 DEF OutcomeOnce, IsText
  <2>4. FlowBasics'
    BY <1>1, <2>1, NoNumbers, FlowTypes DEF FlowBasics, FlowTypeOK
  <2>5. InLine("text", TextTold, delta, <<>>, <<>>, sentItems, "returned")
    <3>1. Lined("text", TextTold, Numbers("text", delta), Numbers("text", stream),
                Numbers("text", scrub), Numbers("text", sentItems), TRUE)
      BY <1>1, <2>1 DEF InLine
    <3>2. Numbers("text", sentItems) \subseteq Nat
      BY <1>1, FlowTypes, NumbersAreNat
    <3>3. Lined("text", TextTold, Numbers("text", delta), Numbers("text", stream),
                Numbers("text", scrub), Numbers("text", sentItems), FALSE)
      BY <3>1, <3>2, LineCloses
    <3>4. Lined("text", TextTold, Numbers("text", delta), Numbers("text", stream), {},
                Numbers("text", sentItems), FALSE)
      BY <3>3, LineLosesScrubbed
    <3>5. Lined("text", TextTold, Numbers("text", delta), {}, {}, Numbers("text", sentItems), FALSE)
      BY <3>4, LineDrops
    <3> QED
      BY <1>1, <3>5, NoNumbers DEF InLine
  <2>6. InLine("text", TextTold', delta', stream', scrub', sentItems', runner')
    BY <1>2, <2>1, <2>5
  <2> QED
    BY <1>1, <1>2, <2>1, <2>3, <2>4, <2>6 DEF SdkInv
<1>7. CASE ConvertItem
  <2> DEFINE h == Head(delta)
             e == RunEvent("Text", "none", h.nr)
  <2>1. /\ converter = "looping" /\ delta # <<>> /\ delta' = Tail(delta)
        /\ UNCHANGED <<stream, scrub, sentItems, runner>>
        /\ UNCHANGED <<runtime, gateway, published, returned, internal, runTask, converter>>
        /\ events' = IF h.kind = "text" THEN Append(events, e) ELSE events
    BY <1>7 DEF ConvertItem
  <2>2. /\ h \in StreamItems
        /\ h.kind = "text" =>
             /\ InLine("text", TextTold \cup {h.nr}, delta', stream', scrub', sentItems', runner')
             /\ Precede(TextTold, {h.nr})
        /\ h.kind # "text" => InLine("text", TextTold, delta', stream', scrub', sentItems', runner')
    BY <1>1, <2>1, OutKeepsLine
  <2>3. FlowBasics'
    <3>1. Tail(delta) \in Seq(StreamItems)
      BY <1>1, <2>1, FlowTypes, NumbersOfTail
    <3> QED
      BY <1>1, <2>1, <3>1, FlowTypes DEF FlowBasics, FlowTypeOK
  <2>4. e \in RunEvents /\ e.type = "Text" /\ e.nr = h.nr
    BY <2>2, MaxItemsType DEF RunEvent, RunEvents, StreamItems
  <2>5. \A i \in DOMAIN events : IsText(i)
    BY <1>1, <2>1 DEF OutcomeOnce
  <2> HIDE DEF h, e
  <2>6. CASE h.kind = "text"
    <3>1. events' = Append(events, e) /\ Precede(TextTold, {e.nr})
      BY <2>1, <2>2, <2>4, <2>6
    <3>2. /\ events' \in Seq(RunEvents) /\ TextTold' = TextTold \cup {e.nr} /\ Ordered'
          /\ \A i \in DOMAIN events' : events'[i].type = "Text"
      BY <1>1, <2>4, <2>5, <3>1, EventAppended DEF IsText
    <3>3. OutcomeOnce'
      BY <1>1, <2>1, <3>2 DEF OutcomeOnce, IsText
    <3>4. InLine("text", TextTold', delta', stream', scrub', sentItems', runner')
      BY <2>2, <2>4, <2>6, <3>2
    <3> QED
      BY <1>1, <2>1, <2>3, <3>2, <3>3, <3>4 DEF SdkInv
  <2>7. CASE h.kind # "text"
    <3>1. events' = events
      BY <2>1, <2>7
    <3>2. OutcomeOnce'
      BY <1>1, <2>1, <3>1 DEF OutcomeOnce, IsText
    <3>3. InLine("text", TextTold', delta', stream', scrub', sentItems', runner')
      BY <1>2, <2>2, <2>7, <3>1
    <3> QED
      BY <1>1, <1>2, <2>1, <2>3, <3>1, <3>2, <3>3 DEF SdkInv
  <2> QED
    BY <2>6, <2>7
<1>8. CASE ConvertOutcome
  <2> DEFINE e == StreamOutcome(returned)
  <2>1. /\ converter = "looping" /\ internal # <<>> /\ converter' = "ended"
        /\ internal' = Tail(internal) /\ events' = Append(events, Head(internal))
        /\ UNCHANGED <<sentItems, scrub, stream, delta, runtime, runner, gateway, published>>
        /\ UNCHANGED <<returned, runTask>>
    BY <1>8 DEF ConvertOutcome, flowVars
  <2>2. /\ internal = <<e>> /\ returned \in RunOutcomes /\ \A i \in DOMAIN events : IsText(i)
        /\ runTask = "ended" /\ runtime = "ready"
    BY <1>1, <2>1 DEF OutcomeOnce
  <2>3. e \in RunEvents /\ e.type # "Text"
    BY <2>2, OutcomesAgree
  <2>4. internal' = <<>> /\ events' = Append(events, e)
    BY <2>1, <2>2
  <2> HIDE DEF e
  <2>5. /\ events' \in Seq(RunEvents) /\ TextTold' = TextTold /\ Ordered'
        /\ events'[Len(events')] = e
        /\ \A i \in DOMAIN events' : i = Len(events') \/ events'[i].type = "Text"
    BY <1>1, <2>2, <2>3, <2>4, EventAppended DEF IsText
  <2>6. OutcomeOnce'
    BY <2>1, <2>2, <2>4, <2>5 DEF OutcomeOnce, IsText, e
  <2>7. FlowBasics' /\ InLine("text", TextTold', delta', stream', scrub', sentItems', runner')
    BY <1>1, <2>1, <2>5 DEF FlowBasics, FlowTypeOK
  <2> QED
    BY <1>1, <2>1, <2>4, <2>5, <2>6, <2>7 DEF SdkInv
<1>9. CASE ConverterDies \/ UNCHANGED <<flowVars, sdkVars>>
  <2>1. /\ UNCHANGED <<sentItems, scrub, stream, delta, runtime, runner, gateway, published>>
        /\ UNCHANGED <<returned, internal, runTask, events>> /\ converter' \in {converter, "ended"}
    BY <1>9 DEF ConverterDies, flowVars, sdkVars
  <2>2. OutcomeOnce'
    BY <1>1, <2>1 DEF OutcomeOnce, IsText
  <2>3. FlowBasics' /\ InLine("text", TextTold', delta', stream', scrub', sentItems', runner')
    BY <1>1, <1>2, <2>1 DEF FlowBasics, FlowTypeOK
  <2> QED
    BY <1>1, <1>2, <2>1, <2>2, <2>3 DEF SdkInv
<1> QED
  BY <1>3, <1>4, <1>5, <1>6, <1>7, <1>8, <1>9 DEF SdkNext

\* CallerReadsWholeRun (sdk/src/client.rs): whatever the two select!s choose,
\* and if the run panics, the caller of stream() reads the text in order and
\* without a gap and then at most one outcome, that of one_shot.
THEOREM CallersReadTheirRun == SdkSpec => []CallerReadsWholeRun
<1>1. SdkInit => SdkInv
  <2> SUFFICES ASSUME SdkInit PROVE SdkInv
    OBVIOUS
  <2>1. FlowBasics
    BY NoNumbers DEF SdkInit, NothingSent, FlowBasics, FlowTypeOK
  <2>2. events = <<>> /\ internal = <<>> /\ DOMAIN events = {} /\ TextTold = {}
    BY DEF SdkInit, NoEvents, TextTold
  <2>3. InLine("text", TextTold, delta, stream, scrub, sentItems, runner)
    BY <2>2, NothingInLine DEF SdkInit, NothingSent
  <2>4. OutcomeOnce
    BY <2>2 DEF OutcomeOnce, SdkInit, NothingSent, NoEvents
  <2> QED
    BY <2>1, <2>2, <2>3, <2>4 DEF SdkInv, SdkInit, NothingSent
<1>2. SdkInv /\ [SdkNext]_<<flowVars, sdkVars>> => SdkInv'
  BY SdkStep
<1>3. SdkInv => CallerReadsWholeRun
  BY SdkInvGivesRun
<1> QED
  BY <1>1, <1>2, <1>3, PTL DEF SdkSpec
=============================================================================
