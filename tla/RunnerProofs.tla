---------------------------- MODULE RunnerProofs ----------------------------
(***************************************************************************)
(* Proofs about the runner: what its daemons leave behind, for any number  *)
(* of them and of commands, and what becomes of the configuration that     *)
(* pages and requests change, for any number of them, of users, of files   *)
(* and of backups kept.                                                    *)
(***************************************************************************)
EXTENDS MCRunner, FiniteSetTheorems, SequenceTheorems, TLAPS

-----------------------------------------------------------------------------
(* RunnerLifecycle: the operators of a launch.                              *)

\* Where the elements of two sequences are in their concatenation.
LEMMA ConcatParts ==
    ASSUME NEW S, NEW s \in Seq(S), NEW t \in Seq(S)
    PROVE  /\ DOMAIN (s \o t) = 1..(Len(s) + Len(t))
           /\ \A i \in 1..Len(s) : (s \o t)[i] = s[i]
           /\ \A i \in 1..Len(t) : (s \o t)[Len(s) + i] = t[i]
<1>1. s \o t \in Seq(S) /\ Len(s \o t) = Len(s) + Len(t)
  OBVIOUS
<1>2. DOMAIN (s \o t) = 1..(Len(s) + Len(t))
  BY <1>1
<1>3. \A i \in 1..Len(s) : (s \o t)[i] = s[i]
  OBVIOUS
<1>4. \A i \in 1..Len(t) : (s \o t)[Len(s) + i] = t[i]
  OBVIOUS
<1> QED
  BY <1>2, <1>3, <1>4

\* Every tier launches some of the roles.
LEMMA LaunchOrderRoles ==
    ASSUME tier \in Tiers
    PROVE  LaunchOrder \in Seq(Roles)
<1>2. <<"runtime">> \in Seq(Roles) /\ <<"scope">> \in Seq(Roles) /\ <<"sidecar">> \in Seq(Roles) /\ <<>> \in Seq(Roles)
  BY DEF Roles
<1>1. Sidecar \in Seq(Roles)  BY <1>2 DEF Sidecar
<1> QED  BY <1>1, <1>2, TiersAssumption DEF LaunchOrder, ProcessGuests, LinuxGuests, ContainerGuests, MacosGuests

\* A shutdown stops every guest the launch has.
LEMMA ShutdownOrderComplete ==
    ASSUME NEW has \in SUBSET Roles
    PROVE  /\ ShutdownOrder(has) \in Seq(Roles)
           /\ \A role \in has : \E i \in DOMAIN ShutdownOrder(has) : ShutdownOrder(has)[i] = role
<1> DEFINE a == IF "sidecar" \in has THEN <<"sidecar">> ELSE <<>>
           b == IF "runtime" \in has THEN <<"runtime">> ELSE <<>>
           c == IF "scope" \in has THEN <<"scope">> ELSE <<>>
<1>0. /\ <<"runtime">> \in Seq(Roles) /\ <<"scope">> \in Seq(Roles) /\ <<"sidecar">> \in Seq(Roles)
      /\ <<>> \in Seq(Roles)
  BY DEF Roles
<1>1. a \in Seq(Roles) /\ b \in Seq(Roles) /\ c \in Seq(Roles)  BY <1>0
<1>2. ShutdownOrder(has) = a \o b \o c  BY DEF ShutdownOrder
<1>3. "sidecar" \in has => Len(a) = 1 /\ a[1] = "sidecar"  OBVIOUS
<1>4. "runtime" \in has => Len(b) = 1 /\ b[1] = "runtime"  OBVIOUS
<1>5. "scope" \in has => Len(c) = 1 /\ c[1] = "scope"  OBVIOUS
<1> HIDE DEF a, b, c
<1>6. a \o b \o c \in Seq(Roles) /\ a \o b \in Seq(Roles)  BY <1>1
<1>10. /\ DOMAIN (a \o b \o c) = 1..(Len(a) + Len(b) + Len(c))
       /\ \A i \in 1..Len(a) : (a \o b \o c)[i] = a[i]
       /\ \A i \in 1..Len(b) : (a \o b \o c)[Len(a) + i] = b[i]
       /\ \A i \in 1..Len(c) : (a \o b \o c)[Len(a) + Len(b) + i] = c[i]
  <2> DEFINE d == a \o b
  <2>1. /\ d \in Seq(Roles) /\ Len(d) = Len(a) + Len(b)
        /\ \A i \in 1..Len(a) : d[i] = a[i]
        /\ \A i \in 1..Len(b) : d[Len(a) + i] = b[i]
    BY <1>1
  <2> HIDE DEF d
  <2>2. /\ DOMAIN (d \o c) = 1..(Len(d) + Len(c))
        /\ \A i \in 1..Len(d) : (d \o c)[i] = d[i]
        /\ \A i \in 1..Len(c) : (d \o c)[Len(d) + i] = c[i]
    <3>1. d \in Seq(Roles) /\ c \in Seq(Roles)
      BY <1>1, <2>1
    <3> QED
      BY ONLY <3>1, ConcatParts
  <2>3. /\ Len(a) \in Nat /\ Len(b) \in Nat /\ Len(c) \in Nat
        /\ \A i \in 1..Len(a) : i \in 1..Len(d)
        /\ \A i \in 1..Len(b) : Len(a) + i \in 1..Len(d)
    BY <1>1, <2>1
  <2>4. /\ DOMAIN (d \o c) = 1..(Len(a) + Len(b) + Len(c))
        /\ \A i \in 1..Len(a) : (d \o c)[i] = a[i]
        /\ \A i \in 1..Len(b) : (d \o c)[Len(a) + i] = b[i]
        /\ \A i \in 1..Len(c) : (d \o c)[Len(a) + Len(b) + i] = c[i]
    BY <2>1, <2>2, <2>3
  <2> QED  BY <2>4 DEF d
<1>11. Len(a) \in Nat /\ Len(b) \in Nat /\ Len(c) \in Nat  BY <1>1
<1> DEFINE s == a \o b \o c
<1>12. /\ DOMAIN s = 1..(Len(a) + Len(b) + Len(c))
       /\ \A i \in 1..Len(a) : s[i] = a[i]
       /\ \A i \in 1..Len(b) : s[Len(a) + i] = b[i]
       /\ \A i \in 1..Len(c) : s[Len(a) + Len(b) + i] = c[i]
  BY <1>10
<1>13. ShutdownOrder(has) = s /\ s \in Seq(Roles)  BY <1>2, <1>6
<1> HIDE DEF s
<1>7. ASSUME "sidecar" \in has  PROVE \E i \in DOMAIN s : s[i] = "sidecar"
  <2>1. 1 \in DOMAIN s /\ s[1] = "sidecar"  BY <1>3, <1>7, <1>11, <1>12
  <2> QED  BY <2>1
<1>8. ASSUME "runtime" \in has  PROVE \E i \in DOMAIN s : s[i] = "runtime"
  <2>1. Len(a) + 1 \in DOMAIN s /\ s[Len(a) + 1] = "runtime"  BY <1>4, <1>8, <1>11, <1>12
  <2> QED  BY <2>1
<1>9. ASSUME "scope" \in has  PROVE \E i \in DOMAIN s : s[i] = "scope"
  <2>1. Len(c) = 1 /\ c[1] = "scope"  BY <1>5, <1>9
  <2>2. s[Len(a) + Len(b) + 1] = c[1]  BY <2>1, <1>12
  <2>3. Len(a) + Len(b) + 1 \in DOMAIN s  BY <2>1, <1>11, <1>12
  <2> QED  BY <2>1, <2>2, <2>3
<1> QED  BY <1>13, <1>7, <1>8, <1>9 DEF Roles

\* The queue of a runner that has nothing left to do.
LEMMA EmptyQueue == <<>> \in Seq(Roles) /\ \A i \in DOMAIN <<>> : FALSE
OBVIOUS

\* What stays in a queue after its head is taken.
LEMMA TailKeeps ==
    ASSUME NEW todo \in Seq(Roles), todo # <<>>, NEW role, role # Head(todo),
           \E i \in DOMAIN todo : todo[i] = role
    PROVE  /\ Tail(todo) \in Seq(Roles)
           /\ \E i \in DOMAIN Tail(todo) : Tail(todo)[i] = role
<1>1. PICK i \in DOMAIN todo : todo[i] = role  OBVIOUS
<1>2. i # 1 /\ i \in 1..Len(todo)  BY <1>1
<1>3. i - 1 \in DOMAIN Tail(todo) /\ Tail(todo)[i - 1] = role  BY <1>1, <1>2
<1> QED  BY <1>3

-----------------------------------------------------------------------------
(* The inductive invariant.                                                *)

LEMMA LifecycleStarts == LifecycleInit => LifecycleInv
<1> SUFFICES ASSUME LifecycleInit PROVE LifecycleInv  OBVIOUS
<1>1. <<>> \in Seq(Roles)  OBVIOUS
<1>2. /\ NotStarted \in RunnerStates /\ NotStarted.at = "off" /\ NotStarted.why = "none" /\ NotStarted.has = {}
      /\ leaked = {} /\ tier \in Tiers /\ 0 \in 0..MaxRunners /\ 1 \in 0..MaxRunners /\ 1 \in Pids
  BY <1>1, RunnersAssumption DEF LifecycleInit, RunnerStates, NotStarted, Pids
<1>3. CASE NothingRuns
  <2>1. LifecycleTypeOK  BY <1>2, <1>3 DEF NothingRuns, LifecycleTypeOK
  <2>2. ASSUME NEW r \in Pids  PROVE GuestsHeld(r)
    <3>1. runners[r] = NotStarted /\ running = {}  BY <1>3 DEF NothingRuns
    <3> QED  BY <1>2, <3>1 DEF GuestsHeld, HeldOrLeaked, StillToStop, HoldsNoneAtEnd, HasInHand, EndedWhys
  <2> QED  BY <2>1, <2>2 DEF LifecycleInv
<1>4. CASE DaemonRuns
  <2> DEFINE has == {LaunchOrder[i] : i \in DOMAIN LaunchOrder}
             served == [NotStarted EXCEPT !.at = "serving", !.has = has]
  <2>1. has \subseteq Roles
    <3>1. LaunchOrder \in Seq(Roles)  BY <1>2, LaunchOrderRoles
    <3> QED  BY <3>1
  <2> HIDE DEF has
  <2>2. served \in RunnerStates /\ served.at = "serving" /\ served.has = has /\ served.why = "none"
    BY <1>1, <2>1 DEF RunnerStates, NotStarted
  <2> HIDE DEF served
  <2>3. /\ runners = [r \in Pids |-> IF r = 1 THEN served ELSE NotStarted]
        /\ running = has \X {1} /\ sock = 1
    BY <1>4 DEF DaemonRuns, served, has
  <2>4. LifecycleTypeOK  BY <1>2, <2>1, <2>2, <2>3 DEF LifecycleTypeOK
  <2>5. ASSUME NEW r \in Pids  PROVE GuestsHeld(r)
    <3>1. runners[r].at \in {"off", "serving"} /\ runners[r].why = "none"  BY <1>2, <2>2, <2>3
    <3>2. HeldOrLeaked(r)  BY <1>2, <2>2, <2>3 DEF HeldOrLeaked, HasInHand
    <3> QED  BY <3>1, <3>2 DEF GuestsHeld, StillToStop, HoldsNoneAtEnd, EndedWhys
  <2> QED  BY <2>4, <2>5 DEF LifecycleInv
<1> QED  BY <1>3, <1>4 DEF LifecycleInit

\* A runner goes on: the other runners keep their guests or lose some.
LEMMA OneRunnerMoves ==
    ASSUME LifecycleInv, NEW r \in Pids, NEW new,
           runners' = [runners EXCEPT ![r] = new],
           new \in RunnerStates,
           running' \subseteq running \cup (Roles \X {r}),
           leaked \subseteq leaked', leaked' \subseteq Roles \X Pids,
           UNCHANGED tier, sock' \in 0..MaxRunners,
           GuestsHeld(r)'
    PROVE  LifecycleInv'
<1>1. LifecycleTypeOK'
  <2>1. running' \subseteq Roles \X Pids  BY DEF LifecycleInv, LifecycleTypeOK
  <2> QED  BY <2>1 DEF LifecycleInv, LifecycleTypeOK
<1>2. ASSUME NEW q \in Pids, q # r  PROVE GuestsHeld(q)'
  <2>1. runners'[q] = runners[q]  BY <1>2 DEF LifecycleInv, LifecycleTypeOK
  <2>2. \A role : <<role, q>> \in running' => <<role, q>> \in running  BY <1>2
  <2>3. GuestsHeld(q)  BY <1>2 DEF LifecycleInv
  <2>4. HasInHand(q)' = HasInHand(q)  BY <2>1 DEF HasInHand
  <2>5. HeldOrLeaked(q)'  BY <2>1, <2>2, <2>3, <2>4 DEF GuestsHeld, HeldOrLeaked
  <2>6. StillToStop(q)'  BY <2>1, <2>3, <2>4 DEF GuestsHeld, StillToStop
  <2>7. HoldsNoneAtEnd(q)'  BY <2>1, <2>3, <2>4 DEF GuestsHeld, HoldsNoneAtEnd
  <2> QED  BY <2>5, <2>6, <2>7 DEF GuestsHeld
<1> QED  BY <1>1, <1>2 DEF LifecycleInv

\* Where only sockets, markers and commands change.
LEMMA OthersMove ==
    ASSUME LifecycleInv, UNCHANGED <<tier, runners, running, leaked>>, sock' \in 0..MaxRunners
    PROVE  LifecycleInv'
<1>1. LifecycleTypeOK'  BY DEF LifecycleInv, LifecycleTypeOK
<1>2. ASSUME NEW q \in Pids  PROVE GuestsHeld(q)'
  BY DEF LifecycleInv, GuestsHeld, HeldOrLeaked, StillToStop, HoldsNoneAtEnd, HasInHand
<1> QED  BY <1>1, <1>2 DEF LifecycleInv

\* The fields of a runner.
LEMMA RunnerFields ==
    ASSUME LifecycleInv, NEW r \in Pids
    PROVE  /\ runners[r] \in RunnerStates /\ runners[r].has \in SUBSET Roles /\ runners[r].todo \in Seq(Roles)
           /\ GuestsHeld(r) /\ DOMAIN runners = Pids
           /\ running \subseteq Roles \X Pids /\ leaked \subseteq Roles \X Pids
           /\ sock \in 0..MaxRunners /\ tier \in Tiers
BY DEF LifecycleInv, LifecycleTypeOK, RunnerStates

\* A launch: what it starts it holds, and a failed one stops what it holds.
LEMMA LaunchStep ==
    ASSUME LifecycleInv, NEW r \in Pids, LaunchGuest(r)
    PROVE  LifecycleInv'
<1> DEFINE role == Head(runners[r].todo)
           rest == Tail(runners[r].todo)
           launched == [runners[r] EXCEPT !.has = @ \cup {role}, !.todo = rest]
           without == [runners[r] EXCEPT !.todo = rest]
<1>1. /\ runners[r].at = "launch" /\ runners[r].todo # <<>> /\ UNCHANGED <<tier, leaked, sock>>
      /\ \/ /\ running' = (running \ GoneWith(role, r)) \cup {<<role, r>>}
            /\ runners' = [runners EXCEPT ![r] = launched]
         \/ /\ running' \in FailedLaunches(role, r)
            /\ runners' = [runners EXCEPT ![r] = IF role = "sidecar" THEN without ELSE LaunchFails(r)]
  BY DEF LaunchGuest
<1>2. role \in Roles /\ rest \in Seq(Roles)  BY <1>1, RunnerFields
<1>3. launched \in RunnerStates /\ without \in RunnerStates  BY <1>2, RunnerFields DEF RunnerStates
<1>4. /\ ShutdownOrder(runners[r].has) \in Seq(Roles)
      /\ \A x \in runners[r].has : \E i \in DOMAIN ShutdownOrder(runners[r].has) : ShutdownOrder(runners[r].has)[i] = x
  BY RunnerFields, ShutdownOrderComplete
<1>5. LaunchFails(r) \in RunnerStates  BY <1>4, RunnerFields DEF RunnerStates, LaunchFails
<1>6. runners[r].why = "none"  BY <1>1, RunnerFields DEF GuestsHeld, HoldsNoneAtEnd
<1>7. CASE /\ running' = (running \ GoneWith(role, r)) \cup {<<role, r>>}
           /\ runners' = [runners EXCEPT ![r] = launched]
  <2>1. runners'[r] = launched  BY <1>7, RunnerFields
  <2>2. HasInHand(r)' = (runners[r].has \cup {role}) \ {"scope"}  BY <2>1, RunnerFields DEF HasInHand, RunnerStates
  <2>3. HeldOrLeaked(r)'
    BY <1>1, <1>6, <1>7, <2>2, RunnerFields DEF GuestsHeld, HeldOrLeaked, HasInHand, AbruptWhys
  <2>4. runners'[r].at = "launch" /\ runners'[r].why = "none"  BY <2>1, <1>1, <1>6, RunnerFields DEF RunnerStates
  <2>5. GuestsHeld(r)'  BY <2>3, <2>4 DEF GuestsHeld, StillToStop, HoldsNoneAtEnd, EndedWhys
  <2>6. running' \subseteq running \cup (Roles \X {r})  BY <1>2, <1>7
  <2> QED  BY <1>1, <1>3, <1>7, <2>5, <2>6, RunnerFields, OneRunnerMoves
<1>8. CASE /\ running' \in FailedLaunches(role, r)
           /\ runners' = [runners EXCEPT ![r] = IF role = "sidecar" THEN without ELSE LaunchFails(r)]
  <2> DEFINE new == IF role = "sidecar" THEN without ELSE LaunchFails(r)
  <2>1. runners'[r] = new /\ new \in RunnerStates  BY <1>3, <1>5, <1>8, RunnerFields
  <2>2. running' \subseteq running \cup {<<"scope", r>>}  BY <1>8 DEF FailedLaunches
  <2>3. new.has = runners[r].has /\ new.why = "none"  BY <1>6, RunnerFields DEF LaunchFails, RunnerStates
  <2>4. HasInHand(r)' = HasInHand(r)  BY <2>1, <2>3 DEF HasInHand
  <2>5. HeldOrLeaked(r)'  BY <1>1, <1>6, <2>2, <2>4, RunnerFields DEF GuestsHeld, HeldOrLeaked, AbruptWhys
  <2>6. StillToStop(r)'
    <3>1. CASE role = "sidecar"
      BY <3>1, <2>1, <1>1, RunnerFields DEF StillToStop, RunnerStates
    <3>2. CASE role # "sidecar"
      <4>1. new.todo = ShutdownOrder(runners[r].has)  BY <3>2, RunnerFields DEF LaunchFails, RunnerStates
      <4> HIDE DEF new
      <4>2. \A x \in HasInHand(r) : \E i \in DOMAIN new.todo : new.todo[i] = x  BY <1>4, <4>1 DEF HasInHand
      <4> QED  BY <2>1, <2>4, <4>2 DEF StillToStop
    <3> QED  BY <3>1, <3>2
  <2>7. HoldsNoneAtEnd(r)'
    <3>1. new.at \in {"launch", "clean up"}  BY <1>1, RunnerFields DEF LaunchFails, RunnerStates
    <3> QED  BY <2>1, <2>3, <3>1 DEF HoldsNoneAtEnd, EndedWhys
  <2>8. running' \subseteq running \cup (Roles \X {r})  BY <2>2 DEF Roles
  <2> HIDE DEF new
  <2> QED  BY <1>1, <1>8, <2>1, <2>5, <2>6, <2>7, <2>8, RunnerFields, OneRunnerMoves DEF GuestsHeld, new
<1> QED  BY <1>1, <1>7, <1>8

\* Stopping a guest: it is gone, or its stopping has failed.
LEMMA StopStep ==
    ASSUME LifecycleInv, NEW r \in Pids, StopGuest(r)
    PROVE  LifecycleInv'
<1> DEFINE role == Head(runners[r].todo)
<1>1. PICK good \in BOOLEAN :
        /\ running' = IF good THEN running \ GoneWith(role, r) ELSE running
        /\ leaked' = IF good THEN leaked ELSE leaked \cup {<<role, r>>}
        /\ runners' = [runners EXCEPT ![r] = AfterStop(r, role, good)]
  BY DEF StopGuest
<1>2. runners[r].at \in {"stopping", "clean up"} /\ runners[r].todo # <<>> /\ UNCHANGED <<tier, sock>>
  BY DEF StopGuest
<1>3. role \in Roles /\ Tail(runners[r].todo) \in Seq(Roles)
  <2>1. runners[r].todo \in Seq(Roles) /\ runners[r].todo # <<>>  BY <1>2, RunnerFields
  <2> QED  BY <2>1
<1> DEFINE new == AfterStop(r, role, good)
<1>4. /\ new \in RunnerStates /\ new.at = runners[r].at /\ new.why = runners[r].why
      /\ new.todo = Tail(runners[r].todo)
      /\ new.has \ {"scope"} = HasInHand(r) \ {role}
  BY <1>3, RunnerFields DEF AfterStop, RunnerStates, HasInHand
<1> HIDE DEF new
<1>5. runners'[r] = new  BY <1>1, RunnerFields DEF new
<1>6. HasInHand(r)' = HasInHand(r) \ {role}  BY <1>4, <1>5 DEF HasInHand
<1>7. <<role, r>> \notin running' \/ <<role, r>> \in leaked'
  <2>1. CASE good
    <3> HIDE DEF role
    <3>1. <<role, r>> \in running => <<role, r>> \in SameName(role, r)
      <4>1. <<role, r>>[1] = role  OBVIOUS
      <4> QED  BY <4>1 DEF SameName
    <3>2. <<role, r>> \in running => <<role, r>> \in GoneWith(role, r)  BY <3>1 DEF GoneWith
    <3> QED  BY <3>2, <2>1, <1>1 DEF role
  <2>2. CASE ~good  BY <2>2, <1>1
  <2> QED  BY <2>1, <2>2
<1>8. running' \subseteq running /\ leaked \subseteq leaked' /\ leaked' \subseteq Roles \X Pids
  BY <1>1, <1>3, RunnerFields
<1>9. HeldOrLeaked(r)'
  <2>1. HeldOrLeaked(r)  BY RunnerFields DEF GuestsHeld
  <2> HIDE DEF role
  <2>2. SUFFICES ASSUME NEW x \in {"runtime", "sidecar"}, <<x, r>> \in running'
                 PROVE  x \in HasInHand(r)' \/ <<x, r>> \in leaked'
    BY DEF HeldOrLeaked
  <2>3. CASE x = role  BY <2>2, <2>3, <1>7
  <2>4. CASE x # role
    <3>1. runners[r].why = "none"  BY <1>2, RunnerFields DEF GuestsHeld, HoldsNoneAtEnd
    <3> QED  BY <2>1, <2>2, <2>4, <3>1, <1>6, <1>8 DEF HeldOrLeaked, AbruptWhys
  <2> QED  BY <2>3, <2>4
<1>10. StillToStop(r)'
  <2>1. StillToStop(r)  BY RunnerFields DEF GuestsHeld
  <2>2. ASSUME NEW x \in HasInHand(r) \ {role}  PROVE \E i \in DOMAIN Tail(runners[r].todo) : Tail(runners[r].todo)[i] = x
    BY <2>1, <2>2, <1>2, RunnerFields, TailKeeps DEF StillToStop
  <2> QED  BY <2>2, <1>4, <1>5, <1>6 DEF StillToStop
<1>11. HoldsNoneAtEnd(r)'
  BY <1>2, <1>4, <1>5, RunnerFields DEF GuestsHeld, HoldsNoneAtEnd, EndedWhys
<1>12. running' \subseteq running \cup (Roles \X {r})  BY <1>8
<1> QED  BY <1>1, <1>2, <1>4, <1>8, <1>9, <1>10, <1>11, <1>12, RunnerFields, OneRunnerMoves DEF GuestsHeld, new

\* A runner changes its stage without launching or stopping a guest.
LEMMA StageStep ==
    ASSUME LifecycleInv, NEW r \in Pids, NEW new \in RunnerStates,
           runners' = [runners EXCEPT ![r] = new],
           running' = running, leaked' = leaked, tier' = tier, sock' \in 0..MaxRunners,
           new.has = runners[r].has, runners[r].at # "exited", new.at # "exited",
           new.at \in {"stopping", "clean up"} =>
               \A role \in HasInHand(r) : \E i \in DOMAIN new.todo : new.todo[i] = role,
           new.at = "closing" => HasInHand(r) = {},
           new.why = "none"
    PROVE  LifecycleInv'
<1>1. runners'[r] = new  BY RunnerFields
<1>2. HasInHand(r)' = HasInHand(r)  BY <1>1 DEF HasInHand
<1>3. HeldOrLeaked(r)'
  <2>1. runners[r].why = "none"  BY RunnerFields DEF GuestsHeld, HoldsNoneAtEnd
  <2> QED  BY <1>2, <2>1, RunnerFields DEF GuestsHeld, HeldOrLeaked, AbruptWhys
<1>4. StillToStop(r)'  BY <1>1, <1>2 DEF StillToStop
<1>5. HoldsNoneAtEnd(r)'  BY <1>1, <1>2 DEF HoldsNoneAtEnd, EndedWhys
<1>6. running' \subseteq running \cup (Roles \X {r}) /\ leaked \subseteq leaked' /\ leaked' \subseteq Roles \X Pids
  BY RunnerFields
<1> QED  BY <1>3, <1>4, <1>5, <1>6, OneRunnerMoves DEF GuestsHeld

\* A runner exits.
LEMMA ExitStep ==
    ASSUME LifecycleInv, NEW r \in Pids, NEW why \in AbruptWhys \cup EndedWhys, runners[r].at # "exited",
           why \in EndedWhys => HasInHand(r) = {},
           runners' = [runners EXCEPT ![r] = Exit(why)],
           running' \subseteq running, leaked' = leaked, tier' = tier, sock' \in 0..MaxRunners
    PROVE  LifecycleInv'
<1>1. <<>> \in Seq(Roles)  BY EmptyQueue
<1>2. Exit(why) \in RunnerStates /\ Exit(why).at = "exited" /\ Exit(why).why = why /\ Exit(why).has = {}
  BY <1>1 DEF Exit, RunnerStates, NotStarted
<1>3. why # "none"  BY DEF EndedWhys, AbruptWhys
<1>4. runners'[r] = Exit(why)  BY RunnerFields
<1>5. HasInHand(r)' = {}  BY <1>2, <1>4 DEF HasInHand
<1>6. HeldOrLeaked(r)'
  <2>1. runners[r].why = "none"  BY RunnerFields DEF GuestsHeld, HoldsNoneAtEnd
  <2>2. SUFFICES ASSUME why \notin AbruptWhys PROVE HeldOrLeaked(r)'  BY <1>2, <1>4 DEF HeldOrLeaked
  <2>3. HasInHand(r) = {}  BY <2>2
  <2>4. \A role \in {"runtime", "sidecar"} : <<role, r>> \in running => <<role, r>> \in leaked
    BY <2>1, <2>3, RunnerFields DEF GuestsHeld, HeldOrLeaked, AbruptWhys
  <2> QED  BY <2>4 DEF HeldOrLeaked
<1>7. StillToStop(r)' /\ HoldsNoneAtEnd(r)'  BY <1>2, <1>3, <1>4, <1>5 DEF StillToStop, HoldsNoneAtEnd
<1>8. running' \subseteq running \cup (Roles \X {r}) /\ leaked \subseteq leaked' /\ leaked' \subseteq Roles \X Pids
  BY RunnerFields
<1> QED  BY <1>2, <1>6, <1>7, <1>8, OneRunnerMoves DEF GuestsHeld

\* A runner that has stopped its guests holds none.
LEMMA StoppedHoldsNone ==
    ASSUME LifecycleInv, NEW r \in Pids, runners[r].at \in {"stopping", "clean up"}, runners[r].todo = <<>>
    PROVE  HasInHand(r) = {}
BY EmptyQueue, RunnerFields DEF GuestsHeld, StillToStop

\* Ctrl+C: what the runner still holds is to be stopped, the guest whose
\* stopping was cut short is given up.
LEMMA InterruptStep ==
    ASSUME LifecycleInv, NEW r \in Pids, Interrupt(r)
    PROVE  LifecycleInv'
<1> DEFINE cut == IF runners[r].todo = <<>> THEN {} ELSE {Head(runners[r].todo)} \ {"scope"}
           has == runners[r].has \ cut
           new == [runners[r] EXCEPT !.at = "stopping", !.by = "signal", !.failed = FALSE,
                                     !.has = has, !.todo = ShutdownOrder(has)]
<1>1. /\ runners' = [runners EXCEPT ![r] = new]
      /\ leaked' = leaked \cup {<<role, r>> : role \in cut}
      /\ UNCHANGED <<tier, running, sock>>
      /\ runners[r].at \in {"serving", "stopping"}
  BY DEF Interrupt
<1>2. has \in SUBSET Roles /\ cut \in SUBSET Roles  
  <2>1. runners[r].todo \in Seq(Roles) /\ runners[r].has \in SUBSET Roles  BY RunnerFields
  <2>2. runners[r].todo # <<>> => Head(runners[r].todo) \in Roles  BY <2>1
  <2> QED  BY <2>1, <2>2
<1> HIDE DEF cut
<1>3. /\ ShutdownOrder(has) \in Seq(Roles)
      /\ \A x \in has : \E i \in DOMAIN ShutdownOrder(has) : ShutdownOrder(has)[i] = x
  BY <1>2, ShutdownOrderComplete
<1>4. runners[r].why = "none"  BY <1>1, RunnerFields DEF GuestsHeld, HoldsNoneAtEnd
<1>5. /\ new \in RunnerStates /\ new.at = "stopping" /\ new.has = has /\ new.todo = ShutdownOrder(has)
      /\ new.why = "none"
  BY <1>2, <1>3, <1>4, RunnerFields DEF RunnerStates
<1>6. HasInHand(r)' = has \ {"scope"}
  <2> HIDE DEF new
  <2> QED  BY <1>1, <1>5, RunnerFields DEF HasInHand
<1>7. runners'[r] = new  BY <1>1, RunnerFields
<1> HIDE DEF new
<1>8. HeldOrLeaked(r)'
  <2>1. HeldOrLeaked(r)  BY RunnerFields DEF GuestsHeld
  <2> QED  BY <2>1, <1>1, <1>4, <1>6 DEF HeldOrLeaked, HasInHand, AbruptWhys
<1>9. StillToStop(r)'  BY <1>3, <1>5, <1>6, <1>7 DEF StillToStop
<1>10. HoldsNoneAtEnd(r)'  BY <1>5, <1>7 DEF HoldsNoneAtEnd, EndedWhys
<1>11. /\ running' \subseteq running \cup (Roles \X {r}) /\ leaked \subseteq leaked'
       /\ leaked' \subseteq Roles \X Pids
  BY <1>1, <1>2, RunnerFields
<1> QED  BY <1>1, <1>5, <1>8, <1>9, <1>10, <1>11, RunnerFields, OneRunnerMoves DEF GuestsHeld

\* The steps of a runner.
LEMMA RunnerStepKeeps ==
    ASSUME LifecycleInv, NEW r \in Pids, RunnerStep(r)
    PROVE  LifecycleInv'
<1>1. CASE LaunchGuest(r)  BY <1>1, LaunchStep
<1>2. CASE Launched(r)
  <2> DEFINE new == [runners[r] EXCEPT !.at = "wait"]
  <2>1. /\ runners' = [runners EXCEPT ![r] = new] \/ runners' = [runners EXCEPT ![r] = Exit("no bootstrap")]
        /\ UNCHANGED <<tier, running, leaked, sock>>
        /\ runners[r].at = "launch"
    BY <1>2 DEF Launched
  <2>2. new \in RunnerStates /\ new.at = "wait" /\ new.has = runners[r].has /\ new.why = "none"
    BY <2>1, RunnerFields DEF RunnerStates, GuestsHeld, HoldsNoneAtEnd
  <2> HIDE DEF new
  <2>3. CASE runners' = [runners EXCEPT ![r] = new]  BY <2>1, <2>2, <2>3, RunnerFields, StageStep
  <2>4. CASE runners' = [runners EXCEPT ![r] = Exit("no bootstrap")]
    BY <2>1, <2>4, RunnerFields, ExitStep DEF AbruptWhys, EndedWhys
  <2> QED  BY <2>1, <2>3, <2>4
<1>3. CASE BindControl(r)
  <2> DEFINE new == [runners[r] EXCEPT !.at = "serving"]
  <2>1. /\ \/ runners' = [runners EXCEPT ![r] = new] /\ sock' = r
           \/ runners' = [runners EXCEPT ![r] = Exit("not bound")] /\ sock' = sock
        /\ UNCHANGED <<tier, running, leaked>>
        /\ runners[r].at = "bind"
    BY <1>3 DEF BindControl
  <2>2. new \in RunnerStates /\ new.at = "serving" /\ new.has = runners[r].has /\ new.why = "none"
    BY <2>1, RunnerFields DEF RunnerStates, GuestsHeld, HoldsNoneAtEnd
  <2>3. sock' \in 0..MaxRunners
    <3>1. sock \in 0..MaxRunners /\ r \in 0..MaxRunners  BY RunnerFields, RunnersAssumption DEF Pids
    <3> QED  BY <2>1, <3>1
  <2> HIDE DEF new
  <2>4. CASE runners' = [runners EXCEPT ![r] = new]  BY <2>1, <2>2, <2>3, <2>4, StageStep
  <2>5. CASE runners' = [runners EXCEPT ![r] = Exit("not bound")]
    BY <2>1, <2>3, <2>5, ExitStep DEF AbruptWhys, EndedWhys
  <2> QED  BY <2>1, <2>4, <2>5
<1>8. CASE RemoveStale(r)
  <2> DEFINE new == [runners[r] EXCEPT !.at = "bind"]
  <2>1. /\ runners' = [runners EXCEPT ![r] = new] /\ UNCHANGED <<tier, running, leaked>> /\ sock' = 0
        /\ runners[r].at = "wait"
    BY <1>8 DEF RemoveStale
  <2>2. new \in RunnerStates /\ new.at = "bind" /\ new.has = runners[r].has /\ new.why = "none"
    BY <2>1, RunnerFields DEF RunnerStates, GuestsHeld, HoldsNoneAtEnd
  <2>3. sock' \in 0..MaxRunners  BY <2>1, RunnersAssumption
  <2> HIDE DEF new
  <2> QED  BY <2>1, <2>2, <2>3, StageStep
<1>4. CASE StopGuest(r)  BY <1>4, StopStep
<1>5. CASE CleanedUp(r)
  <2>1. HasInHand(r) = {}  BY <1>5, StoppedHoldsNone DEF CleanedUp
  <2> QED  BY <1>5, <2>1, RunnerFields, ExitStep DEF CleanedUp, EndedWhys
<1>6. CASE EndShutdown(r)
  <2>1. HasInHand(r) = {}  BY <1>6, StoppedHoldsNone DEF EndShutdown
  <2> DEFINE closing == [runners[r] EXCEPT !.at = "closing"]
             serving == [runners[r] EXCEPT !.at = "serving", !.by = "nobody", !.failed = FALSE]
  <2>2. /\ \/ runners' = [runners EXCEPT ![r] = closing]
           \/ runners' = [runners EXCEPT ![r] = serving]
           \/ runners' = [runners EXCEPT ![r] = Exit("signal")]
        /\ UNCHANGED <<tier, running, leaked, sock>> /\ runners[r].at = "stopping"
    BY <1>6 DEF EndShutdown
  <2>3. /\ closing \in RunnerStates /\ closing.at = "closing" /\ closing.has = runners[r].has /\ closing.why = "none"
        /\ serving \in RunnerStates /\ serving.at = "serving" /\ serving.has = runners[r].has /\ serving.why = "none"
    BY <2>2, RunnerFields DEF RunnerStates, GuestsHeld, HoldsNoneAtEnd
  <2> HIDE DEF closing, serving
  <2>4. CASE runners' = [runners EXCEPT ![r] = closing]
    BY <2>1, <2>2, <2>3, <2>4, RunnerFields, StageStep DEF EndedWhys
  <2>5. CASE runners' = [runners EXCEPT ![r] = serving]
    BY <2>1, <2>2, <2>3, <2>5, RunnerFields, StageStep DEF EndedWhys
  <2>6. CASE runners' = [runners EXCEPT ![r] = Exit("signal")]
    BY <2>1, <2>2, <2>6, RunnerFields, ExitStep DEF EndedWhys
  <2> QED  BY <2>2, <2>4, <2>5, <2>6
<1>7. CASE RemoveSocket(r)
  <2>1. HasInHand(r) = {}  BY <1>7, RunnerFields DEF RemoveSocket, GuestsHeld, HoldsNoneAtEnd
  <2>2. sock' \in 0..MaxRunners
    <3>1. sock' = 0  BY <1>7 DEF RemoveSocket
    <3> QED  BY <3>1, RunnersAssumption
  <2> QED  BY <1>7, <2>1, <2>2, ExitStep DEF RemoveSocket, EndedWhys
<1> QED  BY <1>1, <1>2, <1>3, <1>4, <1>5, <1>6, <1>7, <1>8 DEF RunnerStep

\* The steps of a command.
LEMMA CommandStepKeeps ==
    ASSUME LifecycleInv, NEW c \in Commanders, CommandStep(c)
    PROVE  LifecycleInv'
<1>0. 0 \in 0..MaxRunners /\ sock \in 0..MaxRunners /\ tier \in Tiers /\ runners \in [Pids -> RunnerStates]
  BY RunnersAssumption DEF LifecycleInv, LifecycleTypeOK
<1>1. CASE ProbeHealth(c)
  <2>1. UNCHANGED <<tier, runners, running, leaked>> /\ (sock' = sock \/ sock' = 0)  BY <1>1 DEF ProbeHealth
  <2> QED  BY <1>0, <2>1, OthersMove
<1>2. CASE SpawnRunner(c)
  <2>1. PICK r \in Pids : StartRunner(r)  BY <1>2 DEF SpawnRunner
  <2> DEFINE new == [runners[r] EXCEPT !.at = "launch", !.todo = LaunchOrder]
  <2>2. /\ runners' = [runners EXCEPT ![r] = new] /\ runners[r].at = "off"
        /\ UNCHANGED <<tier, running, leaked, sock>>
    BY <1>0, <1>2, <2>1 DEF StartRunner, SpawnRunner
  <2>3. LaunchOrder \in Seq(Roles)  BY <1>0, LaunchOrderRoles
  <2>4. new \in RunnerStates /\ new.at = "launch" /\ new.has = runners[r].has /\ new.why = "none"
    BY <2>2, <2>3, RunnerFields DEF RunnerStates, GuestsHeld, HoldsNoneAtEnd
  <2> HIDE DEF new
  <2> QED  BY <1>0, <2>2, <2>4, StageStep DEF EndedWhys
<1>3. CASE SpawnBeyondBound(c)
  <2>1. UNCHANGED <<tier, runners, running, leaked, sock>>  BY <1>3 DEF SpawnBeyondBound
  <2> QED  BY <1>0, <2>1, OthersMove
<1>4. CASE RequestShutdown(c)
  <2>1. UNCHANGED <<tier, running, leaked, sock>>  BY <1>4 DEF RequestShutdown
  <2>2. CASE runners' = runners  BY <1>0, <2>1, <2>2, OthersMove
  <2>3. CASE runners' # runners
    <3> DEFINE new == [runners[sock] EXCEPT !.at = "stopping", !.by = c, !.failed = FALSE,
                                            !.todo = ShutdownOrder(runners[sock].has)]
    <3>1. Serving /\ runners' = [runners EXCEPT ![sock] = new]  BY <1>4, <2>3 DEF RequestShutdown
    <3>2. sock \in Pids /\ runners[sock].at = "serving"  BY <1>0, <3>1, RunnersAssumption DEF Serving, Pids
    <3>3. /\ ShutdownOrder(runners[sock].has) \in Seq(Roles)
          /\ \A x \in runners[sock].has :
               \E i \in DOMAIN ShutdownOrder(runners[sock].has) : ShutdownOrder(runners[sock].has)[i] = x
      BY <3>2, RunnerFields, ShutdownOrderComplete
    <3>4. /\ new \in RunnerStates /\ new.at = "stopping" /\ new.has = runners[sock].has /\ new.why = "none"
          /\ new.todo = ShutdownOrder(runners[sock].has)
      BY <3>2, <3>3, RunnerFields DEF RunnerStates, GuestsHeld, HoldsNoneAtEnd
    <3> HIDE DEF new
    <3>5. \A role \in HasInHand(sock) : \E i \in DOMAIN new.todo : new.todo[i] = role  BY <3>3, <3>4 DEF HasInHand
    <3> QED  BY <1>0, <2>1, <3>1, <3>2, <3>4, <3>5, StageStep DEF EndedWhys
  <2> QED  BY <2>2, <2>3
<1>5. CASE AwaitRemoval(c)
  <2>1. /\ UNCHANGED <<tier, running, leaked>> /\ (sock' = sock \/ sock' = 0)
        /\ runners' = runners \/ runners' = Killed(commands[c].pid)
    BY <1>5 DEF AwaitRemoval
  <2>2. CASE runners' = runners  BY <1>0, <2>1, <2>2, OthersMove
  <2>3. CASE runners' = Killed(commands[c].pid)
    <3> DEFINE p == commands[c].pid
    <3>1. CASE p \in Pids /\ Alive(p)
      <4>1. runners' = [runners EXCEPT ![p] = Exit("killed")]
        BY <1>0, <2>3, <3>1 DEF Killed
      <4> HIDE DEF p
      <4>2. runners[p].at # "exited"  BY <3>1 DEF Alive
      <4> QED  BY <1>0, <2>1, <3>1, <4>1, <4>2, ExitStep DEF EndedWhys, AbruptWhys
    <3>2. CASE ~(p \in Pids /\ Alive(p))
      <4>1. runners' = runners  BY <1>0, <2>3, <3>2 DEF Killed
      <4> QED  BY <1>0, <2>1, <4>1, OthersMove
    <3> QED  BY <3>1, <3>2
  <2> QED  BY <2>1, <2>2, <2>3
<1>6. CASE AwaitHealth(c)
  <2>1. UNCHANGED <<tier, runners, running, leaked, sock>>  BY <1>6 DEF AwaitHealth
  <2> QED  BY <1>0, <2>1, OthersMove
<1>7. CASE AwaitEndpoint(c)
  <2>1. UNCHANGED <<tier, runners, running, leaked, sock>>  BY <1>7 DEF AwaitEndpoint
  <2> QED  BY <1>0, <2>1, OthersMove
<1>8. CASE ReadEndpoint(c)
  <2>1. UNCHANGED <<tier, runners, running, leaked, sock>>  BY <1>8 DEF ReadEndpoint
  <2> QED  BY <1>0, <2>1, OthersMove
<1>9. CASE ProbeGateway(c)
  <2>1. UNCHANGED <<tier, runners, running, leaked, sock>>  BY <1>9 DEF ProbeGateway
  <2> QED  BY <1>0, <2>1, OthersMove
<1> QED  BY <1>1, <1>2, <1>3, <1>4, <1>5, <1>6, <1>7, <1>8, <1>9 DEF CommandStep

LEMMA LifecycleStepKeeps == LifecycleInv /\ [LifecycleNext]_lifecycleVars => LifecycleInv'
<1> SUFFICES ASSUME LifecycleInv, [LifecycleNext]_lifecycleVars PROVE LifecycleInv'  OBVIOUS
<1>0. sock \in 0..MaxRunners  BY DEF LifecycleInv, LifecycleTypeOK
<1>1. CASE UNCHANGED lifecycleVars
  <2>1. UNCHANGED <<tier, runners, running, leaked, sock>>  BY <1>1 DEF lifecycleVars
  <2> QED  BY <1>0, <2>1, OthersMove
<1>2. ASSUME NEW r \in Pids, RunnerStep(r)  PROVE LifecycleInv'  BY <1>2, RunnerStepKeeps
<1>3. ASSUME NEW r \in Pids, PublishEndpoint(r)  PROVE LifecycleInv'
  <2>1. UNCHANGED <<tier, runners, running, leaked, sock>>  BY <1>3 DEF PublishEndpoint
  <2> QED  BY <1>0, <2>1, OthersMove
<1>4. ASSUME NEW r \in Pids, Interrupt(r)  PROVE LifecycleInv'  BY <1>4, InterruptStep
<1>5. ASSUME NEW r \in Pids, ClientVanishes(r)  PROVE LifecycleInv'
  BY <1>0, <1>5, ExitStep DEF ClientVanishes, EndedWhys, AbruptWhys
<1>8. ASSUME NEW r \in Pids, InterruptEarly(r)  PROVE LifecycleInv'
  <2>1. /\ runners' = [runners EXCEPT ![r] = Exit("interrupted early")]
        /\ UNCHANGED <<tier, leaked, sock>> /\ runners[r].at # "exited"
    BY <1>8 DEF InterruptEarly
  <2>2. running' \subseteq running  BY <1>8 DEF InterruptEarly, SignalLeaves
  <2> QED  BY <1>0, <1>8, <2>1, <2>2, ExitStep DEF EndedWhys, AbruptWhys
<1>6. ASSUME NEW c \in Commanders, BeginCommand(c) \/ ConnectTui(c)  PROVE LifecycleInv'
  <2>1. UNCHANGED <<tier, runners, running, leaked, sock>>  BY <1>6 DEF BeginCommand, ConnectTui
  <2> QED  BY <1>0, <2>1, OthersMove
<1>7. ASSUME NEW c \in Commanders, CommandStep(c)  PROVE LifecycleInv'  BY <1>7, CommandStepKeeps
<1> QED  BY <1>1, <1>2, <1>3, <1>4, <1>5, <1>6, <1>7, <1>8 DEF LifecycleNext, OutsideStep

\* The guests of a runner that did not end abruptly and that run are held by it, or
\* their stopping has failed (start_user_for_host, RunnerLaunchHandle::shutdown_async, run_daemon).
THEOREM LifecycleInvariant == LifecycleSpec => []LifecycleInv
<1>1. LifecycleInit => LifecycleInv  BY LifecycleStarts
<1>2. LifecycleInv /\ [LifecycleNext]_lifecycleVars => LifecycleInv'  BY LifecycleStepKeeps
<1> QED  BY <1>1, <1>2, PTL DEF LifecycleSpec

\* In every tier, with any number of runners and commands, a runner whose
\* launch failed, that was shut down, or interrupted once it served, leaves no
\* runtime and no sidecar running but those whose stopping failed or was cut short;
\* an end before that, a vanished client and a kill are the exceptions.
THEOREM RunnersLeaveNothing == LifecycleSpec => []EndedRunnersLeaveNothing
<1>1. LifecycleInv => EndedRunnersLeaveNothing
  <2> SUFFICES ASSUME LifecycleInv, NEW r \in Pids, runners[r].why \in EndedWhys
               PROVE  \A role \in {"runtime", "sidecar"} : <<role, r>> \in running => <<role, r>> \in leaked
    BY DEF EndedRunnersLeaveNothing, EndedWhys
  <2>1. runners[r].why \notin AbruptWhys  BY DEF EndedWhys, AbruptWhys
  <2> QED  BY <2>1, RunnerFields DEF GuestsHeld, HeldOrLeaked, HoldsNoneAtEnd
<1> QED  BY <1>1, LifecycleInvariant, PTL

-----------------------------------------------------------------------------
(* ConfigFiles.                                                             *)

\* A configuration that can be read is not part of one.
LEMMA ConfRecFields ==
    ASSUME NEW c \in ConfRecs
    PROVE  /\ c # Partial /\ c.version \in {"1.0.0", "1.0.1"} /\ c.field \in {0, 1}
           /\ c.users \in [ConfUsers -> ConfPathOrNone]
BY DEF ConfRecs, Partial

\* What a request is made of, once it has begun.
LEMMA RequestFields ==
    ASSUME NEW q \in RequestRecs \cup {Waiting}, q.at # "new"
    PROVE  q \in RequestRecs
BY DEF Waiting

\* NoPath is no path.
LEMMA NoPathApart == NoPath \notin ConfPaths /\ NoPath \in ConfPathOrNone /\ ConfPaths \subseteq ConfPathOrNone
BY ConfBounds DEF NoPath, ConfPathOrNone

\* Another registration of one user gives again a configuration.
LEMMA PatchedType ==
    ASSUME NEW c \in ConfRecs, NEW q \in RequestRecs
    PROVE  /\ Patched(c, q) \in ConfRecs
           /\ \A u \in ConfUsers :
                Patched(c, q).users[u] = IF u \in DOMAIN q.set THEN q.set[u] ELSE c.users[u]
<1>1. PICK D \in SUBSET ConfUsers : q.set \in [D -> ConfPathOrNone]
  BY DEF RequestRecs, Settings
<1>2. [u \in ConfUsers |-> IF u \in DOMAIN q.set THEN q.set[u] ELSE c.users[u]]
        \in [ConfUsers -> ConfPathOrNone]
  BY <1>1, ConfRecFields
<1>3. (IF q.op = "patch" THEN 1 - c.field ELSE c.field) \in {0, 1}
  BY ConfRecFields
<1> QED
  BY <1>2, <1>3 DEF Patched, ConfRecs

\* What is planned of a request is not changed by its steps.
SamePlan(p, q) == p.op = q.op /\ p.set = q.set /\ p.from = q.from /\ p.to = q.to

\* The steps of a request.
RequestSteps == {"write_user_file", "prepare", "move", "back_up", "write", "prune", "persisted", "undo",
                 "migrate", "migrate_write", "done", "failed"}

LEMMA RequestParts ==
    ASSUME NEW q \in RequestRecs
    PROVE  /\ q.op \in {"create", "rename", "delete", "patch", "migrate"} /\ q.at \in RequestSteps
           /\ q.set \in Settings /\ q.from \in ConfPathOrNone /\ q.to \in ConfPathOrNone
           /\ q.new \in ConfRecs \cup {Partial} /\ q.changed \in BOOLEAN
           /\ q.bak \in ConfRecs \cup {Partial} /\ q.moved \in BOOLEAN
           /\ q.at # "new"
BY DEF RequestRecs, RequestSteps

\* A request that goes on.
LEMMA RequestGoes ==
    ASSUME ConfTypes, NEW r \in ConfRequests, requests[r].at # "new", NEW step \in RequestSteps, Goes(r, step)
    PROVE  \E p \in RequestRecs :
             /\ requests' = [requests EXCEPT ![r] = p]
             /\ p.at = step /\ SamePlan(p, requests[r]) /\ p.moved = requests[r].moved
             /\ p.new = requests[r].new /\ p.changed = requests[r].changed /\ p.bak = requests[r].bak
<1>1. requests[r] \in RequestRecs
  BY RequestFields DEF ConfTypes
<1> DEFINE p == [requests[r] EXCEPT !.at = step]
<1>2. p \in RequestRecs
  BY <1>1 DEF RequestRecs, RequestSteps
<1>3. requests' = [requests EXCEPT ![r] = p]
  BY DEF Goes
<1>4. /\ p.at = step /\ SamePlan(p, requests[r]) /\ p.moved = requests[r].moved
      /\ p.new = requests[r].new /\ p.changed = requests[r].changed /\ p.bak = requests[r].bak
  BY <1>1 DEF RequestRecs, SamePlan
<1> QED
  BY <1>2, <1>3, <1>4

\* A request moves alone: the others are idle, or some were not before.
LEMMA OneMoves ==
    ASSUME ConfInv, conf' \in ConfRecs \cup {Partial}, userFiles' \in [ConfPaths -> BOOLEAN],
           backups' \in Seq(ConfRecs \cup {Partial}),
           NEW r \in ConfRequests, Busy(r), NEW p \in RequestRecs, requests' = [requests EXCEPT ![r] = p],
           clean' = clean \/ clean' = FALSE,
           clean' => IF p.at \in {"done", "failed"} THEN Fits(conf', userFiles')
                     ELSE Underway(p, conf', userFiles', backups')
    PROVE  ConfInv'
<1>1. requests \in [ConfRequests -> RequestRecs \cup {Waiting}] /\ clean \in BOOLEAN
  BY DEF ConfInv, ConfTypes
<1>2. requests' \in [ConfRequests -> RequestRecs \cup {Waiting}] /\ requests'[r] = p
      /\ \A q \in ConfRequests : q # r => requests'[q] = requests[q]
  BY <1>1
<1>3. ConfTypes'
  BY <1>1, <1>2 DEF ConfTypes
<1>4. ASSUME clean' PROVE \A q \in ConfRequests : q # r => ~Busy(q) /\ ~Busy(q)'
  BY <1>2, <1>4 DEF ConfInv, Busy
<1>5. Busy(r)' <=> p.at \notin {"done", "failed"}
  BY <1>2, RequestParts DEF Busy
<1>6. ASSUME clean' PROVE \A q, t \in ConfRequests : Busy(q)' /\ Busy(t)' => q = t
  BY <1>4, <1>6
<1>7. ASSUME clean', NEW q \in ConfRequests, Busy(q)'
      PROVE  Underway(requests[q], conf, userFiles, backups)'
  <2>1. q = r
    BY <1>4, <1>7
  <2> QED
    BY <2>1, <1>2, <1>5, <1>7
<1>8. ASSUME clean', \A q \in ConfRequests : ~Busy(q)' PROVE Fits(conf, userFiles)'
  BY <1>5, <1>8
<1> QED
  BY <1>3, <1>6, <1>7, <1>8 DEF ConfInv

\* A request begins, alone if the requests are still in order.
LEMMA OneBegins ==
    ASSUME ConfInv, NEW r \in ConfRequests, NEW p \in RequestRecs, Begin(r, p),
           p.at \notin {"done", "failed"}, Fits(conf, userFiles) => Underway(p, conf, userFiles, backups)
    PROVE  ConfInv'
<1>1. requests \in [ConfRequests -> RequestRecs \cup {Waiting}] /\ clean \in BOOLEAN
  BY DEF ConfInv, ConfTypes
<1>2. requests' \in [ConfRequests -> RequestRecs \cup {Waiting}] /\ requests'[r] = p
      /\ \A q \in ConfRequests : q # r => requests'[q] = requests[q]
  BY <1>1 DEF Begin
<1>3. clean' \in BOOLEAN /\ (clean' => Fits(conf, userFiles) /\ \A q \in ConfRequests : ~Busy(q))
  BY DEF Begin, Fits
<1>4. ConfTypes'
  BY <1>2, <1>3 DEF ConfTypes, Begin, ConfInv
<1>5. Busy(r)'
  BY <1>2, RequestParts DEF Busy
<1>6. ASSUME clean' PROVE \A q \in ConfRequests : q # r => ~Busy(q)'
  BY <1>2, <1>3, <1>6 DEF Busy
<1>7. ASSUME clean' PROVE \A q, t \in ConfRequests : Busy(q)' /\ Busy(t)' => q = t
  BY <1>6, <1>7
<1>8. ASSUME clean' PROVE Underway(p, conf, userFiles, backups)
  BY <1>3, <1>8
<1>9. ASSUME clean', NEW q \in ConfRequests, Busy(q)'
      PROVE  Underway(requests[q], conf, userFiles, backups)'
  <2>1. q = r
    BY <1>6, <1>9
  <2>2. conf' = conf /\ userFiles' = userFiles /\ backups' = backups
    BY DEF Begin
  <2> QED
    BY <2>1, <2>2, <1>2, <1>8, <1>9
<1> QED
  BY <1>4, <1>5, <1>7, <1>9 DEF ConfInv

\* What a plan does to files and configuration.
LEMMA PlanDecides ==
    ASSUME NEW p \in RequestRecs, NEW q \in RequestRecs, SamePlan(p, q), NEW files
    PROVE  /\ FilesFinished(p, files) = FilesFinished(q, files) /\ Moves(p, files) = Moves(q, files)
           /\ \A c : Patched(c, p) = Patched(c, q)
           /\ p.moved = q.moved => FilesUndone(p, files) = FilesUndone(q, files)
BY DEF SamePlan, FilesFinished, Moves, Patched, FilesUndone

LEMMA WriteStaysReady ==
    ASSUME NEW p \in RequestRecs, NEW q \in RequestRecs, SamePlan(p, q), p.moved = q.moved,
           NEW c, NEW new, NEW files, ReadyToWrite(q, c, new, files)
    PROVE  ReadyToWrite(p, c, new, files)
BY PlanDecides DEF ReadyToWrite, SamePlan

\* The request whose file has been moved.
LEMMA MovedRequest ==
    ASSUME NEW q \in RequestRecs, NEW m \in BOOLEAN
    PROVE  /\ [q EXCEPT !.moved = m] \in RequestRecs /\ SamePlan([q EXCEPT !.moved = m], q)
           /\ [q EXCEPT !.moved = m].moved = m
BY DEF RequestRecs, SamePlan

LEMMA MovesType ==
    ASSUME NEW q, NEW files
    PROVE  Moves(q, files) \in BOOLEAN
BY DEF Moves

LEMMA MoveStaysReady ==
    ASSUME NEW p \in RequestRecs, NEW q \in RequestRecs, SamePlan(p, q), q.from \in ConfPaths,
           NEW c, NEW new, NEW files \in [ConfPaths -> BOOLEAN], ReadyToMove(q, c, new, files)
    PROVE  ReadyToMove(p, c, new, files)
<1>1. Moves(p, files) = Moves(q, files) /\ Moves(q, files) \in BOOLEAN /\ p.from = q.from /\ p.to = q.to
  BY PlanDecides, MovesType DEF SamePlan
<1>2. SamePlan([p EXCEPT !.moved = Moves(p, files)], [q EXCEPT !.moved = Moves(q, files)])
  BY <1>1, MovedRequest DEF SamePlan
<1>3. ReadyToWrite([p EXCEPT !.moved = Moves(p, files)], c, new,
                   IF Moves(p, files) THEN FilesMoved(files, p.from, p.to) ELSE files)
  BY <1>1, <1>2, MovedRequest, WriteStaysReady DEF ReadyToMove
<1> QED
  BY <1>3 DEF ReadyToMove

LEMMA PrepareStaysReady ==
    ASSUME NEW p \in RequestRecs, NEW q \in RequestRecs, SamePlan(p, q), p.moved = q.moved,
           q.op = "rename" => q.from \in ConfPaths,
           NEW c, NEW files \in [ConfPaths -> BOOLEAN], ReadyToPrepare(q, c, files)
    PROVE  ReadyToPrepare(p, c, files)
<1>1. p.op = q.op /\ Patched(c, p) = Patched(c, q)
  BY PlanDecides DEF SamePlan
<1>2. CASE q.op = "rename"
  BY <1>1, <1>2, MoveStaysReady DEF ReadyToPrepare
<1>3. CASE q.op # "rename"
  BY <1>1, <1>3, WriteStaysReady DEF ReadyToPrepare
<1> QED
  BY <1>2, <1>3

\* Only the users of a configuration need files.
LEMMA UsersFit ==
    ASSUME NEW c, NEW d, d # Partial, c # Partial, d.users = c.users, NEW files, Fits(d, files)
    PROVE  Fits(c, files)
BY DEF Fits

\* More files fit as well.
LEMMA MoreFilesFit ==
    ASSUME NEW c \in ConfRecs \cup {Partial}, NEW files, NEW more, Fits(c, files),
           \A x \in ConfPaths : files[x] => more[x]
    PROVE  Fits(c, more)
<1>1. CASE c = Partial
  BY <1>1 DEF Fits
<1>2. CASE c \in ConfRecs
  <2>1. c # Partial /\ \A u \in ConfUsers : c.users[u] \in ConfPathOrNone
    BY <1>2, ConfRecFields
  <2>2. ASSUME NEW u \in ConfUsers, c.users[u] # NoPath PROVE more[c.users[u]]
    BY <2>1, <2>2 DEF Fits, ConfPathOrNone
  <2> QED
    BY <2>1, <2>2 DEF Fits
<1> QED
  BY <1>1, <1>2

\* A user that is created.
LEMMA CreateReady ==
    ASSUME NEW c \in ConfRecs, NEW files \in [ConfPaths -> BOOLEAN], Fits(c, files),
           NEW q \in RequestRecs, NEW u \in ConfUsers, NEW p \in ConfPaths,
           q.op = "create", q.set = [v \in {u} |-> p], q.to = p, c.users[u] = NoPath, ~files[p]
    PROVE  ReadyToPrepare(q, c, [files EXCEPT ![p] = TRUE])
<1> DEFINE made == [files EXCEPT ![p] = TRUE]
           new == Patched(c, q)
<1>1. made \in [ConfPaths -> BOOLEAN] /\ made[p] /\ \A x \in ConfPaths : files[x] => made[x]
  OBVIOUS
<1>2. new \in ConfRecs /\ new # Partial
      /\ \A v \in ConfUsers : new.users[v] = IF v = u THEN p ELSE c.users[v]
  BY PatchedType, ConfRecFields
<1>3. /\ \A v \in ConfUsers : c.users[v] \in ConfPathOrNone
      /\ \A v \in ConfUsers : c.users[v] # NoPath => files[c.users[v]]
      /\ \A v, w \in ConfUsers : c.users[v] = c.users[w] /\ c.users[v] # NoPath => v = w
  BY ConfRecFields DEF Fits
<1>4. FilesUndone(q, made) = files
  BY DEF FilesUndone
<1>5. FilesFinished(q, made) = made
  BY DEF FilesFinished
<1>6. Fits(new, made)
  <2>1. ASSUME NEW v \in ConfUsers, new.users[v] # NoPath PROVE made[new.users[v]]
    BY <2>1, <1>1, <1>2, <1>3 DEF ConfPathOrNone
  <2>2. ASSUME NEW v \in ConfUsers, NEW w \in ConfUsers, new.users[v] = new.users[w], new.users[v] # NoPath
        PROVE  v = w
    BY <2>2, <1>2, <1>3
  <2> QED
    BY <2>1, <2>2 DEF Fits
<1> QED
  BY <1>4, <1>5, <1>6 DEF ReadyToPrepare, ReadyToWrite

\* A user that is deleted.
LEMMA DeleteReady ==
    ASSUME NEW c \in ConfRecs, NEW files \in [ConfPaths -> BOOLEAN], Fits(c, files),
           NEW q \in RequestRecs, NEW u \in ConfUsers, q.op = "delete", q.moved = FALSE,
           q.set = [v \in {u} |-> NoPath], c.users[u] # NoPath, q.from = c.users[u]
    PROVE  ReadyToPrepare(q, c, files)
<1> DEFINE dropped == [files EXCEPT ![q.from] = FALSE]
           new == Patched(c, q)
<1>2. new \in ConfRecs /\ new # Partial
      /\ \A v \in ConfUsers : new.users[v] = IF v = u THEN NoPath ELSE c.users[v]
  BY PatchedType, ConfRecFields
<1>3. /\ \A v \in ConfUsers : c.users[v] \in ConfPathOrNone
      /\ \A v \in ConfUsers : c.users[v] # NoPath => files[c.users[v]]
      /\ \A v, w \in ConfUsers : c.users[v] = c.users[w] /\ c.users[v] # NoPath => v = w
  BY ConfRecFields DEF Fits
<1>4. FilesUndone(q, files) = files /\ FilesFinished(q, files) = dropped
  BY DEF FilesUndone, FilesFinished
<1>5. Fits(new, files)
  BY <1>2, <1>3 DEF Fits
<1>6. Fits(new, dropped)
  <2>1. ASSUME NEW v \in ConfUsers, new.users[v] # NoPath PROVE dropped[new.users[v]]
    <3>1. v # u /\ new.users[v] = c.users[v] /\ c.users[v] # q.from
      BY <2>1, <1>2, <1>3
    <3>2. c.users[v] \in ConfPaths /\ files[c.users[v]]
      BY <2>1, <3>1, <1>3 DEF ConfPathOrNone
    <3> QED
      BY <3>1, <3>2
  <2>2. ASSUME NEW v \in ConfUsers, NEW w \in ConfUsers, new.users[v] = new.users[w], new.users[v] # NoPath
        PROVE  v = w
    BY <2>2, <1>2, <1>3
  <2> QED
    BY <2>1, <2>2 DEF Fits
<1> QED
  BY <1>4, <1>5, <1>6 DEF ReadyToPrepare, ReadyToWrite

\* A field that is patched.
LEMMA PatchReady ==
    ASSUME NEW c \in ConfRecs, NEW files, Fits(c, files), NEW q \in RequestRecs,
           q.op = "patch", q.moved = FALSE, q.set = NoUser
    PROVE  ReadyToPrepare(q, c, files)
<1>1. Patched(c, q) \in ConfRecs /\ Patched(c, q) # Partial /\ c # Partial
      /\ \A v \in ConfUsers : Patched(c, q).users[v] = c.users[v]
  BY PatchedType, ConfRecFields DEF NoUser
<1>2. Patched(c, q).users = c.users
  BY <1>1, ConfRecFields
<1>3. FilesUndone(q, files) = files /\ FilesFinished(q, files) = files
  BY DEF FilesUndone, FilesFinished
<1> QED
  BY <1>1, <1>2, <1>3, UsersFit DEF ReadyToPrepare, ReadyToWrite

\* A file that was moved, and is moved back.
LEMMA MovedBack ==
    ASSUME NEW files \in [ConfPaths -> BOOLEAN], NEW a \in ConfPaths, NEW b \in ConfPaths,
           a # b, files[a], ~files[b]
    PROVE  FilesMoved(FilesMoved(files, a, b), b, a) = files
<1> DEFINE g == FilesMoved(files, a, b)
           h == FilesMoved(g, b, a)
<1>1. g \in [ConfPaths -> BOOLEAN] /\ \A x \in ConfPaths : x \notin {a, b} => g[x] = files[x]
  BY DEF FilesMoved
<1>2. h \in [ConfPaths -> BOOLEAN] /\ h[a] = TRUE /\ h[b] = FALSE
      /\ \A x \in ConfPaths : x \notin {a, b} => h[x] = g[x]
  BY <1>1 DEF FilesMoved
<1> HIDE DEF g, h
<1>3. ASSUME NEW x \in ConfPaths PROVE h[x] = files[x]
  <2>1. files[a] = TRUE /\ files[b] = FALSE
    OBVIOUS
  <2> QED
    BY <1>1, <1>2, <2>1
<1>4. h = files
  BY <1>2, <1>3
<1> QED
  BY <1>4 DEF h, g

\* A user that is renamed, moved or both.
LEMMA RenameReady ==
    ASSUME NEW c \in ConfRecs, NEW files \in [ConfPaths -> BOOLEAN], Fits(c, files),
           NEW q \in RequestRecs, NEW u \in ConfUsers, NEW v \in ConfUsers, NEW p \in ConfPaths,
           q.op = "rename", q.set = [w \in {u, v} |-> IF w = v THEN p ELSE NoPath],
           c.users[u] # NoPath, v # u => c.users[v] = NoPath, p # c.users[u] => ~files[p],
           q.from = c.users[u], q.to = p
    PROVE  ReadyToPrepare(q, c, files) /\ q.from \in ConfPaths
<1> DEFINE moves == Moves(q, files)
           after == IF moves THEN FilesMoved(files, q.from, q.to) ELSE files
           m == [q EXCEPT !.moved = moves]
           new == Patched(c, q)
<1>2. new \in ConfRecs /\ new # Partial
      /\ \A w \in ConfUsers : new.users[w] = IF w = v THEN p ELSE IF w = u THEN NoPath ELSE c.users[w]
  BY PatchedType, ConfRecFields
<1>3. /\ \A w \in ConfUsers : c.users[w] \in ConfPathOrNone
      /\ \A w \in ConfUsers : c.users[w] # NoPath => files[c.users[w]]
      /\ \A w, x \in ConfUsers : c.users[w] = c.users[x] /\ c.users[w] # NoPath => w = x
  BY ConfRecFields DEF Fits
<1>4. q.from \in ConfPaths /\ files[q.from]
  BY <1>3 DEF ConfPathOrNone
<1>5. moves <=> q.from # p
  BY <1>4 DEF Moves
<1>6. moves \in BOOLEAN /\ m \in RequestRecs /\ m.op = "rename" /\ m.from = q.from /\ m.to = p /\ m.moved = moves
  BY <1>4, MovesType, MovedRequest DEF SamePlan
<1>7. after \in [ConfPaths -> BOOLEAN] /\ after[p]
      /\ \A x \in ConfPaths : x # q.from => (files[x] => after[x])
  BY <1>4, <1>5 DEF FilesMoved
<1>8. FilesFinished(m, after) = after
  BY <1>6 DEF FilesFinished
<1>9. FilesUndone(m, after) = files
  <2>1. CASE moves
    <3>1. ~files[p] /\ after = FilesMoved(files, q.from, p)
      BY <2>1, <1>5
    <3>2. FilesUndone(m, after) = FilesMoved(after, p, q.from)
      BY <2>1, <1>6, <1>7 DEF FilesUndone
    <3>3. FilesMoved(after, p, q.from) = files
      BY <3>1, <1>4, <1>5, <2>1, MovedBack
    <3> QED
      BY <3>2, <3>3
  <2>2. CASE ~moves
    BY <2>2, <1>6 DEF FilesUndone
  <2> QED
    BY <2>1, <2>2, <1>6
<1>10. Fits(new, after)
  <2>1. ASSUME NEW w \in ConfUsers, new.users[w] # NoPath PROVE after[new.users[w]]
    <3>1. CASE w = v
      BY <3>1, <1>2, <1>7
    <3>2. CASE w # v
      <4>1. w # u /\ new.users[w] = c.users[w] /\ c.users[w] # q.from
        BY <3>2, <2>1, <1>2, <1>3
      <4>2. c.users[w] \in ConfPaths /\ files[c.users[w]]
        BY <2>1, <4>1, <1>3 DEF ConfPathOrNone
      <4> QED
        BY <4>1, <4>2, <1>7
    <3> QED
      BY <3>1, <3>2
  <2>2. ASSUME NEW w \in ConfUsers, NEW x \in ConfUsers, new.users[w] = new.users[x], new.users[w] # NoPath
        PROVE  w = x
    <3>1. ASSUME NEW y \in ConfUsers, y # u, y # v, c.users[y] = p PROVE FALSE
      BY <3>1, <1>3, NoPathApart
    <3> QED
      BY <2>2, <3>1, <1>2, <1>3
  <2> QED
    BY <2>1, <2>2 DEF Fits
<1> HIDE DEF moves, after, m, new
<1>11. ReadyToWrite(m, c, new, after)
  BY <1>6, <1>8, <1>9, <1>10 DEF ReadyToWrite
<1>12. ReadyToMove(q, c, new, files)
  BY <1>11 DEF ReadyToMove, moves, after, m
<1> QED
  BY <1>4, <1>12 DEF ReadyToPrepare, new

\* A request that has begun, and where it stands if the requests are in order.
LEMMA RequestStands ==
    ASSUME ConfInv, NEW r \in ConfRequests, NEW step \in RequestSteps \ {"done", "failed"}, requests[r].at = step
    PROVE  /\ Busy(r) /\ requests[r] \in RequestRecs /\ requests[r].at # "new"
           /\ clean => Underway(requests[r], conf, userFiles, backups)
           /\ conf \in ConfRecs \cup {Partial} /\ userFiles \in [ConfPaths -> BOOLEAN]
           /\ backups \in Seq(ConfRecs \cup {Partial}) /\ clean \in BOOLEAN /\ ConfTypes
<1>1. Busy(r) /\ requests[r].at # "new"
  BY DEF Busy, RequestSteps
<1> QED
  BY <1>1, RequestFields DEF ConfInv, ConfTypes

LEMMA BeginSteps ==
    ASSUME ConfInv, NEW r \in ConfRequests, CreateUser(r) \/ RenameUser(r) \/ DeleteUser(r) \/ PatchConfig(r)
                                            \/ ReadToMigrate(r)
    PROVE  ConfInv'
<1>1. conf \in ConfRecs \cup {Partial} /\ userFiles \in [ConfPaths -> BOOLEAN] /\ ConfTypes
  BY DEF ConfInv, ConfTypes
<1>2. Current => conf \in ConfRecs /\ conf # Partial
  BY <1>1, ConfRecFields DEF Current, Readable
<1>3. \A u \in ConfUsers, x \in ConfPathOrNone : [v \in {u} |-> x] \in Settings
  <2> TAKE u \in ConfUsers, x \in ConfPathOrNone
  <2>1. [v \in {u} |-> x] \in [{u} -> ConfPathOrNone] /\ {u} \in SUBSET ConfUsers
    OBVIOUS
  <2> QED
    BY <2>1 DEF Settings
<1>4. NoUser \in Settings
  BY DEF NoUser, Settings
<1>5. CASE CreateUser(r)
  <2>1. PICK u \in ConfUsers, p \in ConfPaths :
          /\ conf.users[u] = NoPath /\ ~userFiles[p]
          /\ Begin(r, Request("create", "write_user_file", [v \in {u} |-> p], NoPath, p))
    BY <1>5 DEF CreateUser
  <2> DEFINE q == Request("create", "write_user_file", [v \in {u} |-> p], NoPath, p)
  <2>2. q \in RequestRecs /\ q.op = "create" /\ q.at = "write_user_file" /\ q.set = [v \in {u} |-> p] /\ q.to = p
        /\ q.moved = FALSE
    BY <1>1, <1>3, NoPathApart DEF Request, RequestRecs
  <2>3. Current /\ Begin(r, q)
    BY <1>5, <2>1 DEF CreateUser
  <2> HIDE DEF q
  <2>4. Fits(conf, userFiles) => Underway(q, conf, userFiles, backups)
    BY <1>1, <1>2, <2>1, <2>2, <2>3, CreateReady DEF Underway
  <2> QED
    BY <2>2, <2>3, <2>4, OneBegins
<1>6. CASE RenameUser(r)
  <2>1. PICK u \in ConfUsers, v \in ConfUsers, p \in ConfPaths :
          /\ conf.users[u] # NoPath /\ (v # u => conf.users[v] = NoPath)
          /\ p # conf.users[u] => ~userFiles[p]
          /\ Begin(r, Request("rename", "prepare", [w \in {u, v} |-> IF w = v THEN p ELSE NoPath],
                              conf.users[u], p))
    BY <1>6 DEF RenameUser
  <2> DEFINE set == [w \in {u, v} |-> IF w = v THEN p ELSE NoPath]
             q == Request("rename", "prepare", set, conf.users[u], p)
  <2>2. set \in Settings
    <3>1. set \in [{u, v} -> ConfPathOrNone] /\ {u, v} \in SUBSET ConfUsers
      BY NoPathApart
    <3> QED
      BY <3>1 DEF Settings
  <2>3. Current /\ Begin(r, q)
    BY <1>6, <2>1 DEF RenameUser
  <2>4. conf.users[u] \in ConfPathOrNone
    BY <1>2, <2>3, ConfRecFields
  <2>5. q \in RequestRecs /\ q.op = "rename" /\ q.at = "prepare" /\ q.set = set /\ q.from = conf.users[u]
        /\ q.to = p /\ q.moved = FALSE
    BY <1>1, <2>2, <2>4, NoPathApart DEF Request, RequestRecs
  <2> HIDE DEF q
  <2>6. Fits(conf, userFiles) => Underway(q, conf, userFiles, backups)
    BY <1>1, <1>2, <2>1, <2>3, <2>5, RenameReady DEF Underway
  <2> QED
    BY <2>3, <2>5, <2>6, OneBegins
<1>7. CASE DeleteUser(r)
  <2>1. PICK u \in ConfUsers :
          /\ conf.users[u] # NoPath
          /\ Begin(r, Request("delete", "prepare", [v \in {u} |-> NoPath], conf.users[u], NoPath))
    BY <1>7 DEF DeleteUser
  <2> DEFINE q == Request("delete", "prepare", [v \in {u} |-> NoPath], conf.users[u], NoPath)
  <2>3. Current /\ Begin(r, q)
    BY <1>7, <2>1 DEF DeleteUser
  <2>4. conf.users[u] \in ConfPathOrNone
    BY <1>2, <2>3, ConfRecFields
  <2>5. q \in RequestRecs /\ q.op = "delete" /\ q.at = "prepare" /\ q.set = [v \in {u} |-> NoPath]
        /\ q.from = conf.users[u] /\ q.moved = FALSE
    BY <1>1, <1>3, <2>4, NoPathApart DEF Request, RequestRecs
  <2> HIDE DEF q
  <2>6. Fits(conf, userFiles) => Underway(q, conf, userFiles, backups)
    BY <1>1, <1>2, <2>1, <2>3, <2>5, DeleteReady DEF Underway
  <2> QED
    BY <2>3, <2>5, <2>6, OneBegins
<1>8. CASE PatchConfig(r)
  <2> DEFINE q == Request("patch", "prepare", NoUser, NoPath, NoPath)
  <2>1. q \in RequestRecs /\ q.op = "patch" /\ q.at = "prepare" /\ q.set = NoUser /\ q.moved = FALSE
    BY <1>1, <1>4, NoPathApart DEF Request, RequestRecs
  <2>2. Begin(r, q)
    BY <1>8 DEF PatchConfig
  <2> HIDE DEF q
  <2>3. Fits(conf, userFiles) => ReadyToPrepare(q, conf, userFiles)
    <3>1. CASE conf = Partial
      BY <3>1 DEF ReadyToPrepare
    <3>2. CASE conf \in ConfRecs
      BY <3>2, <2>1, PatchReady
    <3> QED
      BY <3>1, <3>2, <1>1
  <2>4. Fits(conf, userFiles) => Underway(q, conf, userFiles, backups)
    BY <2>1, <2>3 DEF Underway
  <2> QED
    BY <2>1, <2>2, <2>4, OneBegins
<1>9. CASE ReadToMigrate(r)
  <2> DEFINE p == Request("migrate", "migrate", NoUser, NoPath, NoPath)
             new == [conf EXCEPT !.version = "1.0.1"]
             q == [p EXCEPT !.new = new]
  <2>1. conf \in ConfRecs /\ conf # Partial /\ Begin(r, q)
    BY <1>1, <1>9 DEF ReadToMigrate, Readable
  <2>2. new \in ConfRecs /\ new.users = conf.users /\ new # Partial
    BY <2>1, ConfRecFields DEF ConfRecs
  <2>3. p \in RequestRecs /\ p.op = "migrate" /\ p.at = "migrate"
    BY <1>1, <1>4, NoPathApart DEF Request, RequestRecs
  <2> HIDE DEF p, new
  <2>4. q \in RequestRecs /\ q.op = "migrate" /\ q.at = "migrate" /\ q.new = new
    BY <2>2, <2>3 DEF RequestRecs
  <2> HIDE DEF q
  <2>5. Fits(conf, userFiles) => Fits(new, userFiles)
    BY <2>1, <2>2, UsersFit
  <2>6. Fits(conf, userFiles) => Underway(q, conf, userFiles, backups)
    BY <2>4, <2>5 DEF Underway
  <2> QED
    BY <2>1, <2>4, <2>6, OneBegins
<1> QED
  BY <1>5, <1>6, <1>7, <1>8, <1>9

\* create_user writes the user's file; prepare_patch merges.
LEMMA PrepareSteps ==
    ASSUME ConfInv, NEW r \in ConfRequests, WriteUserFile(r) \/ PreparePatch(r)
    PROVE  ConfInv'
<1> DEFINE q == requests[r]
<1>1. CASE WriteUserFile(r)
  <2>1. q.at = "write_user_file" /\ conf' = conf /\ backups' = backups /\ clean' = clean
    BY <1>1 DEF WriteUserFile
  <2>2. /\ Busy(r) /\ q \in RequestRecs /\ q.at # "new" /\ (clean => Underway(q, conf, userFiles, backups))
        /\ conf \in ConfRecs \cup {Partial} /\ userFiles \in [ConfPaths -> BOOLEAN]
        /\ backups \in Seq(ConfRecs \cup {Partial}) /\ ConfTypes
    BY <2>1, RequestStands DEF RequestSteps
  <2>3. CASE userFiles' = [userFiles EXCEPT ![q.to] = TRUE] /\ Goes(r, "prepare")
    <3>1. PICK p \in RequestRecs :
               /\ requests' = [requests EXCEPT ![r] = p]
               /\ p.at = "prepare" /\ SamePlan(p, q) /\ p.moved = q.moved
      BY <2>2, <2>3, RequestGoes DEF RequestSteps
    <3> HIDE DEF q
    <3>2. userFiles' \in [ConfPaths -> BOOLEAN]
      BY <2>2, <2>3
    <3>3. ASSUME clean PROVE Underway(p, conf, userFiles', backups)
      <4>1. ReadyToPrepare(q, conf, userFiles') /\ (q.op = "rename" => q.from \in ConfPaths) /\ ~q.moved
        BY <2>1, <2>2, <2>3, <3>3 DEF Underway
      <4>2. ReadyToPrepare(p, conf, userFiles')
        BY <4>1, <2>2, <3>1, <3>2, PrepareStaysReady
      <4>3. p.op = q.op /\ p.from = q.from
        BY <3>1 DEF SamePlan
      <4> QED
        BY <4>1, <4>2, <4>3, <3>1 DEF Underway
    <3> QED
      BY <2>1, <2>2, <3>1, <3>2, <3>3, OneMoves
  <2>4. CASE userFiles' = userFiles /\ Goes(r, "failed")
    <3>1. PICK p \in RequestRecs : requests' = [requests EXCEPT ![r] = p] /\ p.at = "failed"
      BY <2>2, <2>4, RequestGoes DEF RequestSteps
    <3>2. clean => Fits(conf, userFiles)
      BY <2>1, <2>2 DEF Underway
    <3> QED
      BY <2>1, <2>2, <2>4, <3>1, <3>2, OneMoves
  <2> QED
    BY <1>1, <2>3, <2>4 DEF WriteUserFile
<1>2. CASE PreparePatch(r)
  <2>1. q.at = "prepare" /\ conf' = conf /\ userFiles' = userFiles /\ backups' = backups /\ clean' = clean
    BY <1>2 DEF PreparePatch
  <2>2. /\ Busy(r) /\ q \in RequestRecs /\ q.at # "new" /\ (clean => Underway(q, conf, userFiles, backups))
        /\ conf \in ConfRecs \cup {Partial} /\ userFiles \in [ConfPaths -> BOOLEAN]
        /\ backups \in Seq(ConfRecs \cup {Partial}) /\ ConfTypes
    BY <2>1, RequestStands DEF RequestSteps
  <2>3. CASE Goes(r, "undo")
    <3>2. PICK p \in RequestRecs :
             /\ requests' = [requests EXCEPT ![r] = p]
             /\ p.at = "undo" /\ SamePlan(p, q) /\ p.moved = q.moved
      BY <2>3, <2>2, RequestGoes DEF RequestSteps
    <3> HIDE DEF q
    <3>3. ASSUME clean PROVE Underway(p, conf, userFiles, backups)
      <4>0. ReadyToPrepare(q, conf, userFiles) /\ ~q.moved
        BY <2>1, <2>2, <3>3 DEF Underway
      <4>1. Fits(conf, FilesUndone(p, userFiles))
        <5>1. FilesUndone(p, userFiles) = FilesUndone(q, userFiles)
          BY <2>2, <3>2, PlanDecides
        <5>2. CASE conf = Partial
          BY <5>2 DEF Fits
        <5>3. CASE conf # Partial /\ q.op = "rename"
          BY <5>1, <5>3, <4>0 DEF ReadyToPrepare, ReadyToMove, FilesUndone
        <5>4. CASE conf # Partial /\ q.op # "rename"
          BY <5>1, <5>4, <4>0 DEF ReadyToPrepare, ReadyToWrite
        <5> QED
          BY <5>2, <5>3, <5>4
      <4>2. p.op = q.op /\ p.from = q.from /\ (q.op = "rename" => q.from \in ConfPaths)
        BY <3>2, <3>3, <2>2 DEF SamePlan, Underway
      <4> QED
        BY <4>1, <4>2, <3>2 DEF Underway
    <3> QED
      BY <2>1, <2>2, <3>2, <3>3, OneMoves
  <2>4. CASE /\ Readable
             /\ requests' = [requests EXCEPT
                    ![r].at = IF q.op = "rename" THEN "move" ELSE "back_up",
                    ![r].new = Patched(conf, q), ![r].changed = (Patched(conf, q) # conf)]
    <3> DEFINE new == Patched(conf, q)
               step == IF q.op = "rename" THEN "move" ELSE "back_up"
               p == [q EXCEPT !.at = step, !.new = new, !.changed = (new # conf)]
    <3>1. conf \in ConfRecs /\ conf # Partial
      BY <2>2, <2>4 DEF Readable
    <3>2. new \in ConfRecs
      BY <3>1, <2>2, PatchedType
    <3>3. requests' = [requests EXCEPT ![r] = p]
      BY <2>4
    <3> HIDE DEF q, new
    <3>4. p \in RequestRecs /\ SamePlan(p, q) /\ p.moved = q.moved /\ p.at = step /\ p.new = new
          /\ (p.changed \/ p.new = conf)
      BY <3>2, <2>2 DEF RequestRecs, SamePlan
    <3> HIDE DEF p
    <3>5. ASSUME clean PROVE Underway(p, conf, userFiles, backups)
      <4>1. ReadyToPrepare(q, conf, userFiles) /\ (q.op = "rename" => q.from \in ConfPaths)
        BY <2>1, <2>2, <3>5 DEF Underway, q
      <4>2. p.op = q.op /\ p.from = q.from
        BY <3>4 DEF SamePlan
      <4>3. CASE q.op = "rename"
        <5>1. ReadyToMove(q, conf, new, userFiles)
          BY <4>1, <4>3, <3>1 DEF ReadyToPrepare, new
        <5>2. ReadyToMove(p, conf, new, userFiles)
          BY <5>1, <4>1, <4>3, <3>4, <2>2, MoveStaysReady
        <5> QED
          BY <5>2, <4>1, <4>2, <4>3, <3>4 DEF Underway
      <4>4. CASE q.op # "rename"
        <5>1. ReadyToWrite(q, conf, new, userFiles)
          BY <4>1, <4>4, <3>1 DEF ReadyToPrepare, new
        <5>2. ReadyToWrite(p, conf, new, userFiles)
          BY <5>1, <3>4, <2>2, WriteStaysReady
        <5> QED
          BY <5>2, <4>2, <4>4, <3>4 DEF Underway
      <4> QED
        BY <4>3, <4>4
    <3>6. step \notin {"done", "failed"}
      OBVIOUS
    <3> QED
      BY <2>1, <2>2, <3>3, <3>4, <3>5, <3>6, OneMoves
  <2> QED
    BY <1>2, <2>3, <2>4 DEF PreparePatch
<1> QED
  BY <1>1, <1>2

\* rename_user moves the user's file.
LEMMA MoveStep ==
    ASSUME ConfInv, NEW r \in ConfRequests, MoveUserFile(r)
    PROVE  ConfInv'
<1> DEFINE q == requests[r]
           moves == Moves(q, userFiles)
           after == IF moves THEN FilesMoved(userFiles, q.from, q.to) ELSE userFiles
<1>1. q.at = "move" /\ conf' = conf /\ backups' = backups /\ clean' = clean
  BY DEF MoveUserFile
<1>2. /\ Busy(r) /\ q \in RequestRecs /\ q.at # "new" /\ (clean => Underway(q, conf, userFiles, backups))
      /\ conf \in ConfRecs \cup {Partial} /\ userFiles \in [ConfPaths -> BOOLEAN]
      /\ backups \in Seq(ConfRecs \cup {Partial}) /\ ConfTypes
  BY <1>1, RequestStands DEF RequestSteps
<1>3. clean => /\ ReadyToMove(q, conf, q.new, userFiles) /\ q.from \in ConfPaths
               /\ q.changed \/ q.new = conf
  BY <1>1, <1>2 DEF Underway
<1>4. CASE userFiles' = after /\ requests' = [requests EXCEPT ![r].at = "back_up", ![r].moved = moves]
  <2> DEFINE p == [q EXCEPT !.at = "back_up", !.moved = moves]
             m == [q EXCEPT !.moved = moves]
  <2>1. moves \in BOOLEAN
    BY MovesType
  <2>2. requests' = [requests EXCEPT ![r] = p]
    BY <1>4
  <2>3. after \in [ConfPaths -> BOOLEAN]
    BY <1>2 DEF FilesMoved
  <2>4. clean => ReadyToWrite(m, conf, q.new, after)
    BY <1>3 DEF ReadyToMove
  <2> HIDE DEF q, moves, after
  <2>5. p \in RequestRecs /\ m \in RequestRecs /\ SamePlan(p, m) /\ p.moved = m.moved /\ p.at = "back_up"
        /\ p.new = q.new /\ p.changed = q.changed /\ p.from = q.from
    BY <2>1, <1>2 DEF RequestRecs, SamePlan
  <2> HIDE DEF p, m
  <2>6. clean => ReadyToWrite(p, conf, p.new, after)
    BY <2>4, <2>5, WriteStaysReady
  <2>7. clean => Underway(p, conf, after, backups)
    BY <2>5, <2>6, <1>3 DEF Underway
  <2> QED
    BY <1>1, <1>2, <1>4, <2>2, <2>3, <2>5, <2>7, OneMoves
<1>5. CASE Goes(r, "failed") /\ userFiles' = userFiles
  <2>1. PICK p \in RequestRecs : requests' = [requests EXCEPT ![r] = p] /\ p.at = "failed"
    BY <1>2, <1>5, RequestGoes DEF RequestSteps
  <2>2. clean => Fits(conf, userFiles)
    BY <1>3 DEF ReadyToMove
  <2> QED
    BY <1>1, <1>2, <1>5, <2>1, <2>2, OneMoves
<1> QED
  BY <1>4, <1>5 DEF MoveUserFile

\* Of the backups the newest is kept.
LEMMA NewestKept ==
    ASSUME NEW S, NEW baks \in Seq(S)
    PROVE  /\ LatestBackups(baks) \in Seq(S)
           /\ baks # <<>> => /\ LatestBackups(baks) # <<>>
                             /\ LatestBackups(baks)[Len(LatestBackups(baks))] = baks[Len(baks)]
<1>1. Len(baks) \in Nat /\ KeepBackups \in Nat \ {0}
  BY ConfBounds
<1>2. CASE Len(baks) <= KeepBackups
  BY <1>2 DEF LatestBackups
<1>3. CASE ~(Len(baks) <= KeepBackups)
  <2> DEFINE first == Len(baks) - KeepBackups + 1
             kept == SubSeq(baks, first, Len(baks))
  <2>1. LatestBackups(baks) = kept
    BY <1>3 DEF LatestBackups
  <2>2. first \in 1..Len(baks) /\ Len(baks) - first + 1 = KeepBackups /\ first + KeepBackups - 1 = Len(baks)
    BY <1>1, <1>3
  <2>3. kept \in Seq(S) /\ Len(kept) = KeepBackups
        /\ \A i \in 1..KeepBackups : kept[i] = baks[first + i - 1]
    <3>1. first \in Int /\ Len(baks) \in Int /\ 1 <= first /\ first <= Len(baks)
      BY <2>2
    <3> HIDE DEF first
    <3>2. \A i \in first..Len(baks) : i \in 1..Len(baks)
      BY <1>1, <3>1
    <3>3. kept = [i \in 1..KeepBackups |-> baks[i + first - 1]]
      BY <2>2, <1>1, <3>1
    <3>4. \A i \in 1..KeepBackups : i + first - 1 \in 1..Len(baks) /\ i + first - 1 = first + i - 1
      BY <1>1, <2>2, <3>1
    <3>5. \A i \in 1..KeepBackups : baks[i + first - 1] \in S
      BY <3>4, ElementOfSeq
    <3> HIDE DEF kept
    <3> QED
      BY <3>3, <3>4, <3>5, <1>1
  <2> HIDE DEF first, kept
  <2>4. KeepBackups \in 1..KeepBackups
    BY <1>1
  <2>5. kept[Len(kept)] = baks[Len(baks)]
    BY <2>2, <2>3, <2>4
  <2>6. kept # <<>>
    BY <2>3, <1>1
  <2> QED
    BY <2>1, <2>3, <2>5, <2>6
<1> QED
  BY <1>2, <1>3

LEMMA NewestKeptPartly ==
    ASSUME NEW S, NEW baks \in Seq(S), NEW left \in PartlyPruned(baks)
    PROVE  /\ left \in Seq(S)
           /\ baks # <<>> => left # <<>> /\ left[Len(left)] = baks[Len(baks)]
<1>1. PICK stale \in 0..(Len(baks) - KeepBackups) : left = SubSeq(baks, 1, stale) \o LatestBackups(baks)
  BY DEF PartlyPruned
<1>2. stale \in Nat /\ stale <= Len(baks) /\ Len(baks) \in Nat
  BY ConfBounds
<1> DEFINE old == SubSeq(baks, 1, stale)
           new == LatestBackups(baks)
<1>3. old \in Seq(S)
  BY <1>2, SubSeqProperties
<1>4. new \in Seq(S) /\ (baks # <<>> => new # <<>> /\ new[Len(new)] = baks[Len(baks)])
  BY NewestKept
<1> HIDE DEF old, new
<1>5. left \in Seq(S) /\ Len(left) = Len(old) + Len(new)
      /\ \A i \in 1..Len(new) : left[Len(old) + i] = new[i]
  BY <1>1, <1>3, <1>4, ConcatProperties DEF old, new
<1>6. ASSUME baks # <<>> PROVE left # <<>> /\ left[Len(left)] = baks[Len(baks)]
  <2>1. Len(new) \in 1..Len(new) /\ Len(new) > 0
    BY <1>4, <1>6, EmptySeq
  <2>2. left[Len(left)] = new[Len(new)]
    BY <2>1, <1>5
  <2> QED
    BY <2>1, <2>2, <1>3, <1>4, <1>5, <1>6
<1> QED
  BY <1>5, <1>6

\* persist_patch.
LEMMA BackUpStep ==
    ASSUME ConfInv, NEW r \in ConfRequests, BackUp(r)
    PROVE  ConfInv'
<1> DEFINE q == requests[r]
<1>1. q.at = "back_up" /\ conf' = conf /\ userFiles' = userFiles /\ clean' = clean
  BY DEF BackUp
<1>2. /\ Busy(r) /\ q \in RequestRecs /\ q.at # "new" /\ (clean => Underway(q, conf, userFiles, backups))
      /\ conf \in ConfRecs \cup {Partial} /\ userFiles \in [ConfPaths -> BOOLEAN]
      /\ backups \in Seq(ConfRecs \cup {Partial}) /\ ConfTypes
  BY <1>1, RequestStands DEF RequestSteps
<1>3. clean => /\ ReadyToWrite(q, conf, q.new, userFiles) /\ (q.changed \/ q.new = conf)
               /\ q.op = "rename" => q.from \in ConfPaths
  BY <1>1, <1>2 DEF Underway
<1>4. CASE ~q.changed /\ Goes(r, "persisted") /\ backups' = backups
  <2>1. PICK p \in RequestRecs :
             /\ requests' = [requests EXCEPT ![r] = p]
             /\ p.at = "persisted" /\ SamePlan(p, q) /\ p.changed = q.changed
    BY <1>2, <1>4, RequestGoes DEF RequestSteps
  <2> HIDE DEF q
  <2>2. p.op = q.op /\ p.from = q.from /\ FilesFinished(p, userFiles) = FilesFinished(q, userFiles)
    BY <1>2, <2>1, PlanDecides DEF SamePlan
  <2>3. clean => Underway(p, conf, userFiles, backups)
    BY <1>3, <1>4, <2>1, <2>2 DEF Underway, ReadyToWrite
  <2> QED
    BY <1>1, <1>2, <1>4, <2>1, <2>3, OneMoves
<1>5. CASE /\ q.changed /\ backups' = Append(backups, conf)
           /\ requests' = [requests EXCEPT ![r].at = "write", ![r].bak = conf]
  <2> DEFINE p == [q EXCEPT !.at = "write", !.bak = conf]
  <2>1. requests' = [requests EXCEPT ![r] = p]
    BY <1>5
  <2> HIDE DEF q
  <2>2. p \in RequestRecs /\ SamePlan(p, q) /\ p.moved = q.moved /\ p.at = "write" /\ p.new = q.new
        /\ p.bak = conf /\ p.changed
    BY <1>2, <1>5 DEF RequestRecs, SamePlan
  <2> HIDE DEF p
  <2>3. backups' \in Seq(ConfRecs \cup {Partial}) /\ backups' # <<>> /\ backups'[Len(backups')] = conf
    BY <1>2, <1>5
  <2>4. clean => ReadyToWrite(p, conf, p.new, userFiles) /\ (p.op = "rename" => p.from \in ConfPaths)
    BY <1>2, <1>3, <2>2, WriteStaysReady DEF SamePlan
  <2>5. clean => Underway(p, conf, userFiles, backups')
    BY <2>2, <2>3, <2>4 DEF Underway
  <2> QED
    BY <1>1, <1>2, <2>1, <2>2, <2>3, <2>5, OneMoves
<1>6. CASE Goes(r, "undo") /\ backups' = backups
  <2>1. PICK p \in RequestRecs :
             /\ requests' = [requests EXCEPT ![r] = p]
             /\ p.at = "undo" /\ SamePlan(p, q) /\ p.moved = q.moved
    BY <1>2, <1>6, RequestGoes DEF RequestSteps
  <2> HIDE DEF q
  <2>2. p.op = q.op /\ p.from = q.from /\ FilesUndone(p, userFiles) = FilesUndone(q, userFiles)
    BY <1>2, <2>1, PlanDecides DEF SamePlan
  <2>3. clean => Underway(p, conf, userFiles, backups)
    BY <1>3, <2>1, <2>2 DEF Underway, ReadyToWrite
  <2> QED
    BY <1>1, <1>2, <1>6, <2>1, <2>3, OneMoves
<1> QED
  BY <1>4, <1>5, <1>6 DEF BackUp

\* atomic_write, or the copy of the backup.
LEMMA WriteSteps ==
    ASSUME ConfInv, NEW r \in ConfRequests, WriteConfig(r) \/ WriteConfigFails(r)
    PROVE  ConfInv'
<1> DEFINE q == requests[r]
<1>1. q.at = "write" /\ userFiles' = userFiles /\ backups' = backups /\ clean' = clean
  BY DEF WriteConfig, WriteConfigFails
<1>2. /\ Busy(r) /\ q \in RequestRecs /\ q.at # "new" /\ (clean => Underway(q, conf, userFiles, backups))
      /\ conf \in ConfRecs \cup {Partial} /\ userFiles \in [ConfPaths -> BOOLEAN]
      /\ backups \in Seq(ConfRecs \cup {Partial}) /\ ConfTypes
  BY <1>1, RequestStands DEF RequestSteps
<1>3. clean => /\ ReadyToWrite(q, conf, q.new, userFiles) /\ q.bak = conf
               /\ backups # <<>> /\ backups[Len(backups)] = q.bak /\ (q.op = "rename" => q.from \in ConfPaths)
               /\ q.changed
  BY <1>1, <1>2 DEF Underway
<1>4. q.new \in ConfRecs \cup {Partial} /\ q.bak \in ConfRecs \cup {Partial}
  BY <1>2, RequestParts
<1>5. CASE WriteConfig(r)
  <2>1. conf' = q.new /\ Goes(r, "prune")
    BY <1>5 DEF WriteConfig
  <2>2. PICK p \in RequestRecs :
             /\ requests' = [requests EXCEPT ![r] = p]
             /\ p.at = "prune" /\ SamePlan(p, q) /\ p.changed = q.changed /\ p.bak = q.bak /\ p.moved = q.moved
    BY <1>2, <2>1, RequestGoes DEF RequestSteps
  <2> HIDE DEF q
  <2>3. p.op = q.op /\ p.from = q.from /\ FilesFinished(p, userFiles) = FilesFinished(q, userFiles)
        /\ FilesUndone(p, userFiles) = FilesUndone(q, userFiles)
    BY <1>2, <2>2, PlanDecides DEF SamePlan
  <2>4. clean => Underway(p, q.new, userFiles, backups)
    BY <1>3, <2>2, <2>3 DEF Underway, ReadyToWrite
  <2> QED
    BY <1>1, <1>2, <1>4, <2>1, <2>2, <2>4, OneMoves
<1>6. CASE WriteConfigFails(r)
  <2>1. conf' \in {q.bak, Partial} /\ Goes(r, "undo")
    BY <1>6 DEF WriteConfigFails
  <2>2. PICK p \in RequestRecs :
             /\ requests' = [requests EXCEPT ![r] = p]
             /\ p.at = "undo" /\ SamePlan(p, q) /\ p.moved = q.moved
    BY <1>2, <2>1, RequestGoes DEF RequestSteps
  <2> HIDE DEF q
  <2>3. p.op = q.op /\ p.from = q.from /\ FilesUndone(p, userFiles) = FilesUndone(q, userFiles)
    BY <1>2, <2>2, PlanDecides DEF SamePlan
  <2>4. clean => Fits(conf', FilesUndone(p, userFiles))
    BY <1>3, <2>1, <2>3 DEF ReadyToWrite, Fits
  <2>5. clean => Underway(p, conf', userFiles, backups)
    BY <1>3, <2>2, <2>3, <2>4 DEF Underway
  <2> QED
    BY <1>1, <1>2, <1>4, <2>1, <2>2, <2>5, OneMoves
<1> QED
  BY <1>5, <1>6

\* prune_backups: nobody else prunes while the requests are in order.
LEMMA PruneStep ==
    ASSUME ConfInv, NEW r \in ConfRequests, PruneBackups(r) \/ PruneFails(r)
    PROVE  /\ ConfInv'
           /\ clean => requests[r].bak = backups'[Len(backups')] /\ backups' # <<>>
<1> DEFINE q == requests[r]
<1>1. /\ q.at = "prune" /\ userFiles' = userFiles /\ conf' = conf
      /\ backups' \in {backups, LatestBackups(backups)} \cup PartlyPruned(backups)
  BY DEF PruneBackups, PruneFails
<1>2. /\ Busy(r) /\ q \in RequestRecs /\ q.at # "new" /\ (clean => Underway(q, conf, userFiles, backups))
      /\ conf \in ConfRecs \cup {Partial} /\ userFiles \in [ConfPaths -> BOOLEAN]
      /\ backups \in Seq(ConfRecs \cup {Partial}) /\ ConfTypes /\ clean \in BOOLEAN
  BY <1>1, RequestStands DEF RequestSteps
<1>3. clean => /\ q.changed /\ backups # <<>> /\ backups[Len(backups)] = q.bak
               /\ Fits(conf, FilesFinished(q, userFiles))
               /\ q.op = "delete" => Fits(conf, userFiles) /\ (q.changed => Fits(q.bak, userFiles))
               /\ q.op = "rename" => q.from \in ConfPaths
               /\ q.op \notin {"create", "rename"} => Fits(conf, FilesUndone(q, userFiles))
  BY <1>1, <1>2 DEF Underway
<1>4. backups' \in Seq(ConfRecs \cup {Partial})
      /\ (clean => backups' # <<>> /\ backups'[Len(backups')] = q.bak)
  BY <1>1, <1>2, <1>3, NewestKept, NewestKeptPartly
<1>6. CASE PruneBackups(r)
  <2>0. Goes(r, "persisted") /\ clean' = clean
    BY <1>6 DEF PruneBackups
  <2>1. PICK p \in RequestRecs :
             /\ requests' = [requests EXCEPT ![r] = p]
             /\ p.at = "persisted" /\ SamePlan(p, q) /\ p.changed = q.changed /\ p.bak = q.bak
    BY <1>2, <2>0, RequestGoes DEF RequestSteps
  <2> HIDE DEF q
  <2>2. p.op = q.op /\ p.from = q.from /\ FilesFinished(p, userFiles) = FilesFinished(q, userFiles)
    BY <1>2, <2>1, PlanDecides DEF SamePlan
  <2>3. clean => Underway(p, conf, userFiles, backups')
    BY <1>3, <2>1, <2>2 DEF Underway
  <2>4. ConfInv'
    BY <1>1, <1>2, <1>4, <2>0, <2>1, <2>3, OneMoves
  <2> QED
    BY <2>4, <1>4 DEF q
<1>7. CASE PruneFails(r)
  <2>0. Goes(r, "undo") /\ clean' = (clean /\ q.op \notin {"create", "rename"})
    BY <1>7 DEF PruneFails
  <2>1. PICK p \in RequestRecs :
             /\ requests' = [requests EXCEPT ![r] = p]
             /\ p.at = "undo" /\ SamePlan(p, q) /\ p.moved = q.moved
    BY <1>2, <2>0, RequestGoes DEF RequestSteps
  <2> HIDE DEF q
  <2>2. p.op = q.op /\ p.from = q.from /\ FilesUndone(p, userFiles) = FilesUndone(q, userFiles)
    BY <1>2, <2>1, PlanDecides DEF SamePlan
  <2>3. clean' => Underway(p, conf, userFiles, backups')
    BY <1>3, <2>0, <2>1, <2>2 DEF Underway
  <2>4. clean' = clean \/ clean' = FALSE
    BY <1>2, <2>0
  <2>5. ConfInv'
    BY <1>1, <1>2, <1>4, <2>1, <2>3, <2>4, OneMoves
  <2> QED
    BY <2>5, <1>4 DEF q
<1> QED
  BY <1>6, <1>7

\* The end of a request, for good or for bad.
LEMMA EndSteps ==
    ASSUME ConfInv, NEW r \in ConfRequests, FinishRequest(r) \/ UndoRequest(r)
    PROVE  ConfInv'
<1> DEFINE q == requests[r]
<1>1. CASE FinishRequest(r)
  <2>1. q.at = "persisted" /\ backups' = backups /\ clean' = clean
    BY <1>1 DEF FinishRequest
  <2>2. /\ Busy(r) /\ q \in RequestRecs /\ q.at # "new" /\ (clean => Underway(q, conf, userFiles, backups))
        /\ conf \in ConfRecs \cup {Partial} /\ userFiles \in [ConfPaths -> BOOLEAN]
        /\ backups \in Seq(ConfRecs \cup {Partial}) /\ ConfTypes
    BY <2>1, RequestStands DEF RequestSteps
  <2>3. clean => /\ Fits(conf, FilesFinished(q, userFiles))
                 /\ q.op = "delete" => Fits(conf, userFiles) /\ (q.changed => Fits(q.bak, userFiles))
    BY <2>1, <2>2 DEF Underway
  <2>4. q.bak \in ConfRecs \cup {Partial} /\ q.changed \in BOOLEAN
    BY <2>2, RequestParts
  <2>5. CASE userFiles' = FilesFinished(q, userFiles) /\ Goes(r, "done") /\ conf' = conf
    <3>1. PICK p \in RequestRecs : requests' = [requests EXCEPT ![r] = p] /\ p.at = "done"
      BY <2>2, <2>5, RequestGoes DEF RequestSteps
    <3>2. userFiles' \in [ConfPaths -> BOOLEAN]
      BY <2>2, <2>5 DEF FilesFinished
    <3>3. clean => Fits(conf', userFiles')
      BY <2>3, <2>5
    <3> QED
      BY <2>1, <2>2, <2>5, <3>1, <3>2, <3>3, OneMoves
  <2>6. CASE /\ q.op = "delete" /\ conf' \in IF q.changed THEN {q.bak, Partial} ELSE {conf}
             /\ Goes(r, "failed") /\ userFiles' = userFiles
    <3>1. PICK p \in RequestRecs : requests' = [requests EXCEPT ![r] = p] /\ p.at = "failed"
      BY <2>2, <2>6, RequestGoes DEF RequestSteps
    <3>2. Fits(Partial, userFiles)
      BY DEF Fits
    <3>3. clean => Fits(conf', userFiles')
      BY <2>3, <2>4, <2>6, <3>2
    <3>4. conf' \in ConfRecs \cup {Partial}
      BY <2>2, <2>4, <2>6
    <3> QED
      BY <2>1, <2>2, <2>6, <3>1, <3>3, <3>4, OneMoves
  <2> QED
    BY <1>1, <2>5, <2>6 DEF FinishRequest
<1>2. CASE UndoRequest(r)
  <2>1. q.at = "undo" /\ Goes(r, "failed") /\ conf' = conf /\ backups' = backups
    BY <1>2 DEF UndoRequest
  <2>2. /\ Busy(r) /\ q \in RequestRecs /\ q.at # "new" /\ (clean => Underway(q, conf, userFiles, backups))
        /\ conf \in ConfRecs \cup {Partial} /\ userFiles \in [ConfPaths -> BOOLEAN]
        /\ backups \in Seq(ConfRecs \cup {Partial}) /\ ConfTypes /\ clean \in BOOLEAN
    BY <2>1, RequestStands DEF RequestSteps
  <2>3. PICK p \in RequestRecs : requests' = [requests EXCEPT ![r] = p] /\ p.at = "failed"
    BY <2>1, <2>2, RequestGoes DEF RequestSteps
  <2>4. clean => Fits(conf, FilesUndone(q, userFiles))
    BY <2>1, <2>2 DEF Underway
  <2> HIDE DEF q
  <2>5. CASE userFiles' = FilesUndone(q, userFiles) /\ clean' = clean
    <3>1. userFiles' \in [ConfPaths -> BOOLEAN]
      BY <2>2, <2>5 DEF FilesUndone, FilesMoved
    <3> QED
      BY <2>1, <2>2, <2>3, <2>4, <2>5, <3>1, OneMoves
  <2>6. CASE userFiles' = userFiles /\ clean' = (clean /\ ~q.moved)
    <3>1. ASSUME clean' PROVE Fits(conf, userFiles)
      <4>1. \A x \in ConfPaths : FilesUndone(q, userFiles)[x] => userFiles[x]
        BY <2>2, <2>6, <3>1 DEF FilesUndone
      <4> QED
        BY <4>1, <2>2, <2>4, <2>6, <3>1, MoreFilesFit
    <3>2. clean' = clean \/ clean' = FALSE
      BY <2>2, <2>6
    <3> QED
      BY <2>1, <2>2, <2>3, <2>6, <3>1, <3>2, OneMoves
  <2> QED
    BY <1>2, <2>5, <2>6 DEF UndoRequest, q
<1> QED
  BY <1>1, <1>2

\* migrate_config_file_if_needed.
LEMMA BackUpToMigrateStep ==
    ASSUME ConfInv, NEW r \in ConfRequests, BackUpToMigrate(r)
    PROVE  ConfInv'
<1> DEFINE q == requests[r]
<1>1. q.at = "migrate" /\ conf' = conf /\ userFiles' = userFiles /\ clean' = clean
  BY DEF BackUpToMigrate
<1>2. /\ Busy(r) /\ q \in RequestRecs /\ q.at # "new" /\ (clean => Underway(q, conf, userFiles, backups))
      /\ conf \in ConfRecs \cup {Partial} /\ userFiles \in [ConfPaths -> BOOLEAN]
      /\ backups \in Seq(ConfRecs \cup {Partial}) /\ ConfTypes
  BY <1>1, RequestStands DEF RequestSteps
<1>3. clean => Fits(conf, userFiles) /\ Fits(q.new, userFiles) /\ (q.op = "rename" => q.from \in ConfPaths)
  BY <1>1, <1>2 DEF Underway
<1>4. CASE /\ backups' = Append(backups, conf)
           /\ requests' = [requests EXCEPT ![r].at = "migrate_write", ![r].bak = conf]
  <2> DEFINE p == [q EXCEPT !.at = "migrate_write", !.bak = conf]
  <2>1. requests' = [requests EXCEPT ![r] = p]
    BY <1>4
  <2> HIDE DEF q
  <2>2. p \in RequestRecs /\ SamePlan(p, q) /\ p.at = "migrate_write" /\ p.new = q.new /\ p.bak = conf
    BY <1>2 DEF RequestRecs, SamePlan
  <2> HIDE DEF p
  <2>3. backups' \in Seq(ConfRecs \cup {Partial}) /\ backups' # <<>> /\ backups'[Len(backups')] = conf
    BY <1>2, <1>4
  <2>4. clean => Underway(p, conf, userFiles, backups')
    BY <1>3, <2>2, <2>3 DEF Underway, SamePlan
  <2> QED
    BY <1>1, <1>2, <2>1, <2>2, <2>3, <2>4, OneMoves
<1>5. CASE backups' \in {backups, Append(backups, Partial)} /\ Goes(r, "failed")
  <2>1. PICK p \in RequestRecs : requests' = [requests EXCEPT ![r] = p] /\ p.at = "failed"
    BY <1>2, <1>5, RequestGoes DEF RequestSteps
  <2>2. backups' \in Seq(ConfRecs \cup {Partial})
    BY <1>2, <1>5
  <2> QED
    BY <1>1, <1>2, <1>3, <2>1, <2>2, OneMoves
<1> QED
  BY <1>4, <1>5 DEF BackUpToMigrate

LEMMA MigrateStep ==
    ASSUME ConfInv, NEW r \in ConfRequests, MigrateConfig(r)
    PROVE  ConfInv' /\ (clean => \E i \in DOMAIN backups' : backups'[i] = requests[r].bak)
<1> DEFINE q == requests[r]
<1>1. q.at = "migrate_write" /\ userFiles' = userFiles /\ clean' = clean
      /\ ((conf' = q.new /\ Goes(r, "done")) \/ (conf' = conf /\ Goes(r, "failed")))
      /\ backups' \in {backups, Append(backups, Partial), Append(backups, q.new)}
  BY DEF MigrateConfig
<1>2. /\ Busy(r) /\ q \in RequestRecs /\ q.at # "new" /\ (clean => Underway(q, conf, userFiles, backups))
      /\ conf \in ConfRecs \cup {Partial} /\ userFiles \in [ConfPaths -> BOOLEAN]
      /\ backups \in Seq(ConfRecs \cup {Partial}) /\ ConfTypes
  BY <1>1, RequestStands DEF RequestSteps
<1>3. clean => /\ Fits(conf, userFiles) /\ Fits(q.new, userFiles)
               /\ backups # <<>> /\ backups[Len(backups)] = q.bak
  BY <1>1, <1>2 DEF Underway
<1>4. q.new \in ConfRecs \cup {Partial}
  BY <1>2, RequestParts
<1>5. PICK p \in RequestRecs : requests' = [requests EXCEPT ![r] = p] /\ p.at \in {"done", "failed"}
  BY <1>1, <1>2, RequestGoes DEF RequestSteps
<1>6. conf' \in ConfRecs \cup {Partial} /\ (clean => Fits(conf', userFiles'))
  BY <1>1, <1>2, <1>3, <1>4
<1>7. /\ backups' \in Seq(ConfRecs \cup {Partial})
      /\ \A i \in DOMAIN backups : i \in DOMAIN backups' /\ backups'[i] = backups[i]
  BY <1>1, <1>2, <1>4
<1>8. ConfInv'
  BY <1>1, <1>2, <1>5, <1>6, <1>7, OneMoves
<1>9. clean => Len(backups) \in DOMAIN backups
  BY <1>2, <1>3
<1> QED
  BY <1>3, <1>7, <1>8, <1>9

\* The server is stopped; what it was at is not in order.
LEMMA StopStepKeeps ==
    ASSUME ConfInv, StopServer
    PROVE  ConfInv'
<1>1. requests \in [ConfRequests -> RequestRecs \cup {Waiting}]
  BY DEF ConfInv, ConfTypes
<1>2. \A r \in ConfRequests : (IF Busy(r) THEN [requests[r] EXCEPT !.at = "failed"] ELSE requests[r])
                               \in RequestRecs \cup {Waiting}
  <2> TAKE r \in ConfRequests
  <2>1. CASE Busy(r)
    <3>1. requests[r] \in RequestRecs
      BY <1>1, <2>1, RequestFields DEF Busy
    <3>2. [requests[r] EXCEPT !.at = "failed"] \in RequestRecs
      BY <3>1 DEF RequestRecs
    <3> QED
      BY <2>1, <3>2
  <2>2. CASE ~Busy(r)
    BY <1>1, <2>2
  <2> QED
    BY <2>1, <2>2
<1>3. requests' \in [ConfRequests -> RequestRecs \cup {Waiting}]
  BY <1>2 DEF StopServer
<1>4. ConfTypes' /\ ~clean'
  BY <1>3 DEF StopServer, ConfTypes, ConfInv
<1> QED
  BY <1>4 DEF ConfInv

LEMMA ConfStarts == ConfInit => ConfInv
<1> SUFFICES ASSUME ConfInit PROVE ConfInv
  OBVIOUS
<1>1. PICK u \in ConfUsers, p \in ConfPaths, version \in {"1.0.0", "1.0.1"} :
         /\ conf = [version |-> version, field |-> 0,
                    users |-> [v \in ConfUsers |-> IF v = u THEN p ELSE NoPath]]
         /\ userFiles = [q \in ConfPaths |-> q = p]
  BY DEF ConfInit
<1>2. conf \in ConfRecs /\ conf.users = [v \in ConfUsers |-> IF v = u THEN p ELSE NoPath]
  BY <1>1, NoPathApart DEF ConfRecs
<1>3. ConfTypes
  BY <1>1, <1>2 DEF ConfInit, ConfTypes
<1>4. Fits(conf, userFiles)
  BY <1>1, <1>2 DEF Fits
<1>5. \A r \in ConfRequests : ~Busy(r)
  BY DEF ConfInit, Busy, Waiting
<1> QED
  BY <1>3, <1>4, <1>5 DEF ConfInv

LEMMA ConfStepKeeps == ConfInv /\ [ConfNext]_confVars => ConfInv'
<1> SUFFICES ASSUME ConfInv, [ConfNext]_confVars PROVE ConfInv'
  OBVIOUS
<1>1. CASE UNCHANGED confVars
  <2>1. conf' = conf /\ userFiles' = userFiles /\ backups' = backups /\ requests' = requests /\ clean' = clean
    BY <1>1 DEF confVars
  <2> QED
    BY <2>1 DEF ConfInv, ConfTypes, Busy
<1>2. ASSUME NEW r \in ConfRequests,
             \/ CreateUser(r) \/ WriteUserFile(r) \/ RenameUser(r) \/ DeleteUser(r) \/ PatchConfig(r)
             \/ PreparePatch(r) \/ MoveUserFile(r) \/ BackUp(r) \/ WriteConfig(r) \/ WriteConfigFails(r)
             \/ PruneBackups(r) \/ PruneFails(r) \/ FinishRequest(r) \/ UndoRequest(r)
             \/ ReadToMigrate(r) \/ BackUpToMigrate(r) \/ MigrateConfig(r)
      PROVE  ConfInv'
  BY <1>2, BeginSteps, PrepareSteps, MoveStep, BackUpStep, WriteSteps, PruneStep, EndSteps,
     BackUpToMigrateStep, MigrateStep
<1>3. CASE StopServer
  BY <1>3, StopStepKeeps
<1> QED
  BY <1>1, <1>2, <1>3 DEF ConfNext

\* With any number of requests, users, paths and backups kept: after a request that
\* began alone, with the users' files in order, every registered user has the file
\* its registration names, whichever step failed but the pruning of a creation or a
\* renaming and the moving back of a renamed file (create_user, rename_user,
\* delete_user, persist_patch, migrate_config_file_if_needed).
THEOREM RegisteredUsersKeepFiles == ConfSpec => []RegisteredUsersHaveFiles
<1>1. ConfInv => RegisteredUsersHaveFiles
  BY DEF ConfInv, RegisteredUsersHaveFiles, Fits, Readable
<1> QED
  BY <1>1, ConfStarts, ConfStepKeeps, PTL DEF ConfSpec

\* What a change or a migration replaces is in a backup when the request goes on.
LEMMA ReplacedStep ==
    ASSUME ConfInv, [ConfNext]_confVars
    PROVE  [clean => \A r \in ConfRequests :
               (requests[r].at \in {"prune", "migrate_write"} /\ requests'[r].at # requests[r].at)
               => \E i \in DOMAIN backups' : backups'[i] = requests[r].bak]_confVars
<1> SUFFICES ASSUME ConfNext, clean, NEW r \in ConfRequests, requests[r].at \in {"prune", "migrate_write"},
                    requests'[r].at # requests[r].at
             PROVE  \E i \in DOMAIN backups' : backups'[i] = requests[r].bak
  OBVIOUS
<1>0. requests \in [ConfRequests -> RequestRecs \cup {Waiting}]
  BY DEF ConfInv, ConfTypes
<1>1. \A q \in ConfRequests \ {r} : ~Busy(q)
  BY DEF ConfInv, Busy
<1>2. CASE PruneBackups(r) \/ PruneFails(r)
  <2>1. requests[r].bak = backups'[Len(backups')] /\ backups' # <<>> /\ ConfInv'
    BY <1>2, PruneStep
  <2>2. backups' \in Seq(ConfRecs \cup {Partial})
    BY <2>1 DEF ConfInv, ConfTypes
  <2>3. Len(backups') \in DOMAIN backups'
    BY <2>1, <2>2
  <2> QED
    BY <2>1, <2>3
<1>3. CASE StopServer
  <2>1. /\ backups' = backups /\ backups \in Seq(ConfRecs \cup {Partial})
        /\ Underway(requests[r], conf, userFiles, backups)
    BY <1>3, RequestStands DEF StopServer, RequestSteps
  <2>2. backups # <<>> /\ backups[Len(backups)] = requests[r].bak
    BY <2>1 DEF Underway
  <2>3. Len(backups) \in DOMAIN backups
    BY <2>1, <2>2
  <2> QED
    BY <2>1, <2>2, <2>3
<1>4. ASSUME NEW q \in ConfRequests, q # r, NEW p, Begin(q, p) PROVE FALSE
  BY <1>0, <1>4 DEF Begin
<1>5. ASSUME NEW q \in ConfRequests, q # r PROVE requests[q].at \in {"new", "done", "failed"}
  BY <1>1, <1>5 DEF Busy
<1>6. ASSUME NEW q \in ConfRequests, CreateUser(q) \/ RenameUser(q) \/ DeleteUser(q) \/ PatchConfig(q)
                                      \/ ReadToMigrate(q)
      PROVE  FALSE
  <2>1. \E p : Begin(q, p)
    BY <1>6 DEF CreateUser, RenameUser, DeleteUser, PatchConfig, ReadToMigrate
  <2>2. requests[q].at = "new"
    BY <2>1 DEF Begin
  <2> QED
    BY <2>1, <2>2, <1>4
<1>7. ASSUME NEW q \in ConfRequests, WriteUserFile(q) \/ PreparePatch(q) \/ MoveUserFile(q) \/ BackUp(q)
      PROVE  FALSE
  <2>1. requests[q].at \in {"write_user_file", "prepare", "move", "back_up"}
    BY <1>7 DEF WriteUserFile, PreparePatch, MoveUserFile, BackUp
  <2> QED
    BY <2>1, <1>5
<1>8. ASSUME NEW q \in ConfRequests,
             WriteConfig(q) \/ WriteConfigFails(q) \/ FinishRequest(q) \/ UndoRequest(q) \/ BackUpToMigrate(q)
      PROVE  FALSE
  <2>1. requests[q].at \in {"write", "persisted", "undo", "migrate"}
    BY <1>8 DEF WriteConfig, WriteConfigFails, FinishRequest, UndoRequest, BackUpToMigrate
  <2> QED
    BY <2>1, <1>5
<1>9. ASSUME NEW q \in ConfRequests, q # r, PruneBackups(q) \/ PruneFails(q) \/ MigrateConfig(q) PROVE FALSE
  BY <1>5, <1>9 DEF PruneBackups, PruneFails, MigrateConfig
<1>10. CASE MigrateConfig(r)
  BY <1>10, MigrateStep
<1> QED
  BY <1>2, <1>3, <1>6, <1>7, <1>8, <1>9, <1>10 DEF ConfNext

\* However many changes there have been, and whether pruning fails or not, what a
\* change or a migration replaced is in a backup when the request goes on, if it is
\* alone (backup_file, prune_backups, migrate_config_file_if_needed).
THEOREM ReplacedConfigsAreBackedUp == ConfSpec => ReplacedConfigBackedUp
<1>1. ConfInv /\ [ConfNext]_confVars
      => [clean => \A r \in ConfRequests :
               (requests[r].at \in {"prune", "migrate_write"} /\ requests'[r].at # requests[r].at)
               => \E i \in DOMAIN backups' : backups'[i] = requests[r].bak]_confVars
  BY ReplacedStep
<1> QED
  BY <1>1, ConfStarts, ConfStepKeeps, PTL DEF ConfSpec, ReplacedConfigBackedUp

-----------------------------------------------------------------------------
(* ConfigEditor.                                                            *)

\* A table is told by its fields.
LEMMA TableFields ==
    ASSUME NEW S, NEW e \in Tables(S) \cup {NoEntry}
    PROVE  /\ e # NoEntry => e \in Tables(S) /\ IsTable(e) /\ e.plain \in {"p0", "p1"} /\ e.secret \in S
           /\ NoEntry \in Tables(S) \cup {NoEntry}
BY DEF Tables, IsTable, NoEntry

LEMMA TableMade ==
    ASSUME NEW S, NEW plain \in {"p0", "p1"}, NEW secret \in S
    PROVE  Table(plain, secret) \in Tables(S) \cup {NoEntry}
BY DEF Table, Tables

LEMMA TableChanged ==
    ASSUME NEW S, NEW T, NEW e \in Tables(S), NEW x \in T
    PROVE  [e EXCEPT !.secret = x] \in Tables(T)
BY DEF Tables

\* A card that shows a masked entry holds the sentinel.
LEMMA CardsHoldNoMask ==
    ASSUME NEW e \in Tables(Secrets) \cup {NoEntry}
    PROVE  EntryCard(MaskEntry(e)) \in Tables(Secrets \cup {Sentinel}) \cup {NoEntry}
<1>1. CASE e = NoEntry
  BY <1>1 DEF EntryCard, MaskEntry
<1>2. CASE e # NoEntry
  <2> DEFINE m == [e EXCEPT !.secret = MaskSecret(e.secret)]
             U == Secrets \cup {Sentinel}
  <2>1. e \in Tables(Secrets) /\ e.secret \in Secrets
    BY <1>2, TableFields
  <2>2. m = MaskEntry(e)
    BY <1>2 DEF MaskEntry
  <2>3. m.secret = MaskSecret(e.secret)
    BY <2>1 DEF Tables
  <2>4. m \in Tables(Secrets \cup {Mask}) \cup {NoEntry} /\ m # NoEntry /\ m \in Tables(Secrets \cup {Mask})
    <3>1. MaskSecret(e.secret) \in Secrets \cup {Mask}
      BY <2>1 DEF MaskSecret
    <3>2. m \in Tables(Secrets \cup {Mask})
      BY <3>1, <2>1, TableChanged
    <3>3. m # NoEntry
      BY <3>2 DEF Tables, NoEntry
    <3> QED
      BY <3>2, <3>3
  <2>5. IsTable(m)
    BY <2>4, TableFields
  <2> HIDE DEF m
  <2>6. CASE m.secret = Mask
    <3>1. EntryCard(m) = [m EXCEPT !.secret = Sentinel]
      BY <2>4, <2>5, <2>6 DEF EntryCard
    <3>2. [m EXCEPT !.secret = Sentinel] \in Tables(U)
      BY <2>4, TableChanged
    <3> QED
      BY <3>1, <3>2, <2>2
  <2>7. CASE m.secret # Mask
    <3>1. EntryCard(m) = m
      BY <2>7 DEF EntryCard
    <3>2. m \in Tables(U)
      BY <2>4, <2>7 DEF Tables
    <3> QED
      BY <3>1, <3>2, <2>2
  <2> QED
    BY <2>6, <2>7
<1> QED
  BY <1>1, <1>2

\* A page that was loaded.
LEMMA LoadedPage ==
    ASSUME NEW entries \in EntriesOf(Secrets)
    PROVE  [Closed EXCEPT !.open = TRUE,
                          !.entries = [k \in EntryKeys |-> EntryCard(MaskEntry(entries[k]))]] \in PageRecs
<1> DEFINE cards == [k \in EntryKeys |-> EntryCard(MaskEntry(entries[k]))]
<1>1. \A k \in EntryKeys : entries[k] \in Tables(Secrets) \cup {NoEntry}
  BY DEF EntriesOf
<1>2. cards \in EntriesOf(Secrets \cup {Sentinel})
  BY <1>1, CardsHoldNoMask DEF EntriesOf
<1> HIDE DEF cards
<1>3. [Closed EXCEPT !.open = TRUE, !.entries = cards] \in PageRecs
  BY <1>2 DEF Closed, PageRecs
<1> QED
  BY <1>3 DEF cards

LEMMA ClosedPage == Closed \in PageRecs
<1>1. [k \in EntryKeys |-> NoEntry] \in EntriesOf(Secrets \cup {Sentinel})
  BY DEF EntriesOf
<1> QED
  BY <1>1 DEF Closed, PageRecs

\* What a page sends is merged into entries without mask and sentinel.
LEMMA MergedSecret ==
    ASSUME NEW old \in Secrets, NEW new \in Secrets \cup {Sentinel}
    PROVE  Merged(old, new) \in Secrets
BY DEF Merged

LEMMA MergedEntry ==
    ASSUME NEW old \in Tables(Secrets) \cup {NoEntry}, NEW new \in Tables(Secrets \cup {Sentinel}) \cup {NoEntry},
           NEW gone \in BOOLEAN
    PROVE  MergeEntry(old, new, gone) \in Tables(Secrets) \cup {NoEntry}
<1>1. CASE new = NoEntry
  BY <1>1 DEF MergeEntry
<1>2. CASE new # NoEntry
  <2> DEFINE before == IF old = NoEntry THEN Blank ELSE old.secret
  <2>1. IsTable(new) /\ new.plain \in {"p0", "p1"} /\ new.secret \in Secrets \cup {Sentinel}
    BY <1>2, TableFields
  <2>2. before \in Secrets
    BY TableFields DEF Secrets
  <2>3. MergeEntry(old, new, gone) = Table(new.plain, Merged(before, new.secret))
    BY <1>2, <2>1 DEF MergeEntry
  <2> QED
    BY <2>1, <2>2, <2>3, MergedSecret, TableMade
<1> QED
  BY <1>1, <1>2

LEMMA EditorStarts == EditorKinds \subseteq {"runner", "agent"} /\ EditorInit => EditorInv
<1> SUFFICES ASSUME EditorKinds \subseteq {"runner", "agent"}, EditorInit PROVE EditorInv
  OBVIOUS
<1>1. kind \in {"runner", "agent"}
  BY DEF EditorInit
<1>2. "p0" \in {"p0", "p1"} /\ "secret0" \in Secrets
  BY DEF Secrets
<1>3. Entries0 \in EntriesOf(Secrets)
  <2>1. CASE kind = "agent"
    <3>1. Table("p0", "secret0") \in Tables(Secrets) \cup {NoEntry}
      BY <1>2, TableMade
    <3>2. Entries0 = [k \in EntryKeys |-> Table("p0", "secret0")]
      BY <2>1 DEF Entries0
    <3> QED
      BY <3>1, <3>2 DEF EntriesOf
  <2>2. CASE kind = "runner"
    BY <2>2 DEF Entries0, EntriesOf
  <2> QED
    BY <1>1, <2>1, <2>2
<1>4. doc \in [field : {"v0", "v1"}, token : Secrets, entries : EntriesOf(Secrets)]
  BY <1>2, <1>3 DEF EditorInit
<1>5. pages \in [Pages -> PageRecs]
  BY ClosedPage DEF EditorInit
<1> QED
  BY <1>4, <1>5 DEF EditorInv

\* What is done to a page.
LEMMA PageEdited ==
    ASSUME EditorInv, NEW p \in Pages, ChangeField(p) \/ \E k \in EntryKeys : ChangeEntry(p, k) \/ DeleteEntry(p, k)
    PROVE  EditorInv'
<1> DEFINE g == pages[p]
           U == Secrets \cup {Sentinel}
<1>1. pages \in [Pages -> PageRecs] /\ g \in PageRecs
  BY DEF EditorInv
<1>2. /\ g.open \in BOOLEAN /\ g.changes \in [field : {"v1", NoValue}, token : Secrets \cup {NoValue}]
      /\ g.entries \in EntriesOf(U) /\ g.deleted \in SUBSET EntryKeys /\ g.fired \in BOOLEAN
  BY <1>1 DEF PageRecs
<1>3. "secret1" \in U /\ "secret1" \in Secrets /\ Blank \in Secrets
  BY DEF Secrets
<1>4. ASSUME NEW q \in PageRecs, pages' = [pages EXCEPT ![p] = q], doc' = doc PROVE EditorInv'
  BY <1>1, <1>4 DEF EditorInv
<1>5. ASSUME NEW k \in EntryKeys, NEW e \in Tables(U) \cup {NoEntry}
      PROVE  [g.entries EXCEPT ![k] = e] \in EntriesOf(U)
  BY <1>2 DEF EntriesOf
<1>6. CASE ChangeField(p)
  <2>1. CASE pages' = [pages EXCEPT ![p].changes.field = "v1"]
    <3>1. [g EXCEPT !.changes.field = "v1"] \in PageRecs
      BY <1>1 DEF PageRecs
    <3>2. pages' = [pages EXCEPT ![p] = [g EXCEPT !.changes.field = "v1"]]
      BY <2>1
    <3> QED
      BY <1>4, <1>6, <3>1, <3>2 DEF ChangeField
  <2>2. ASSUME NEW s \in {"secret1", Blank}, pages' = [pages EXCEPT ![p].changes.token = s] PROVE EditorInv'
    <3>1. [g EXCEPT !.changes.token = s] \in PageRecs
      BY <1>1, <1>3, <2>2 DEF PageRecs
    <3>2. pages' = [pages EXCEPT ![p] = [g EXCEPT !.changes.token = s]]
      BY <2>2
    <3> QED
      BY <1>4, <1>6, <3>1, <3>2 DEF ChangeField
  <2> QED
    BY <1>6, <2>1, <2>2 DEF ChangeField
<1>7. ASSUME NEW k \in EntryKeys, ChangeEntry(p, k) PROVE EditorInv'
  <2> DEFINE e == g.entries[k]
  <2>1. e # NoEntry /\ doc' = doc
    BY <1>7 DEF ChangeEntry
  <2>2. e \in Tables(U) /\ IsTable(e)
    <3>1. e \in Tables(U) \cup {NoEntry}
      BY <1>2 DEF EntriesOf
    <3> QED
      BY <3>1, <2>1, TableFields
  <2>3. CASE pages' = [pages EXCEPT ![p].entries[k].plain = "p1", ![p].fired = TRUE]
    <3> DEFINE f == [e EXCEPT !.plain = "p1"]
               h == [g.entries EXCEPT ![k] = f]
               q == [g EXCEPT !.entries = h, !.fired = TRUE]
    <3>1. f \in Tables(U)
      BY <2>2 DEF Tables
    <3>2. h \in EntriesOf(U)
      BY <3>1, <1>5
    <3>3. pages' = [pages EXCEPT ![p] = q]
      BY <2>3
    <3> HIDE DEF h
    <3>4. q \in PageRecs
      BY <1>1, <3>2 DEF PageRecs
    <3> QED
      BY <1>4, <2>1, <3>3, <3>4
  <2>4. ASSUME NEW fired \in BOOLEAN, pages' = [pages EXCEPT ![p].entries[k].secret = "secret1", ![p].fired = fired]
        PROVE  EditorInv'
    <3> DEFINE f == [e EXCEPT !.secret = "secret1"]
               h == [g.entries EXCEPT ![k] = f]
               q == [g EXCEPT !.entries = h, !.fired = fired]
    <3>1. f \in Tables(U)
      BY <1>3, <2>2, TableChanged
    <3>2. h \in EntriesOf(U)
      BY <3>1, <1>5
    <3>3. pages' = [pages EXCEPT ![p] = q]
      BY <2>4
    <3> HIDE DEF h
    <3>4. q \in PageRecs
      BY <1>1, <3>2, <2>4 DEF PageRecs
    <3> QED
      BY <1>4, <2>1, <3>3, <3>4
  <2> QED
    BY <1>7, <2>3, <2>4 DEF ChangeEntry
<1>8. ASSUME NEW k \in EntryKeys, DeleteEntry(p, k) PROVE EditorInv'
  <2> DEFINE h == [g.entries EXCEPT ![k] = NoEntry]
             q == [g EXCEPT !.entries = h, !.deleted = @ \cup {k}, !.fired = TRUE]
  <2>1. h \in EntriesOf(U)
    BY <1>5
  <2>2. pages' = [pages EXCEPT ![p] = q] /\ doc' = doc
    BY <1>8 DEF DeleteEntry
  <2> HIDE DEF h
  <2>3. q \in PageRecs
    BY <1>1, <1>2, <2>1 DEF PageRecs
  <2> QED
    BY <1>4, <2>2, <2>3
<1> QED
  BY <1>6, <1>7, <1>8

\* GET and PATCH.
LEMMA PageSaved ==
    ASSUME EditorInv, NEW p \in Pages, LoadPage(p) \/ SavePage(p)
    PROVE  EditorInv'
<1> DEFINE g == pages[p]
           U == Secrets \cup {Sentinel}
           patch == BuildPatch(p)
<1>1. pages \in [Pages -> PageRecs] /\ g \in PageRecs
      /\ doc.field \in {"v0", "v1"} /\ doc.token \in Secrets /\ doc.entries \in EntriesOf(Secrets)
  BY DEF EditorInv
<1>2. CASE LoadPage(p)
  <2>1. pages' \in [Pages -> PageRecs] /\ doc' = doc
    BY <1>1, <1>2, LoadedPage DEF LoadPage
  <2> QED
    BY <2>1 DEF EditorInv
<1>3. CASE SavePage(p)
  <2>1. /\ g.changes \in [field : {"v1", NoValue}, token : Secrets \cup {NoValue}]
        /\ g.entries \in EntriesOf(U)
    BY <1>1 DEF PageRecs
  <2>2. /\ patch.field = g.changes.field /\ g.changes.field \in {"v1", NoValue}
        /\ patch.token \in U /\ patch.entries \in EntriesOf(U)
    <3>1. patch.field = g.changes.field
      BY DEF BuildPatch
    <3>2. patch.token = IF g.changes.token = NoValue THEN Sentinel ELSE g.changes.token
      BY DEF BuildPatch
    <3>3. patch.entries = IF g.fired THEN g.entries ELSE [k \in EntryKeys |-> NoEntry]
      BY DEF BuildPatch
    <3>4. [k \in EntryKeys |-> NoEntry] \in EntriesOf(U)
      BY DEF EntriesOf
    <3>5. g.changes.token \in Secrets \cup {NoValue} /\ g.changes.field \in {"v1", NoValue}
      BY <2>1
    <3> HIDE DEF g, U, patch
    <3> QED
      BY <2>1, <3>1, <3>2, <3>3, <3>4, <3>5 DEF U
  <2>3. doc' = ApplyPatch(doc, patch)
    BY <1>3 DEF SavePage
  <2> HIDE DEF patch, g
  <2>4. doc'.field \in {"v0", "v1"}
    BY <1>1, <2>2, <2>3 DEF ApplyPatch
  <2>5. doc'.token \in Secrets
    <3>1. doc'.token = Merged(doc.token, patch.token)
      BY <2>3 DEF ApplyPatch
    <3> QED
      BY <3>1, <1>1, <2>2, MergedSecret
  <2>6. doc'.entries \in EntriesOf(Secrets)
    <3>1. doc'.entries = [k \in EntryKeys |-> MergeEntry(doc.entries[k], patch.entries[k], k \in patch.deleted)]
      BY <2>3 DEF ApplyPatch
    <3>2. ASSUME NEW k \in EntryKeys
          PROVE  MergeEntry(doc.entries[k], patch.entries[k], k \in patch.deleted)
                   \in Tables(Secrets) \cup {NoEntry}
      <4>1. doc.entries[k] \in Tables(Secrets) \cup {NoEntry} /\ patch.entries[k] \in Tables(U) \cup {NoEntry}
        BY <1>1, <2>2 DEF EntriesOf
      <4>2. (k \in patch.deleted) \in BOOLEAN
        OBVIOUS
      <4> QED
        BY <4>1, <4>2, MergedEntry
    <3> QED
      BY <3>1, <3>2 DEF EntriesOf
  <2>7. doc' \in [field : {"v0", "v1"}, token : Secrets, entries : EntriesOf(Secrets)]
    <3>1. doc' = [field |-> doc'.field, token |-> doc'.token, entries |-> doc'.entries]
      BY <2>3 DEF ApplyPatch
    <3> QED
      BY <3>1, <2>4, <2>5, <2>6
  <2>8. pages' \in [Pages -> PageRecs]
    BY <1>1, <1>3, <2>6, LoadedPage DEF SavePage
  <2> QED
    BY <2>7, <2>8 DEF EditorInv
<1> QED
  BY <1>2, <1>3

LEMMA EditorStepKeeps == EditorInv /\ [EditorNext]_editorVars => EditorInv'
<1> SUFFICES ASSUME EditorInv, [EditorNext]_editorVars PROVE EditorInv'
  OBVIOUS
<1>1. CASE UNCHANGED editorVars
  BY <1>1 DEF editorVars, EditorInv
<1>2. CASE EditorNext
  BY <1>2, PageEdited, PageSaved DEF EditorNext
<1> QED
  BY <1>1, <1>2

LEMMA EditorKeepsSecrets == EditorInv => SecretsSurviveEditing
<1> SUFFICES ASSUME EditorInv PROVE SecretsSurviveEditing
  OBVIOUS
<1>1. doc.token \in Secrets /\ doc.entries \in EntriesOf(Secrets)
  BY DEF EditorInv
<1>2. ASSUME NEW k \in EntryKeys, doc.entries[k] # NoEntry PROVE doc.entries[k].secret \in Secrets
  BY <1>1, <1>2, TableFields DEF EntriesOf
<1> QED
  BY <1>1, <1>2 DEF SecretsSurviveEditing

\* With any number of pages open on the file of a runner or of an agent, and any
\* entries in it, the secrets in the file are those that were there or that a
\* user entered: neither mask nor sentinel is stored (mask_secrets, buildPatch,
\* apply_patch_to_table).
THEOREM SecretsSurvive ==
    ASSUME EditorKinds \subseteq {"runner", "agent"}
    PROVE  EditorSpec => []SecretsSurviveEditing
<1>1. EditorInit => EditorInv
  BY EditorStarts
<1> QED
  BY <1>1, EditorStepKeeps, EditorKeepsSecrets, PTL DEF EditorSpec

-----------------------------------------------------------------------------
(* The model catalog of GuestBootstrap.                                     *)

ProcPlaces == {"idle", "resolved", "fetch", "open", "write", "report", "reported", "running", "failed"}

LEMMA ProcRecFields ==
    ASSUME NEW q \in ProcRecs
    PROVE  /\ q.at \in ProcPlaces /\ q.role \in {"start", "refresh"}
           /\ q.catalog \in Upstream /\ q.catalog \in Nat /\ q.catalog # 0
           /\ \A at \in ProcPlaces :
                /\ [q EXCEPT !.at = at] \in ProcRecs /\ [q EXCEPT !.at = at].at = at
                /\ \A v \in Upstream :
                     LET next == [q EXCEPT !.at = at, !.catalog = v]
                     IN next \in ProcRecs /\ next.at = at /\ next.catalog = v
<1>1. q.catalog \in Upstream
  BY DEF ProcRecs
<1>2. q.catalog \in Nat /\ q.catalog # 0
  BY <1>1, UpstreamVersions
<1> QED
  BY <1>1, <1>2 DEF ProcRecs, ProcPlaces

\* A process takes a step; the others stay where they are.
LEMMA ProcGoes ==
    ASSUME proc \in [Processes -> ProcRecs], NEW p \in Processes, NEW next \in ProcRecs, ProcStep(p, next)
    PROVE  /\ proc' \in [Processes -> ProcRecs] /\ proc'[p] = next
           /\ \A q \in Processes \ {p} : proc'[q] = proc[q]
BY DEF ProcStep

\* The version of a cache that parses.
LEMMA CachedVersion ==
    ASSUME CatalogTypes, Cached # {}
    PROVE  FromCache.version \in Upstream
<1>1. PICK c \in {"user", "workspace"} : FromCache = cacheFile[c] /\ Parses(cacheFile[c])
  BY DEF Cached, FromCache
<1>2. cacheFile[c] \in [version : Upstream \cup {0}, size : Nat]
  BY <1>1 DEF CatalogTypes
<1> QED
  BY <1>1, <1>2 DEF Parses

\* What was settled is what the cache gives.
LEMMA SettledIsCached ==
    ASSUME CatalogInv, settled # 0
    PROVE  Cached # {} /\ FromCache.version = settled
<1>1. cacheFile["user"] = WholeFile(settled)
  BY DEF CatalogInv, WriteAlone
<1>2. cacheFile["user"].version = settled
  BY <1>1 DEF WholeFile
<1>3. "user" \in Cached
  BY <1>2 DEF Cached, Parses
<1> QED
  BY <1>2, <1>3 DEF FromCache

\* A step that leaves the files alone and opens none.
LEMMA ReadKeeps ==
    ASSUME CatalogInv, NEW p \in Processes, NEW next \in ProcRecs, next.at # "write", ReadStep(p, next)
    PROVE  CatalogInv'
<1>1. CatalogTypes /\ WriteAlone /\ proc \in [Processes -> ProcRecs]
  BY DEF CatalogInv, CatalogTypes
<1>2. cacheFile' = cacheFile /\ overlap' = overlap /\ settled' = settled /\ ProcStep(p, next)
  BY DEF ReadStep
<1>3. proc' \in [Processes -> ProcRecs] /\ proc'[p] = next /\ \A q \in Processes \ {p} : proc'[q] = proc[q]
  BY <1>1, <1>2, ProcGoes
<1>4. CatalogTypes'
  BY <1>1, <1>2, <1>3 DEF CatalogTypes
<1>5. \A q \in Processes : proc'[q].at = "write" => proc[q].at = "write"
  BY <1>3
<1>6. WriteAlone'
  BY <1>1, <1>2, <1>5 DEF WriteAlone
<1> QED
  BY <1>4, <1>6 DEF CatalogInv

\* Opening the file: from here on it is this process's alone, unless another has
\* it open.
LEMMA OpenKeeps ==
    ASSUME CatalogInv, NEW p \in Processes, OpenCache(p)
    PROVE  CatalogInv'
<1>1. CatalogTypes /\ proc \in [Processes -> ProcRecs] /\ proc[p] \in ProcRecs
  BY DEF CatalogInv, CatalogTypes
<1> DEFINE next == [proc[p] EXCEPT !.at = "write"]
<1>2. next \in ProcRecs /\ next.at = "write"
  BY <1>1, ProcRecFields DEF ProcPlaces
<1>3. /\ cacheFile' = [cacheFile EXCEPT !["user"] = Nothing] /\ ProcStep(p, next) /\ settled' = 0
      /\ overlap' = (\E q \in Processes \ {p} : proc[q].at = "write")
  BY DEF OpenCache, Opened
<1> HIDE DEF next
<1>4. proc' \in [Processes -> ProcRecs] /\ proc'[p] = next /\ \A q \in Processes \ {p} : proc'[q] = proc[q]
  BY <1>1, <1>2, <1>3, ProcGoes
<1>5. /\ cacheFile' \in [{"user", "workspace"} -> [version : Upstream \cup {0}, size : Nat]]
      /\ cacheFile'["user"] = Nothing
  BY <1>1, <1>3 DEF CatalogTypes, Nothing
<1>6. CatalogTypes'
  BY <1>3, <1>4, <1>5 DEF CatalogTypes
<1>7. ASSUME ~overlap', NEW q \in Processes, proc'[q].at = "write"
      PROVE  q = p /\ \A r \in Processes \ {q} : proc'[r].at # "write"
  BY <1>3, <1>4, <1>7
<1>8. WriteAlone'
  BY <1>3, <1>5, <1>7 DEF WriteAlone
<1> QED
  BY <1>6, <1>8 DEF CatalogInv

\* A process that had the file for itself leaves in it what it wrote.
LEMMA FillKeeps ==
    ASSUME CatalogInv, NEW p \in Processes, FillCache(p)
    PROVE  CatalogInv'
<1>1. CatalogTypes /\ WriteAlone /\ proc \in [Processes -> ProcRecs] /\ proc[p] \in ProcRecs
  BY DEF CatalogInv, CatalogTypes
<1> DEFINE v == proc[p].catalog
           next == [proc[p] EXCEPT !.at = IF proc[p].role = "start" THEN "resolved" ELSE "report"]
<1>2. next \in ProcRecs /\ next.at # "write"
  BY <1>1, ProcRecFields DEF ProcPlaces
<1>3. v \in Upstream /\ v \in Nat /\ v # 0
  BY <1>1, ProcRecFields
<1>4. /\ proc[p].at = "write" /\ ProcStep(p, next) /\ overlap' = overlap
      /\ cacheFile' = [cacheFile EXCEPT !["user"] = Written(cacheFile["user"], v)]
      /\ settled' = IF overlap THEN 0 ELSE v
  BY DEF FillCache
<1> HIDE DEF next, v
<1>5. proc' \in [Processes -> ProcRecs] /\ proc'[p] = next /\ \A q \in Processes \ {p} : proc'[q] = proc[q]
  BY <1>1, <1>2, <1>4, ProcGoes
<1>6. cacheFile["user"] \in [version : Upstream \cup {0}, size : Nat]
  BY <1>1 DEF CatalogTypes
<1>7. Written(cacheFile["user"], v) \in [version : Upstream \cup {0}, size : Nat]
  BY <1>3, <1>6 DEF Written, WholeFile
<1>8. /\ cacheFile' \in [{"user", "workspace"} -> [version : Upstream \cup {0}, size : Nat]]
      /\ cacheFile'["user"] = Written(cacheFile["user"], v)
  BY <1>1, <1>4, <1>7 DEF CatalogTypes
<1>9. CatalogTypes'
  BY <1>1, <1>3, <1>4, <1>5, <1>8 DEF CatalogTypes
<1>10. CASE overlap
  BY <1>4, <1>9, <1>10 DEF WriteAlone, CatalogInv
<1>11. CASE ~overlap
  <2>1. cacheFile["user"] = Nothing /\ \A q \in Processes \ {p} : proc[q].at # "write"
    BY <1>1, <1>4, <1>11 DEF WriteAlone
  <2>2. cacheFile'["user"] = WholeFile(v)
    BY <1>3, <1>8, <2>1 DEF Written, Nothing
  <2>3. \A q \in Processes : proc'[q].at # "write"
    BY <1>2, <1>5, <2>1
  <2>4. WriteAlone'
    BY <1>4, <1>11, <2>2, <2>3 DEF WriteAlone
  <2> QED
    BY <1>9, <2>4 DEF CatalogInv
<1> QED
  BY <1>10, <1>11

\* A write that breaks off: nothing is settled from when the file was opened.
LEMMA WriteFailsKeeps ==
    ASSUME CatalogInv, NEW p \in Processes, WriteFails(p)
    PROVE  CatalogInv'
<1>1. CatalogTypes /\ WriteAlone /\ proc \in [Processes -> ProcRecs] /\ proc[p] \in ProcRecs
  BY DEF CatalogInv, CatalogTypes
<1>2. proc[p].catalog \in Nat
  BY <1>1, ProcRecFields
<1>3. PICK size \in 0..(proc[p].catalog - 1), end \in {"resolved", "failed"} :
        /\ proc[p].at = "open" => size = 0
        /\ cacheFile' = [cacheFile EXCEPT !["user"] = PartlyWritten(cacheFile["user"], size)]
        /\ ProcStep(p, [proc[p] EXCEPT !.at = end])
  BY DEF WriteFails
<1>4. proc[p].at \in {"open", "write"} /\ overlap' = overlap /\ settled' = settled
  BY DEF WriteFails
<1> DEFINE next == [proc[p] EXCEPT !.at = end]
<1>5. next \in ProcRecs /\ next.at # "write" /\ ProcStep(p, next)
  BY <1>1, <1>3, ProcRecFields DEF ProcPlaces
<1> HIDE DEF next
<1>6. proc' \in [Processes -> ProcRecs] /\ proc'[p] = next /\ \A q \in Processes \ {p} : proc'[q] = proc[q]
  BY <1>1, <1>5, ProcGoes
<1>7. cacheFile["user"] \in [version : Upstream \cup {0}, size : Nat] /\ size \in Nat
  BY <1>1, <1>2 DEF CatalogTypes
<1>8. PartlyWritten(cacheFile["user"], size) \in [version : Upstream \cup {0}, size : Nat]
  BY <1>7 DEF PartlyWritten
<1>9. /\ cacheFile' \in [{"user", "workspace"} -> [version : Upstream \cup {0}, size : Nat]]
      /\ cacheFile'["user"] = PartlyWritten(cacheFile["user"], size)
  BY <1>1, <1>3, <1>8 DEF CatalogTypes
<1>10. CatalogTypes'
  BY <1>1, <1>4, <1>6, <1>9 DEF CatalogTypes
<1>11. \A q \in Processes : proc'[q].at = "write" => q # p /\ proc[q].at = "write"
  BY <1>5, <1>6
<1>12. CASE proc[p].at = "open"
  <2>1. cacheFile'["user"] = cacheFile["user"]
    BY <1>3, <1>9, <1>12 DEF PartlyWritten
  <2>2. WriteAlone'
    BY <1>1, <1>4, <1>11, <2>1 DEF WriteAlone
  <2> QED
    BY <1>10, <2>2 DEF CatalogInv
<1>13. CASE proc[p].at = "write"
  <2>1. settled = 0 /\ (~overlap => \A q \in Processes \ {p} : proc[q].at # "write")
    BY <1>1, <1>13 DEF WriteAlone
  <2>2. ~overlap => \A q \in Processes : proc'[q].at # "write"
    BY <1>11, <2>1
  <2>3. WriteAlone'
    BY <1>4, <2>1, <2>2 DEF WriteAlone
  <2> QED
    BY <1>10, <2>3 DEF CatalogInv
<1> QED
  BY <1>4, <1>12, <1>13

LEMMA CatalogStarts == CatalogInit => CatalogInv
<1> SUFFICES ASSUME CatalogInit PROVE CatalogInv
  OBVIOUS
<1>1. 1 \in Upstream
  BY UpstreamVersions
<1>2. \A role \in {"start", "refresh"} : Fresh(role) \in ProcRecs /\ Fresh(role).at = "idle"
  BY <1>1 DEF Fresh, ProcRecs
<1>3. proc \in [Processes -> ProcRecs] /\ \A p \in Processes : proc[p].at = "idle"
  BY <1>2 DEF CatalogInit
<1>4. cacheFile \in [{"user", "workspace"} -> {Nothing, WholeFile(1)}]
      /\ overlap = FALSE /\ settled = cacheFile["user"].version
  BY DEF CatalogInit
<1>5. {Nothing, WholeFile(1)} \subseteq [version : Upstream \cup {0}, size : Nat]
  BY <1>1 DEF Nothing, WholeFile
<1>6. CatalogTypes
  <2>1. cacheFile \in [{"user", "workspace"} -> [version : Upstream \cup {0}, size : Nat]]
    BY <1>4, <1>5
  <2> QED
    BY <1>3, <1>4, <2>1 DEF CatalogTypes
<1>7. settled # 0 => cacheFile["user"] = WholeFile(settled)
  BY <1>4 DEF Nothing, WholeFile
<1>8. WriteAlone
  BY <1>3, <1>7 DEF WriteAlone
<1> QED
  BY <1>6, <1>8 DEF CatalogInv

LEMMA CatalogStepKeeps ==
    ASSUME CatalogInv, NEW p \in Processes, CatalogStep(p)
    PROVE  CatalogInv'
<1>1. CatalogTypes /\ proc[p] \in ProcRecs /\ 1 \in Upstream
  BY UpstreamVersions DEF CatalogInv, CatalogTypes
<1>2. \A at \in ProcPlaces :
        /\ [proc[p] EXCEPT !.at = at] \in ProcRecs /\ [proc[p] EXCEPT !.at = at].at = at
        /\ \A v \in Upstream : LET next == [proc[p] EXCEPT !.at = at, !.catalog = v]
                               IN next \in ProcRecs /\ next.at = at
  BY <1>1 DEF ProcRecs, ProcPlaces
<1>3. ASSUME NEW at \in ProcPlaces \ {"write"}, ReadStep(p, [proc[p] EXCEPT !.at = at])
      PROVE  CatalogInv'
  BY <1>2, <1>3, ReadKeeps
<1>4. ASSUME NEW at \in ProcPlaces \ {"write"}, NEW v \in Upstream,
             ReadStep(p, [proc[p] EXCEPT !.at = at, !.catalog = v])
      PROVE  CatalogInv'
  <2>1. [proc[p] EXCEPT !.at = at, !.catalog = v] \in ProcRecs /\ [proc[p] EXCEPT !.at = at, !.catalog = v].at # "write"
    BY <1>2
  <2> QED
    BY <1>4, <2>1, ReadKeeps
<1>5. CASE LookUp(p)
  <2>1. CASE Cached # {}
    <3>1. FromCache.version \in Upstream
      BY <1>1, <2>1, CachedVersion
    <3> QED
      BY <1>4, <1>5, <2>1, <3>1 DEF LookUp, ProcPlaces
  <2>2. CASE Cached = {}
    BY <1>3, <1>5, <2>2 DEF LookUp, ProcPlaces
  <2> QED
    BY <2>1, <2>2
<1>6. CASE BeginRefresh(p)
  BY <1>3, <1>6 DEF BeginRefresh, ProcPlaces
<1>7. CASE Fetch(p)
  <2>1. CASE \E v \in Upstream : ReadStep(p, [proc[p] EXCEPT !.at = "open", !.catalog = v])
    BY <1>4, <2>1 DEF ProcPlaces
  <2>2. CASE ReadStep(p, [proc[p] EXCEPT !.at = IF proc[p].role = "start" THEN "resolved" ELSE "failed",
                                        !.catalog = 1])
    <3>1. (IF proc[p].role = "start" THEN "resolved" ELSE "failed") \in ProcPlaces \ {"write"}
      BY DEF ProcPlaces
    <3> QED
      BY <1>1, <1>4, <2>2, <3>1
  <2> QED
    BY <1>7, <2>1, <2>2 DEF Fetch
<1>8. CASE ReportRefresh(p)
  <2>1. (IF Cached # {} THEN FromCache.version ELSE 1) \in Upstream
    BY <1>1, CachedVersion
  <2> QED
    BY <1>4, <1>8, <2>1 DEF ReportRefresh, ProcPlaces
<1>9. CASE BuildFromCatalog(p)
  <2>1. PICK at \in {"running", "failed"} : ReadStep(p, [proc[p] EXCEPT !.at = at])
    BY <1>9 DEF BuildFromCatalog
  <2> QED
    BY <1>3, <2>1 DEF ProcPlaces
<1> QED
  BY <1>5, <1>6, <1>7, <1>8, <1>9, OpenKeeps, FillKeeps, WriteFailsKeeps DEF CatalogStep

LEMMA CatalogNextKeeps == CatalogInv /\ [CatalogNext]_catalogVars => CatalogInv'
<1> SUFFICES ASSUME CatalogInv, [CatalogNext]_catalogVars PROVE CatalogInv'
  OBVIOUS
<1>1. CASE UNCHANGED catalogVars
  BY <1>1 DEF catalogVars, CatalogInv, CatalogTypes, WriteAlone
<1>2. CASE CatalogNext
  BY <1>2, CatalogStepKeeps DEF CatalogNext
<1> QED
  BY <1>1, <1>2

\* A start that looks for the catalog, and a refresh that reports, find the version
\* that was settled.
LEMMA SettledServes ==
    ASSUME CatalogInv, NEW q \in Processes, CatalogStep(q), NEW p \in Processes, settled # 0,
           proc'[p].at # proc[p].at,
           proc[p].at = "report" \/ (proc[p].at = "idle" /\ proc[p].role = "start")
    PROVE  proc'[p].at \in {"resolved", "reported"} /\ proc'[p].catalog = settled
<1>1. CatalogTypes /\ proc \in [Processes -> ProcRecs] /\ proc[p] \in ProcRecs
  BY DEF CatalogInv, CatalogTypes
<1>2. \E next : ProcStep(q, next)
  BY DEF CatalogStep, LookUp, BeginRefresh, Fetch, OpenCache, FillCache, WriteFails, ReportRefresh,
         BuildFromCatalog, ReadStep
<1>3. q = p
  BY <1>1, <1>2 DEF ProcStep
<1>4. LookUp(p) \/ ReportRefresh(p)
  BY <1>3 DEF CatalogStep, BeginRefresh, Fetch, OpenCache, FillCache, WriteFails, BuildFromCatalog
<1>5. Cached # {} /\ FromCache.version = settled
  BY SettledIsCached
<1>6. PICK at \in {"resolved", "reported"} : ProcStep(p, [proc[p] EXCEPT !.at = at, !.catalog = settled])
  BY <1>4, <1>5 DEF LookUp, ReportRefresh, ReadStep
<1>7. proc'[p] = [proc[p] EXCEPT !.at = at, !.catalog = settled]
  BY <1>1, <1>6 DEF ProcStep
<1>8. settled \in Upstream
  BY <1>1 DEF CatalogTypes
<1> QED
  BY <1>1, <1>7, <1>8 DEF ProcRecs

LEMMA CatalogServes ==
    CatalogInv /\ [CatalogNext]_catalogVars
    => [\A p \in Processes :
          (settled # 0 /\ proc'[p].at # proc[p].at
             /\ (proc[p].at = "report" \/ (proc[p].at = "idle" /\ proc[p].role = "start")))
          => proc'[p].at \in {"resolved", "reported"} /\ proc'[p].catalog = settled]_catalogVars
BY SettledServes DEF CatalogNext

\* With any number of processes and versions of models.dev: once a process that had
\* the cache for itself has written it, the next start takes that version and a
\* refresh reports it, whatever the length of what was there before, and until the
\* file is opened again (fs::write, load_from_cache, resolve_model_catalog).
THEOREM LastFetchIsServed == CatalogSpec => LastFetchServes
BY CatalogServes, CatalogStarts, CatalogNextKeeps, PTL DEF CatalogSpec, LastFetchServes

-----------------------------------------------------------------------------
(* The configuration as a whole, beside the other parts of MCRunner.        *)

LEMMA PartsStep ==
    ASSUME [MCNext]_MCVars
    PROVE  [EditorNext]_editorVars /\ [ConfNext]_confVars
<1>1. CASE UNCHANGED MCVars
  BY <1>1 DEF MCVars
<1>2. CASE MCNext
  <2>1. (part = "editor" => EditorNext) /\ (part = "files" => ConfNext)
    BY <1>2 DEF MCNext
  <2>2. (part # "editor" => UNCHANGED editorVars) /\ (part # "files" => UNCHANGED confVars)
    BY <1>2 DEF MCNext, MCRest
  <2> QED
    BY <2>1, <2>2
<1> QED
  BY <1>1, <1>2

\* With any number of pages, requests, users, files and kept backups: no mask takes
\* the place of a secret, what a request that is alone replaces is in a backup, and
\* registered users have their files after it, unless the pruning or the moving back
\* of a file failed (masking.rs, config_write.rs, config_migration.rs).  The edited
\* file is a runner's or an agent's: the credentials in a user's are stored masked.
THEOREM ConfigurationIsKept ==
    ASSUME EditorKinds \subseteq {"runner", "agent"}
    PROVE  MCSpec => ConfigKept
<1>1. MCInit => EditorInit /\ ConfInit
  BY DEF MCInit
<1>2. [MCNext]_MCVars => [EditorNext]_editorVars /\ [ConfNext]_confVars
  BY PartsStep
<1>3. MCSpec => EditorSpec /\ ConfSpec
  BY <1>1, <1>2, PTL DEF MCSpec, EditorSpec, ConfSpec
<1> QED
  BY <1>3, SecretsSurvive, RegisteredUsersKeepFiles, ReplacedConfigsAreBackedUp, PTL DEF ConfigKept
=============================================================================
