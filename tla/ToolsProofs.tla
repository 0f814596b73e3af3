---------------------------- MODULE ToolsProofs -----------------------------
(***************************************************************************)
(* Proofs about the stores and tools: opening and migrating the memory     *)
(* database, the memory store and its index, skills, the scheduler and its *)
(* executor, the scripts of the browser tool, and the file tools, for any  *)
(* number of openers, callers, skills, schedules, tabs and invocations.    *)
(***************************************************************************)
EXTENDS MemoryStore, Browser, FileTools, Skills, Scheduler,
        FiniteSetTheorems, TLAPS

-----------------------------------------------------------------------------
(* MemoryStore: opening the database.                                      *)

\* A process that has not opened the database has read nothing.
LEMMA NotOpenOK == NotOpen \in OpenerStates /\ \A recorded : OpenerOK(NotOpen, recorded)
BY MigrationCountType DEF OpenerStates, OpenerOK, NotOpen

\* A step of one opener that writes nothing.
LEMMA OpenerMoves ==
    ASSUME SchemaInv, UNCHANGED <<applied, built>>, NEW p \in Openers,
           NEW o \in OpenerStates, OpenerOK(o, applied),
           opener' = [opener EXCEPT ![p] = o], o.at = "open" => built = Migrations
    PROVE  SchemaInv'
BY DEF SchemaInv, OpenIsComplete, SchemaMatchesRecord

\* What an opener has passed stays recorded when another version is.
LEMMA RecordGrows ==
    ASSUME SchemaInv, NEW v \in Migrations
    PROVE  \A o \in OpenerStates : OpenerOK(o, applied) => OpenerOK(o, applied \cup {v})
BY DEF OpenerOK

\* Each step of an opener keeps the record gap-free and the schema equal to
\* it: only CommitMigration writes, both at once, and never past a version
\* that is missing.
LEMMA SchemaStep ==
    ASSUME SchemaInv, [SchemaNext]_schemaVars
    PROVE  SchemaInv'
<1>0. NotOpen \in OpenerStates /\ OpenerOK(NotOpen, applied)
  BY NotOpenOK
<1>1. CASE UNCHANGED schemaVars
  BY <1>1 DEF schemaVars, SchemaInv, OpenIsComplete, SchemaMatchesRecord
<1>2. ASSUME NEW p \in Openers, OpenDatabase(p) PROVE SchemaInv'
  <2> DEFINE o == [at |-> "migrating", seen |-> applied, next |-> 1]
  <2>1. 1 \in 1..(MigrationCount + 1) /\ \A v \in Migrations : ~(v < 1)
    BY MigrationCountType DEF Migrations
  <2>2. o \in OpenerStates
    BY <2>1 DEF SchemaInv, OpenerStates
  <2>3. OpenerOK(o, applied)
    BY <2>1 DEF OpenerOK
  <2> QED
    BY <1>2, <2>2, <2>3, OpenerMoves DEF OpenDatabase
<1>3. ASSUME NEW p \in Openers, SkipApplied(p) PROVE SchemaInv'
  <2> DEFINE o == [opener[p] EXCEPT !.next = @ + 1]
  <2>1. opener[p] \in OpenerStates /\ OpenerOK(opener[p], applied)
    BY DEF SchemaInv
  <2>2. opener[p].next \in Migrations /\ opener[p].next \in applied
    BY <1>3, <2>1 DEF SkipApplied, OpenerStates, OpenerOK
  <2>3. /\ opener[p].next + 1 \in 1..(MigrationCount + 1)
        /\ \A v \in Migrations : v < opener[p].next + 1 => v < opener[p].next \/ v = opener[p].next
    BY <2>2, MigrationCountType DEF Migrations
  <2>4. o \in OpenerStates
    BY <2>1, <2>3 DEF OpenerStates
  <2>5. OpenerOK(o, applied)
    BY <1>3, <2>1, <2>2, <2>3 DEF SkipApplied, OpenerStates, OpenerOK
  <2>6. opener' = [opener EXCEPT ![p] = o] /\ o.at # "open" /\ UNCHANGED <<applied, built>>
    BY <1>3, <2>1 DEF SkipApplied, SchemaInv, OpenerStates
  <2> QED
    BY <2>4, <2>5, <2>6, OpenerMoves
<1>4. ASSUME NEW p \in Openers, BeginMigration(p) PROVE SchemaInv'
  <2> DEFINE o == [opener[p] EXCEPT !.at = "in transaction"]
  <2>1. opener[p] \in OpenerStates /\ OpenerOK(opener[p], applied)
    BY DEF SchemaInv
  <2>2. o \in OpenerStates /\ OpenerOK(o, applied) /\ o.at # "open"
    BY <1>4, <2>1 DEF BeginMigration, OpenerStates, OpenerOK
  <2>3. CASE opener' = [opener EXCEPT ![p] = o] /\ UNCHANGED <<applied, built>>
    BY <2>2, <2>3, OpenerMoves
  <2>4. CASE opener' = [opener EXCEPT ![p] = NotOpen] /\ UNCHANGED <<applied, built>>
    BY <1>0, <2>4, OpenerMoves DEF NotOpen
  <2> QED
    BY <1>4, <2>3, <2>4 DEF BeginMigration, Move, SchemaInv
<1>5. ASSUME NEW p \in Openers, CommitMigration(p) PROVE SchemaInv'
  <2> DEFINE v == opener[p].next
             o == [opener[p] EXCEPT !.at = "migrating", !.next = @ + 1]
  <2>1. opener[p] \in OpenerStates /\ OpenerOK(opener[p], applied)
    BY DEF SchemaInv
  <2>2. v \in Migrations /\ \A u \in Migrations : u < v => u \in applied
    BY <1>5, <2>1 DEF CommitMigration, OpenerOK
  <2>3. CASE v \in applied
    BY <1>0, <1>5, <2>3, OpenerMoves DEF CommitMigration, NotOpen
  <2>4. CASE v \notin applied
    <3>1. /\ applied' = applied \cup {v} /\ built' = built \cup {v}
          /\ opener' = [opener EXCEPT ![p] = o]
      BY <1>5, <2>1, <2>4 DEF CommitMigration, SchemaInv, OpenerStates
    <3>2. \A u \in Migrations : u < v + 1 => u \in applied'
      BY <2>2, <3>1, MigrationCountType DEF Migrations
    <3>3. o \in OpenerStates
      <4>1. v + 1 \in 1..(MigrationCount + 1)
        BY <2>2, MigrationCountType DEF Migrations
      <4> QED
        BY <2>1, <4>1 DEF OpenerStates
    <3>4. OpenerOK(o, applied')
      BY <2>1, <3>1, <3>2 DEF OpenerStates, OpenerOK
    <3>5. \A q \in Openers : OpenerOK(opener'[q], applied')
      BY <2>2, <3>1, <3>4, RecordGrows DEF SchemaInv
    <3>6. applied' \subseteq Migrations /\ opener' \in [Openers -> OpenerStates]
      BY <2>2, <3>1, <3>3 DEF SchemaInv
    <3>7. SchemaMatchesRecord'
      BY <2>2, <3>1 DEF SchemaInv, SchemaMatchesRecord
    <3>8. OpenIsComplete'
      BY <2>2, <3>1, <2>1 DEF SchemaInv, OpenIsComplete, OpenerStates
    <3> QED
      BY <3>5, <3>6, <3>7, <3>8 DEF SchemaInv
  <2> QED
    BY <2>3, <2>4
<1>6. ASSUME NEW p \in Openers, VerifySchema(p) PROVE SchemaInv'
  <2> DEFINE o == [opener[p] EXCEPT !.at = IF built = Migrations THEN "open" ELSE "closed"]
  <2>1. opener[p] \in OpenerStates /\ OpenerOK(opener[p], applied)
    BY DEF SchemaInv
  <2>2. o \in OpenerStates /\ OpenerOK(o, applied) /\ (o.at = "open" => built = Migrations)
    BY <2>1 DEF OpenerStates, OpenerOK
  <2>3. opener' = [opener EXCEPT ![p] = o] /\ UNCHANGED <<applied, built>>
    BY <1>6, <2>1 DEF VerifySchema, Move, SchemaInv
  <2> QED
    BY <2>2, <2>3, OpenerMoves
<1>7. ASSUME NEW p \in Openers, Crash(p) PROVE SchemaInv'
  BY <1>0, <1>7, OpenerMoves DEF Crash, NotOpen
<1> QED
  BY <1>1, <1>2, <1>3, <1>4, <1>5, <1>6, <1>7 DEF SchemaNext

\* Whoever has the memory database open has the whole schema, and the schema
\* is what memory_migrations records, whatever openers race or die.
THEOREM DatabaseIsComplete == SchemaSpec => []DatabaseComplete
<1>1. SchemaInit => SchemaInv
  <2> SUFFICES ASSUME SchemaInit PROVE SchemaInv
    OBVIOUS
  <2>1. NotOpen \in OpenerStates /\ OpenerOK(NotOpen, applied)
    BY NotOpenOK
  <2> QED
    BY <2>1 DEF SchemaInit, NotOpen, SchemaInv, SchemaMatchesRecord, OpenIsComplete
<1>2. SchemaInv /\ [SchemaNext]_schemaVars => SchemaInv'
  BY SchemaStep
<1>3. SchemaInv => DatabaseComplete
  BY DEF SchemaInv, DatabaseComplete
<1> QED
  BY <1>1, <1>2, <1>3, PTL DEF SchemaSpec

-----------------------------------------------------------------------------
(* Browser.                                                                 *)

Ending == {"act", "exit", "killed"}
Steps == {"new", "pick", "lock", "reopen", "relock", "act", "exit", "done", "killed"}
TabRecords == [listed : Seq(Locks), tab : Nat, owner : Owners]

\* What is known of one script.
LEMMA ScriptFields ==
    ASSUME BrowserInv, NEW s \in Scripts
    PROVE  /\ tabs \in Seq(Locks) /\ Len(tabs) \in Nat
           /\ script \in [Scripts -> Steps] /\ script[s] \in Steps
           /\ tabbed \in [Scripts -> TabRecords] /\ tabbed[s] \in TabRecords
           /\ tabbed[s].tab \in Nat /\ tabbed[s].owner \in Owners
           /\ tabbed[s].listed \in Seq(Locks) /\ Len(tabbed[s].listed) \in Nat
           /\ TabExists(s)
<1>1. BrowserTypeOK /\ TabExists(s)  BY DEF BrowserInv
<1>2. tabs \in Seq(Locks) /\ script \in [Scripts -> Steps] /\ tabbed \in [Scripts -> TabRecords]
  BY <1>1 DEF BrowserTypeOK, TabRecords, Steps
<1>3. script[s] \in Steps /\ tabbed[s] \in TabRecords  BY <1>2
<1>4. tabbed[s].tab \in Nat /\ tabbed[s].owner \in Owners /\ tabbed[s].listed \in Seq(Locks)
  BY <1>3 DEF TabRecords
<1>5. Len(tabs) \in Nat /\ Len(tabbed[s].listed) \in Nat  BY <1>2, <1>4
<1> QED  BY <1>1, <1>2, <1>3, <1>4, <1>5

\* There are never fewer tabs than before.
LEMMA StillWithin ==
    ASSUME NEW m \in Nat, NEW n \in Nat, n >= m, NEW i
    PROVE  /\ i \in Nat /\ i <= m => i <= n
           /\ i \in 1..m => i \in 1..n
OBVIOUS

\* Writing an item of a sequence.
LEMMA SeqUpdate ==
    ASSUME NEW S, NEW q \in Seq(S), NEW k \in 1..Len(q), NEW x \in S, NEW u, u = [q EXCEPT ![k] = x]
    PROVE  u \in Seq(S) /\ Len(u) = Len(q) /\ u[k] = x /\ \A t \in 1..Len(q) : t # k => u[t] = q[t]
OBVIOUS

\* Appending an item.
LEMMA SeqAppend ==
    ASSUME NEW S, NEW q \in Seq(S), NEW x \in S, NEW u, u = Append(q, x)
    PROVE  /\ Len(q) \in Nat /\ u \in Seq(S) /\ Len(u) = Len(q) + 1 /\ u[Len(q) + 1] = x
           /\ \A t \in 1..Len(q) : u[t] = q[t]
OBVIOUS

LEMMA OneMore ==
    ASSUME NEW m \in Nat, NEW n, n = m + 1
    PROVE  /\ n \in Nat /\ n >= m /\ m + 1 \in 1..n /\ m + 1 \in Nat
           /\ \A i \in 1..n : (i \in 1..m /\ i <= m) \/ i = m + 1
           /\ \A i \in Nat : i <= m => i <= n
OBVIOUS

\* One script moves.  A tab that is locked afterwards is one whose lock has
\* another script behind it, or the one this script ends with.
LEMMA ScriptMoves ==
    ASSUME BrowserInv, NEW s \in Scripts, NEW step \in Steps, NEW rec \in TabRecords,
           script' = [script EXCEPT ![s] = step], tabbed' = [tabbed EXCEPT ![s] = rec],
           tabs' \in Seq(Locks), Len(tabs') >= Len(tabs), TabExists(s)',
           \A t \in 1..Len(tabs') : tabs'[t] # "free" =>
               \/ /\ t <= Len(tabs) /\ tabs'[t] = tabs[t]
                  /\ script[s] \in Ending => tabbed[s].tab # t \/ tabbed[s].owner # tabs[t]
               \/ step \in Ending /\ rec.tab = t /\ rec.owner = tabs'[t]
    PROVE  BrowserInv'
<1>1. BrowserTypeOK'  BY DEF BrowserInv, BrowserTypeOK, TabRecords, Steps
<1>2. ASSUME NEW q \in Scripts  PROVE TabExists(q)'
  <2>1. CASE q = s  BY <2>1
  <2>2. CASE q # s
    <3>1. script'[q] = script[q] /\ tabbed'[q] = tabbed[q]  BY <2>2, ScriptFields
    <3>2. TabExists(q) /\ tabbed[q].tab \in Nat /\ Len(tabbed[q].listed) \in Nat /\ Len(tabs) \in Nat  BY ScriptFields
    <3>3. Len(tabs') \in Nat /\ Len(tabs') >= Len(tabs)  OBVIOUS
    <3>4. Len(tabbed[q].listed) <= Len(tabs')
      <4>1. Len(tabbed[q].listed) <= Len(tabs)  BY <3>2, Zenon DEF TabExists
      <4> QED  BY <3>2, <3>3, <4>1, StillWithin
    <3>5. script[q] \in {"lock", "reopen", "relock", "act", "exit"} => tabbed[q].tab \in 1..Len(tabs')
      <4>1. script[q] \in {"lock", "reopen", "relock", "act", "exit"} => tabbed[q].tab \in 1..Len(tabs)
        BY <3>2, Zenon DEF TabExists
      <4> QED  BY <3>2, <3>3, <4>1, StillWithin
    <3> QED  BY <3>1, <3>4, <3>5, Zenon DEF TabExists
  <2> QED  BY <2>1, <2>2
<1>3. ASSUME NEW t \in 1..Len(tabs')  PROVE LockHasScript(t)'
  <2> SUFFICES ASSUME tabs'[t] # "free"
               PROVE  \E q \in Scripts : /\ script'[q] \in Ending
                                         /\ tabbed'[q].tab = t /\ tabbed'[q].owner = tabs'[t]
    BY DEF LockHasScript, Ending
  <2>1. CASE step \in Ending /\ rec.tab = t /\ rec.owner = tabs'[t]
    <3>1. script'[s] = step /\ tabbed'[s] = rec  BY ScriptFields
    <3> QED  BY <2>1, <3>1
  <2>2. CASE /\ t <= Len(tabs) /\ tabs'[t] = tabs[t]
             /\ script[s] \in Ending => tabbed[s].tab # t \/ tabbed[s].owner # tabs[t]
    <3>1. t \in 1..Len(tabs)  BY <2>2
    <3>2. PICK q \in Scripts : script[q] \in Ending /\ tabbed[q].tab = t /\ tabbed[q].owner = tabs[t]
      BY <3>1, <2>2 DEF BrowserInv, LockHasScript, Ending
    <3>3. q # s  BY <2>2, <3>2
    <3>4. script'[q] = script[q] /\ tabbed'[q] = tabbed[q]  BY <3>3, ScriptFields
    <3> QED  BY <2>2, <3>2, <3>4
  <2> QED  BY <1>3, <2>1, <2>2
<1> QED  BY <1>1, <1>2, <1>3 DEF BrowserInv

\* A script goes on, with the tab it has or another, and locks nothing.
LEMMA ScriptGoesOn ==
    ASSUME BrowserInv, NEW s \in Scripts, NEW step \in Steps, NEW rec \in TabRecords,
           script' = [script EXCEPT ![s] = step], tabbed' = [tabbed EXCEPT ![s] = rec],
           tabs' = tabs, TabExists(s)',
           script[s] \in Ending => step \in Ending /\ rec = tabbed[s]
    PROVE  BrowserInv'
<1>1. tabs' \in Seq(Locks) /\ Len(tabs') >= Len(tabs)  BY ScriptFields
<1>2. ASSUME NEW t \in 1..Len(tabs'), tabs'[t] # "free"
      PROVE  \/ /\ t <= Len(tabs) /\ tabs'[t] = tabs[t]
                /\ script[s] \in Ending => tabbed[s].tab # t \/ tabbed[s].owner # tabs[t]
             \/ step \in Ending /\ rec.tab = t /\ rec.owner = tabs'[t]
  BY <1>2, ScriptFields
<1> QED  BY <1>1, <1>2, ScriptMoves

\* A script asks for the lock of its tab and goes on to act or exit, or it is
\* refused.
LEMMA ScriptLocks ==
    ASSUME BrowserInv, NEW s \in Scripts, NEW step \in Steps,
           script' = [script EXCEPT ![s] = step], tabbed' = tabbed,
           (LockGranted(s) /\ tabs' = [tabs EXCEPT ![tabbed[s].tab] = tabbed[s].owner]) \/ (~LockGranted(s) /\ tabs' = tabs),
           script[s] \in {"lock", "relock", "act"},
           step \in {"act", "exit"} \/ (step = "reopen" /\ ~LockGranted(s) /\ script[s] = "lock")
    PROVE  BrowserInv'
<1> DEFINE k == tabbed[s].tab
<1>0. k \in Nat /\ Len(tabs) \in Nat /\ tabs \in Seq(Locks)  BY ScriptFields
<1>1. k \in 1..Len(tabs)  BY ScriptFields DEF TabExists
<1>c. \/ LockGranted(s) /\ tabs' = [tabs EXCEPT ![k] = tabbed[s].owner]
      \/ ~LockGranted(s) /\ tabs' = tabs /\ tabs[k] # tabbed[s].owner
  BY DEF LockGranted
<1>o. tabbed[s].owner \in Locks  BY ScriptFields DEF Locks
<1> HIDE DEF k
<1>u. LockGranted(s) => /\ tabs' \in Seq(Locks) /\ Len(tabs') = Len(tabs) /\ tabs'[k] = tabbed[s].owner
                        /\ \A t \in 1..Len(tabs) : t # k => tabs'[t] = tabs[t]
  <2> SUFFICES ASSUME LockGranted(s)
               PROVE  /\ tabs' \in Seq(Locks) /\ Len(tabs') = Len(tabs) /\ tabs'[k] = tabbed[s].owner
                      /\ \A t \in 1..Len(tabs) : t # k => tabs'[t] = tabs[t]
    OBVIOUS
  <2>1. tabs' = [tabs EXCEPT ![k] = tabbed[s].owner]  BY <1>c
  <2> QED  BY ONLY <1>0, <1>1, <1>o, <2>1, SeqUpdate
<1>2. tabs' \in Seq(Locks) /\ Len(tabs') = Len(tabs)  BY <1>0, <1>c, <1>u, Zenon
<1>3. \A t \in 1..Len(tabs) : t # k => tabs'[t] = tabs[t]  BY <1>c, <1>u, Zenon
<1>4. LockGranted(s) => tabs'[k] = tabbed[s].owner  BY <1>u
<1>5. ~LockGranted(s) => tabs' = tabs /\ tabs[k] # tabbed[s].owner  BY <1>c
<1>k. k = tabbed[s].tab  BY DEF k
<1>6. tabbed' = [tabbed EXCEPT ![s] = tabbed[s]]  BY ScriptFields
<1>7. TabExists(s)'
  <2>1. script'[s] = step /\ tabbed'[s] = tabbed[s]  BY ScriptFields
  <2>2. TabExists(s) /\ Len(tabbed[s].listed) <= Len(tabs') /\ tabbed[s].tab \in 1..Len(tabs')
    BY <1>1, <1>2, <1>k, ScriptFields DEF TabExists
  <2> QED  BY <2>1, <2>2, Zenon DEF TabExists
<1>8. ASSUME NEW t \in 1..Len(tabs'), tabs'[t] # "free"
      PROVE  \/ /\ t <= Len(tabs) /\ tabs'[t] = tabs[t]
                /\ script[s] \in Ending => tabbed[s].tab # t \/ tabbed[s].owner # tabs[t]
             \/ step \in Ending /\ tabbed[s].tab = t /\ tabbed[s].owner = tabs'[t]
  <2>0. t \in 1..Len(tabs)  BY <1>2, Zenon
  <2>1. t \in 1..Len(tabs) /\ t <= Len(tabs)  BY ONLY <1>0, <2>0
  <2>2. CASE t # k  BY <1>3, <1>k, <2>1, <2>2, Zenon
  <2>3. CASE t = k /\ LockGranted(s)  BY <1>4, <1>k, <2>3 DEF Ending
  <2>4. CASE t = k /\ ~LockGranted(s)  BY <1>5, <1>k, <2>1, <2>4, Zenon
  <2> QED  BY <2>2, <2>3, <2>4
<1>9. Len(tabs') >= Len(tabs)  BY ONLY <1>0, <1>2
<1>10. tabbed[s] \in TabRecords  BY ScriptFields
<1> QED  BY <1>2, <1>6, <1>7, <1>8, <1>9, <1>10, ScriptMoves

\* A script that ends frees the tab it holds.
LEMMA ScriptUnlocks ==
    ASSUME BrowserInv, NEW s \in Scripts, UnlockOnExit(s)
    PROVE  BrowserInv'
<1> DEFINE k == tabbed[s].tab
<1>0. k \in Nat /\ Len(tabs) \in Nat /\ tabs \in Seq(Locks) /\ tabbed[s] \in TabRecords /\ "free" \in Locks
  BY ScriptFields DEF Locks
<1>1. k \in 1..Len(tabs)  BY ScriptFields DEF TabExists, UnlockOnExit
<1>k. k = tabbed[s].tab  OBVIOUS
<1>c. \/ tabs[k] = tabbed[s].owner /\ tabs' = [tabs EXCEPT ![k] = "free"]
      \/ tabs[k] # tabbed[s].owner /\ tabs' = tabs
  BY DEF UnlockOnExit
<1>s. script' = [script EXCEPT ![s] = "done"] /\ tabbed' = tabbed  BY DEF UnlockOnExit, At
<1> HIDE DEF k
<1>u. ASSUME tabs' = [tabs EXCEPT ![k] = "free"]
      PROVE  /\ tabs' \in Seq(Locks) /\ Len(tabs') = Len(tabs) /\ tabs'[k] = "free"
             /\ \A t \in 1..Len(tabs) : t # k => tabs'[t] = tabs[t]
  BY ONLY <1>0, <1>1, <1>u, SeqUpdate
<1>2. tabs' \in Seq(Locks) /\ Len(tabs') = Len(tabs)  BY <1>0, <1>c, <1>u, Zenon
<1>3. ASSUME NEW t \in 1..Len(tabs'), tabs'[t] # "free"
      PROVE  /\ t <= Len(tabs) /\ tabs'[t] = tabs[t]
             /\ script[s] \in Ending => tabbed[s].tab # t \/ tabbed[s].owner # tabs[t]
  <2>0. t \in 1..Len(tabs)  BY <1>2, Zenon
  <2>1. t <= Len(tabs)  BY ONLY <1>0, <2>0
  <2> QED  BY <1>c, <1>u, <1>k, <1>3, <2>0, <2>1, Zenon
<1>4. tabbed' = [tabbed EXCEPT ![s] = tabbed[s]]  BY <1>s, ScriptFields
<1>5. TabExists(s)'
  <2>1. script'[s] = "done" /\ tabbed'[s] = tabbed[s]  BY <1>s, ScriptFields
  <2>2. Len(tabbed[s].listed) <= Len(tabs')  BY <1>2, ScriptFields, Zenon DEF TabExists
  <2> QED  BY <2>1, <2>2, Zenon DEF TabExists
<1>6. Len(tabs') >= Len(tabs)  BY ONLY <1>0, <1>2
<1>7. "done" \in Steps  BY DEF Steps
<1> QED  BY <1>0, <1>s, <1>2, <1>3, <1>4, <1>5, <1>6, <1>7, ScriptMoves, Zenon

\* A script opens a tab, free until it locks it.
LEMMA ScriptOpens ==
    ASSUME BrowserInv, NEW s \in Scripts, OpenTab(s)
    PROVE  BrowserInv'
<1>0. Len(tabs) \in Nat /\ tabs \in Seq(Locks) /\ tabbed[s] \in TabRecords /\ "free" \in Locks
  BY ScriptFields DEF Locks
<1> DEFINE rec == [tabbed[s] EXCEPT !.tab = Len(tabs) + 1]
<1>1. PICK step \in {"lock", "relock"} : script' = [script EXCEPT ![s] = step]  BY DEF OpenTab, At
<1>2. tabs' = Append(tabs, "free") /\ tabbed' = [tabbed EXCEPT ![s] = rec] /\ script[s] \notin Ending
  BY DEF OpenTab, Ending
<1>3. /\ tabs' \in Seq(Locks) /\ Len(tabs') = Len(tabs) + 1 /\ tabs'[Len(tabs) + 1] = "free"
      /\ \A t \in 1..Len(tabs) : tabs'[t] = tabs[t]
  <2>1. PICK x \in Locks : x = "free"  BY <1>0
  <2>2. tabs' = Append(tabs, x) /\ tabs \in Seq(Locks)  BY <1>0, <1>2, <2>1
  <2>3. /\ tabs' \in Seq(Locks) /\ Len(tabs') = Len(tabs) + 1 /\ tabs'[Len(tabs) + 1] = x
        /\ \A t \in 1..Len(tabs) : tabs'[t] = tabs[t]
    BY ONLY x \in Locks, <2>2, SMTT(20)
  <2> QED  BY <2>1, <2>3, Zenon
<1>4. rec \in TabRecords /\ rec.tab = Len(tabs) + 1 /\ rec.listed = tabbed[s].listed
  <2>1. Len(tabs) + 1 \in Nat  BY <1>0, <1>3, OneMore, Zenon
  <2> QED  BY ONLY <1>0, <2>1 DEF TabRecords, rec
<1>5. Len(tabs') >= Len(tabs) /\ Len(tabs) + 1 \in 1..Len(tabs')  BY <1>0, <1>3, OneMore, Zenon
<1> HIDE DEF rec
<1>6. ASSUME NEW t \in 1..Len(tabs'), tabs'[t] # "free"
      PROVE  t <= Len(tabs) /\ tabs'[t] = tabs[t]
  <2>1. (t \in 1..Len(tabs) /\ t <= Len(tabs)) \/ t = Len(tabs) + 1  BY <1>0, <1>3, OneMore, Zenon
  <2> QED  BY <1>3, <1>6, <2>1, Zenon
<1>7. TabExists(s)'
  <2>1. script'[s] = step /\ tabbed'[s] = rec  BY <1>1, <1>2, ScriptFields
  <2>2. Len(tabbed[s].listed) <= Len(tabs')
    <3>1. Len(tabbed[s].listed) \in Nat /\ Len(tabbed[s].listed) <= Len(tabs)  BY ScriptFields, Zenon DEF TabExists
    <3>2. Len(tabs') = Len(tabs) + 1 /\ Len(tabs) \in Nat  BY <1>0, <1>3
    <3> QED  BY ONLY <3>1, <3>2
  <2> QED  BY <1>4, <1>5, <2>1, <2>2, Zenon DEF TabExists
<1>8. step \in Steps  BY DEF Steps
<1> QED  BY <1>1, <1>2, <1>3, <1>4, <1>5, <1>6, <1>7, <1>8, ScriptMoves, Zenon
\* The lock of a killed or ended script expires.
LEMMA LocksExpire ==
    ASSUME BrowserInv, LockExpires
    PROVE  BrowserInv'
<1>1. PICK k \in DOMAIN tabs : tabs' = [tabs EXCEPT ![k] = "free"]  BY DEF LockExpires
<1>2. BrowserTypeOK /\ script' = script /\ tabbed' = tabbed  BY DEF LockExpires, BrowserInv
<1>3. k \in 1..Len(tabs) /\ "free" \in Locks  BY <1>2 DEF BrowserTypeOK, Locks
<1>4. /\ tabs' \in Seq(Locks) /\ Len(tabs') = Len(tabs) /\ tabs'[k] = "free"
      /\ \A t \in 1..Len(tabs) : t # k => tabs'[t] = tabs[t]
  BY ONLY <1>1, <1>2, <1>3, SeqUpdate DEF BrowserTypeOK
<1>5. BrowserTypeOK'  BY ONLY <1>2, <1>4 DEF BrowserTypeOK
<1>6. ASSUME NEW q \in Scripts  PROVE TabExists(q)'
  <2>1. TabExists(q)  BY DEF BrowserInv
  <2> QED  BY <1>2, <1>4, <2>1 DEF TabExists
<1>7. ASSUME NEW t \in 1..Len(tabs')  PROVE LockHasScript(t)'
  <2>1. t \in 1..Len(tabs)  BY <1>4
  <2>2. LockHasScript(t)  BY <2>1 DEF BrowserInv
  <2> QED  BY <1>2, <1>4, <2>1, <2>2 DEF LockHasScript
<1> QED  BY <1>5, <1>6, <1>7 DEF BrowserInv

\* Every step of the tool keeps the invariant.
LEMMA BrowserStep == BrowserInv /\ [BrowserNext]_browserVars => BrowserInv'
<1> SUFFICES ASSUME BrowserInv, [BrowserNext]_browserVars PROVE BrowserInv'
  OBVIOUS
<1>1. ASSUME NEW s \in Scripts, RequestTab(s)  PROVE BrowserInv'
  <2>1. PICK t \in DOMAIN tabs : tabbed' = [tabbed EXCEPT ![s].tab = t]  BY <1>1 DEF RequestTab
  <2>2. t \in 1..Len(tabs)  BY ScriptFields
  <2>3. [tabbed[s] EXCEPT !.tab = t] \in TabRecords  BY <2>2, ScriptFields DEF TabRecords
  <2>4. TabExists(s)'  BY <1>1, <2>1, <2>2, ScriptFields DEF TabExists, RequestTab, At, TabRecords
  <2> QED  BY <1>1, <2>1, <2>3, <2>4, ScriptGoesOn DEF RequestTab, At, Steps, Ending
<1>2. ASSUME NEW s \in Scripts, ListTabs(s)  PROVE BrowserInv'
  <2>1. [tabbed[s] EXCEPT !.listed = tabs] \in TabRecords  BY ScriptFields DEF TabRecords
  <2>2. TabExists(s)'  BY <1>2, ScriptFields DEF TabExists, ListTabs, At, TabRecords
  <2> QED  BY <1>2, <2>1, <2>2, ScriptGoesOn DEF ListTabs, At, Steps, Ending
<1>3. ASSUME NEW s \in Scripts, PickTab(s)  PROVE BrowserInv'
  <2>1. PICK t \in Unlocked(tabbed[s].listed) : tabbed' = [tabbed EXCEPT ![s].tab = t]  BY <1>3 DEF PickTab
  <2>2. t \in 1..Len(tabbed[s].listed) /\ Len(tabbed[s].listed) <= Len(tabs) /\ Len(tabs) \in Nat
    BY ScriptFields DEF Unlocked, TabExists
  <2>3. t \in 1..Len(tabs) /\ t \in Nat  BY <2>2, ScriptFields
  <2>4. [tabbed[s] EXCEPT !.tab = t] \in TabRecords  BY <2>3, ScriptFields DEF TabRecords
  <2>5. TabExists(s)'  BY <1>3, <2>1, <2>3, ScriptFields DEF TabExists, PickTab, At, TabRecords
  <2> QED  BY <1>3, <2>1, <2>4, <2>5, ScriptGoesOn DEF PickTab, At, Steps, Ending
<1>4. ASSUME NEW s \in Scripts, OpenTab(s)  PROVE BrowserInv'
  BY <1>4, ScriptOpens
<1>5. ASSUME NEW s \in Scripts, NoTabLeft(s)  PROVE BrowserInv'
  <2>1. PICK step \in {"done", "act"} : /\ script' = [script EXCEPT ![s] = step]
                                       /\ script[s] \in {"pick", "reopen"} /\ (step = "act" => script[s] = "reopen")
    BY <1>5 DEF NoTabLeft, At
  <2>2. tabbed' = [tabbed EXCEPT ![s] = tabbed[s]] /\ tabs' = tabs  BY <1>5, ScriptFields DEF NoTabLeft
  <2>3. TabExists(s)'  BY <2>1, <2>2, ScriptFields DEF TabExists
  <2>4. step \in Steps /\ script[s] \notin Ending /\ tabbed[s] \in TabRecords  BY <2>1, ScriptFields DEF Steps, Ending
  <2> QED  BY <2>1, <2>2, <2>3, <2>4, ScriptGoesOn
<1>6. ASSUME NEW s \in Scripts, Lock(s) \/ LockAgain(s) \/ ActOnTab(s)  PROVE BrowserInv'
  <2>1. CASE tabs' = LockTab(s)
    <3>1. /\ script[s] \in {"lock", "relock", "act"} /\ tabbed' = tabbed
          /\ \E step \in {"act", "exit", "reopen"} :
                /\ script' = [script EXCEPT ![s] = step]
                /\ step \in {"act", "exit"} \/ (step = "reopen" /\ ~LockGranted(s) /\ script[s] = "lock")
      BY <1>6 DEF Lock, LockAgain, ActOnTab, At
    <3>2. \/ LockGranted(s) /\ tabs' = [tabs EXCEPT ![tabbed[s].tab] = tabbed[s].owner]
          \/ ~LockGranted(s) /\ tabs' = tabs
      BY <2>1 DEF LockTab
    <3> QED  BY <3>1, <3>2, ScriptLocks DEF Steps
  <2>2. CASE ActOnTab(s) /\ tabs' = tabs
    <3>1. tabbed' = [tabbed EXCEPT ![s] = tabbed[s]] /\ script' = [script EXCEPT ![s] = "exit"]
      BY <2>2, ScriptFields DEF ActOnTab, At
    <3>2. TabExists(s)'  BY <2>2, <3>1, ScriptFields DEF TabExists, ActOnTab
    <3> QED  BY <2>2, <3>1, <3>2, ScriptFields, ScriptGoesOn DEF Steps, Ending
  <2> QED  BY <1>6, <2>1, <2>2 DEF Lock, LockAgain, ActOnTab
<1>7. ASSUME NEW s \in Scripts, UnlockOnExit(s)  PROVE BrowserInv'
  BY <1>7, ScriptUnlocks
<1>8. ASSUME NEW s \in Scripts, KillScript(s)  PROVE BrowserInv'
  <2>1. tabbed' = [tabbed EXCEPT ![s] = tabbed[s]] /\ script' = [script EXCEPT ![s] = "killed"] /\ tabs' = tabs
    BY <1>8, ScriptFields DEF KillScript, At
  <2>2. TabExists(s)'  BY <2>1, ScriptFields DEF TabExists
  <2> QED  BY <2>1, <2>2, ScriptFields, ScriptGoesOn DEF Steps, Ending
<1>9. ASSUME LockExpires  PROVE BrowserInv'
  BY <1>9, LocksExpire
<1>10. ASSUME UNCHANGED browserVars  PROVE BrowserInv'
  BY <1>10, Zenon DEF browserVars, BrowserInv, BrowserTypeOK, TabExists, LockHasScript
<1> QED
  BY <1>1, <1>2, <1>3, <1>4, <1>5, <1>6, <1>7, <1>8, <1>9, <1>10 DEF BrowserNext

\* Once every script of the browser tool has ended without being killed, no
\* tab of the bridge stays locked (the trap of browser.rs's scripts), however
\* many scripts overlap on however many tabs and whichever sessions they are of.
THEOREM LocksAreReleased == BrowserSpec => []LocksReleased
<1>1. BrowserInit => BrowserInv
  <2> SUFFICES ASSUME BrowserInit PROVE BrowserInv
    OBVIOUS
  <2>1. "free" \in Locks  BY DEF Locks
  <2>2. tabs \in Seq(Locks) /\ Len(tabs) \in Nat /\ \A t \in 1..Len(tabs) : tabs[t] = "free"
    <3>1. CASE tabs = <<>>  BY <3>1
    <3>2. CASE tabs = <<"free">>
      <4>1. Len(tabs) = 1 /\ tabs[1] = "free"  BY <3>2
      <4>2. \A t \in 1..Len(tabs) : t = 1  BY <4>1
      <4>3. tabs \in Seq(Locks)  BY <2>1, <3>2
      <4> QED  BY <4>1, <4>2, <4>3
    <3> QED  BY <3>1, <3>2 DEF BrowserInit
  <2>3. \A s \in Scripts : script[s] = "new" /\ tabbed[s].listed = <<>>  BY DEF BrowserInit
  <2>4. BrowserTypeOK
    <3>1. <<>> \in Seq(Locks) /\ NoTab \in Nat  BY DEF NoTab
    <3>2. tabbed \in [Scripts -> [listed : Seq(Locks), tab : Nat, owner : Owners]]  BY <3>1 DEF BrowserInit
    <3> QED  BY <2>2, <3>2 DEF BrowserInit, BrowserTypeOK
  <2> QED  BY <2>2, <2>3, <2>4 DEF BrowserInv, TabExists, LockHasScript
<1>2. BrowserInv /\ [BrowserNext]_browserVars => BrowserInv'
  BY BrowserStep
<1>3. BrowserInv => LocksReleased
  BY DEF BrowserInv, BrowserTypeOK, LockHasScript, LocksReleased
<1> QED
  BY <1>1, <1>2, <1>3, PTL DEF BrowserSpec
-----------------------------------------------------------------------------
(* FileTools.                                                               *)

\* The workspace's places.
LEMMA PlacesAre ==
    /\ Places = {"a", "n", "b", "v", "i"} /\ FileNames = {"a", "n", "ln", "b", "v", "i"}
    /\ \A p \in FileNames : Canonical(p) \in Places
BY DEF Places, Content0, FileNames, RootOf, Canonical

\* What is known of one invocation.
LEMMA OpFields ==
    ASSUME FileInv, NEW o \in Ops
    PROVE  /\ ops \in [Ops -> OpRecords] /\ answers \in [Ops -> {"none", "ok", "failed"}]
           /\ files \in [Places -> Seq(Chars) \cup {Missing}]
           /\ ops[o] \in OpRecords /\ answers[o] \in {"none", "ok", "failed"} /\ OpOK(o)
BY DEF FileInv, FileTypeOK

\* One invocation takes a step.  What it wrote it has written for good, and
\* what it writes it answers for.
LEMMA OpMoves ==
    ASSUME FileInv, NEW o \in Ops, NEW op \in OpRecords, NEW a \in {"none", "ok", "failed"},
           ops' = [ops EXCEPT ![o] = op], answers' = [answers EXCEPT ![o] = a], OpOK(o)',
           files' \in [Places -> Seq(Chars) \cup {Missing}],
           \A p \in Places : Wrote(o, p) => Wrote(o, p)' /\ op.tool = ops[o].tool,
           \A p \in Places : \/ files'[p] = files[p]
                             \/ /\ Wrote(o, p)' /\ p \notin {"v", "i"}
                                /\ op.tool = "replace" => files'[p] = <<o>>
                                /\ files'[p] = Missing => op.tool = "delete",
           op.tool = "read" /\ a = "ok" => op.path \in Places /\ ContentFrom(op.path, op.text),
           \A p \in Places : Wrote(o, p)' /\ op.tool = "create" =>
                                Wrote(o, p) \/ (files[p] = Missing /\ files'[p] # Missing)
    PROVE  FileInv'
<1>0. /\ ops'[o] = op /\ answers'[o] = a
      /\ \A q \in Ops : q # o => ops'[q] = ops[q] /\ answers'[q] = answers[q]
  BY OpFields
<1>1. FileTypeOK'  BY OpFields DEF FileTypeOK
<1>2. ASSUME NEW q \in Ops  PROVE OpOK(q)'
  <2>1. CASE q = o  BY <2>1
  <2>2. CASE q # o
    <3>1. ops'[q] = ops[q] /\ answers'[q] = answers[q] /\ OpOK(q)  BY <1>0, <2>2, OpFields
    <3> QED  BY <3>1 DEF OpOK, Places, Content0, FileNames, RootOf
  <2> QED  BY <2>1, <2>2
<1>3. VaultAndInternalKept'
  <2>1. "v" \in Places /\ "i" \in Places  BY PlacesAre
  <2>2. files'["v"] = files["v"] /\ files'["i"] = files["i"]  BY <2>1
  <2> QED  BY <2>2 DEF FileInv, VaultAndInternalKept, Content0
<1>4. ASSUME NEW q \in Ops, NEW p \in Places, Wrote(q, p)
      PROVE  Wrote(q, p)' /\ ops'[q].tool = ops[q].tool
  <2>1. CASE q = o  BY <1>0, <1>4, <2>1
  <2>2. CASE q # o  BY <1>0, <1>4, <2>2 DEF Wrote, Tools
  <2> QED  BY <2>1, <2>2
<1>5. ASSUME NEW p \in Places, NEW text, ContentFrom(p, text)
      PROVE  text = Content0[p] \/ \E q \in Ops : Wrote(q, p)' /\ (ops'[q].tool = "replace" => text = <<q>>)
  BY <1>4, <1>5 DEF ContentFrom
<1>6. FilesFrom'
  <2> SUFFICES ASSUME NEW p \in Places
               PROVE  \/ files'[p] = Content0[p]
                      \/ \E q \in Ops : Wrote(q, p)' /\ (ops'[q].tool = "replace" => files'[p] = <<q>>)
    BY DEF FilesFrom, ContentFrom, Places, Content0
  <2>1. CASE files'[p] = files[p]
    <3>1. ContentFrom(p, files[p])  BY DEF FileInv, FilesFrom
    <3> QED  BY <1>5, <2>1, <3>1
  <2>2. CASE Wrote(o, p)' /\ (op.tool = "replace" => files'[p] = <<o>>)
    BY <1>0, <2>2
  <2> QED  BY <2>1, <2>2
<1>7. ReadsFrom'
  <2> SUFFICES ASSUME NEW r \in Ops, ops'[r].tool = "read", answers'[r] = "ok"
               PROVE  \/ ops'[r].text = Content0[ops'[r].path]
                      \/ \E q \in Ops : Wrote(q, ops[r].path)' /\ (ops'[q].tool = "replace" => ops'[r].text = <<q>>)
    BY DEF ReadsFrom, ContentFrom, Content0
  <2>1. ASSUME NEW p \in Places, NEW text, p = ops'[r].path, text = ops'[r].text, ContentFrom(p, text)
        PROVE  \/ ops'[r].text = Content0[ops'[r].path]
               \/ \E q \in Ops : Wrote(q, ops[r].path)' /\ (ops'[q].tool = "replace" => ops'[r].text = <<q>>)
    <3>1. CASE text = Content0[p]  BY <2>1, <3>1
    <3>2. CASE \E q \in Ops : Wrote(q, p)' /\ (ops'[q].tool = "replace" => text = <<q>>)
      BY <2>1, <3>2 DEF Wrote
    <3> QED  BY <1>5, <2>1, <3>1, <3>2
  <2>2. CASE r = o  BY <1>0, <2>1, <2>2
  <2>3. CASE r # o
    <3>1. ops'[r] = ops[r] /\ answers'[r] = answers[r] /\ OpOK(r)  BY <1>0, <2>3, OpFields
    <3>2. ops[r].path \in Places  BY <3>1 DEF OpOK
    <3>3. ContentFrom(ops[r].path, ops[r].text)  BY <3>1 DEF FileInv, ReadsFrom
    <3> QED  BY <2>1, <3>1, <3>2, <3>3
  <2> QED  BY <2>2, <2>3
<1>8. CreatorsApart'
  <2>1. ASSUME NEW p \in Places, Deleted(p)  PROVE Deleted(p)'
    BY <1>4, <2>1 DEF Deleted
  <2>2. ASSUME NEW q \in Ops, NEW p \in Places, Creates(q, p)'
        PROVE  Creates(q, p) \/ (q = o /\ files[p] = Missing /\ files'[p] # Missing /\ op.tool = "create")
    <3>1. CASE q = o
      <4>1. Wrote(o, p)' /\ op.tool = "create"  BY <1>0, <2>2, <3>1 DEF Creates
      <4>2. CASE Wrote(o, p)
        <5>1. ops[o].tool = "create"  BY <4>1, <4>2
        <5> QED  BY <3>1, <4>2, <5>1 DEF Creates
      <4> QED  BY <3>1, <4>1, <4>2
    <3>2. CASE q # o  BY <1>0, <2>2, <3>2 DEF Creates, Wrote, Tools
    <3> QED  BY <3>1, <3>2
  <2>3. ASSUME NEW q \in Ops, NEW p \in Places, Creates(q, p)
        PROVE  /\ files[p] # Missing \/ Deleted(p)
               /\ \A r \in Ops : Creates(r, p) => r = q \/ Deleted(p)
    BY <2>3 DEF FileInv, CreatorsApart
  <2>4. ASSUME NEW p \in Places, files'[p] = Missing  PROVE files[p] = Missing \/ Deleted(p)'
    <3>1. CASE Wrote(o, p)' /\ op.tool = "delete"  BY <1>0, <3>1 DEF Deleted
    <3> QED  BY <2>4, <3>1
  <2> SUFFICES ASSUME NEW p \in Places, NEW q \in Ops, Creates(q, p)'
               PROVE  /\ files'[p] # Missing \/ Deleted(p)'
                      /\ \A r \in Ops : Creates(r, p)' => r = q \/ Deleted(p)'
    BY DEF CreatorsApart, Places, Content0, Missing
  <2>5. files'[p] # Missing \/ Deleted(p)'  BY <2>1, <2>2, <2>3, <2>4
  <2>6. ASSUME NEW r \in Ops, Creates(r, p)'  PROVE r = q \/ Deleted(p)'
    BY <2>1, <2>2, <2>3, <2>6
  <2> QED  BY <2>5, <2>6
<1> QED  BY <1>1, <1>2, <1>3, <1>6, <1>7, <1>8 DEF FileInv
\* The mounts of an invocation that writes have neither the vault nor the
\* internal directory, and vault_copyto reads from the vault alone.
LEMMA MountedPlaces ==
    ASSUME NEW p \in FileNames
    PROVE  /\ \A tool \in (Tools \cup {"vault_write"}) \ {"read", "search"} :
                  EnforceMountedPath(tool, p, TRUE) => Canonical(p) \notin {"v", "i"}
           /\ EnforceMountedPath("vault_read", p, FALSE) => Canonical(p) = "v"
<1>0. /\ RootOf["v"] = "vault" /\ RootOf["i"] = "internal" /\ Canonical(p) \in Places
      /\ RootOf["a"] = "shared" /\ RootOf["n"] = "shared" /\ RootOf["b"] = "tmp"
  BY PlacesAre DEF RootOf
<1>1. ASSUME NEW tool \in (Tools \cup {"vault_write"}) \ {"read", "search"}
      PROVE  MountProfile(Profile(tool)) = [shared |-> "w", tmp |-> "w"]
  <2>1. Profile(tool) \in {"vault_write", "read_write"}  BY DEF Profile, Tools
  <2> QED  BY <2>1 DEF MountProfile
<1>2. MountProfile(Profile("vault_read")) = [vault |-> "r"]  BY DEF MountProfile, Profile
<1>3. DOMAIN [shared |-> "w", tmp |-> "w"] = {"shared", "tmp"} /\ DOMAIN [vault |-> "r"] = {"vault"}  OBVIOUS
<1>4. ASSUME NEW tool \in (Tools \cup {"vault_write"}) \ {"read", "search"}, EnforceMountedPath(tool, p, TRUE)
      PROVE  Canonical(p) \notin {"v", "i"}
  <2>1. RootOf[Canonical(p)] \in {"shared", "tmp"}  BY <1>1, <1>3, <1>4 DEF EnforceMountedPath
  <2> QED  BY <1>0, <2>1
<1>5. ASSUME EnforceMountedPath("vault_read", p, FALSE)  PROVE Canonical(p) = "v"
  <2>1. RootOf[Canonical(p)] \in {"vault"}  BY <1>2, <1>3, <1>5 DEF EnforceMountedPath
  <2> QED  BY <1>0, <2>1, PlacesAre
<1> QED  BY <1>4, <1>5

\* No content is taken for a missing file.
LEMMA MissingIsNoContent == Missing \notin Seq(Chars) /\ <<>> # Missing /\ \A o \in Ops : <<o>> \in Seq(Chars)
<1>1. Missing[1] = "missing" /\ Len(Missing) = 1  BY DEF Missing
<1>2. "missing" \notin Chars  BY OpsAssumption DEF Chars
<1>3. ASSUME Missing \in Seq(Chars)  PROVE FALSE
  <2>1. Missing[1] \in Chars  BY <1>1, <1>3
  <2> QED  BY <1>1, <1>2, <2>1
<1>4. \A o \in Ops : <<o>> \in Seq(Chars)
  <2>1. Ops \subseteq Chars  BY DEF Chars
  <2> QED  BY <2>1
<1>5. <<>> # Missing  BY <1>1
<1> QED  BY <1>3, <1>4, <1>5

\* An invocation that has not written anything yet.
LEMMA NotYetWritten ==
    ASSUME FileInv, NEW o \in Ops, ops[o].at \in {"new", "run", "copy", "edited"}, NEW p
    PROVE  ~Wrote(o, p) /\ answers[o] = "none"
BY OpFields DEF OpOK, Wrote

LEMMA OpFails ==
    ASSUME FileInv, NEW o \in Ops, ops[o].at \in {"run", "copy"}, Fails(o)
    PROVE  FileInv'
<1> DEFINE op == [ops[o] EXCEPT !.at = "done"]
<1>1. /\ op \in OpRecords /\ op.at = "done" /\ op.tool = ops[o].tool /\ op.path = ops[o].path /\ op.text = ops[o].text
      /\ ops' = [ops EXCEPT ![o] = op] /\ answers' = [answers EXCEPT ![o] = "failed"] /\ files' = files
      /\ ops[o] \in OpRecords
  BY OpFields DEF Fails, OpRecords
<1> HIDE DEF op
<1>2. ops'[o] = op /\ answers'[o] = "failed"  BY <1>1, OpFields
<1>3. OpOK(o)'  BY <1>1, <1>2, OpFields DEF OpOK, Content0, Places, FileNames, RootOf
<1>4. \A p \in Places : ~Wrote(o, p) /\ ~Wrote(o, p)'  BY <1>1, <1>2, NotYetWritten DEF Wrote
<1> QED  BY <1>1, <1>3, <1>4, OpFields, OpMoves

\* A file is truncated, or created, by an invocation that will fill it.
LEMMA OpTruncates ==
    ASSUME FileInv, NEW o \in Ops, ops[o].at \in {"run", "copy", "edited"},
           ops[o].tool \in {"write", "create", "edit", "copy"},
           NEW path \in Places \ {"v", "i"}, files' = [files EXCEPT ![path] = <<>>],
           ops' = [ops EXCEPT ![o] = [ops[o] EXCEPT !.at = "fill", !.path = path]], answers' = answers,
           ops[o].tool = "create" => files[path] = Missing
    PROVE  FileInv'
<1> DEFINE op == [ops[o] EXCEPT !.at = "fill", !.path = path]
<1>1. /\ op \in OpRecords /\ op.at = "fill" /\ op.tool = ops[o].tool /\ op.path = path /\ op.text = ops[o].text
      /\ ops[o] \in OpRecords
  <2>1. path \in FileNames  BY PlacesAre
  <2> QED  BY <2>1, OpFields DEF OpRecords
<1>2. ops' = [ops EXCEPT ![o] = op]  OBVIOUS
<1> HIDE DEF op
<1>3. ops'[o] = op /\ answers'[o] = "none" /\ answers' = [answers EXCEPT ![o] = "none"]
  BY <1>2, OpFields, NotYetWritten
<1>4. OpOK(o)'  BY <1>1, <1>3, OpFields, PlacesAre DEF OpOK, Content0, Places, FileNames, RootOf
<1>5. /\ files' \in [Places -> Seq(Chars) \cup {Missing}] /\ files'[path] = <<>>
      /\ \A p \in Places : p # path => files'[p] = files[p]
  BY OpFields
<1>6. \A p \in Places : ~Wrote(o, p) /\ (Wrote(o, p)' <=> p = path)  BY <1>1, <1>3, NotYetWritten DEF Wrote, Tools
<1>7. \A p \in Places : \/ files'[p] = files[p]
                        \/ /\ Wrote(o, p)' /\ p \notin {"v", "i"}
                           /\ op.tool = "replace" => files'[p] = <<o>>
                           /\ files'[p] = Missing => op.tool = "delete"
  BY <1>1, <1>5, <1>6, MissingIsNoContent
<1>8. \A p \in Places : Wrote(o, p)' /\ op.tool = "create" => files[p] = Missing /\ files'[p] # Missing
  BY <1>1, <1>5, <1>6, MissingIsNoContent
<1>9. op.tool # "read"  BY <1>1
<1> QED  BY ONLY FileInv, o \in Ops, <1>1, <1>2, <1>3, <1>4, <1>5, <1>6, <1>7, <1>8, <1>9, OpMoves

\* A tool call that passes or fails the tests.
LEMMA InvokeStep ==
    ASSUME FileInv, NEW o \in Ops, NEW tool \in Tools, NEW p \in FileNames, Invoke(o, tool, p, <<o>>)
    PROVE  FileInv'
<1>1. PICK at \in {"run", "done"} :
        /\ ops' = [ops EXCEPT ![o] = [tool |-> tool, path |-> Canonical(p), text |-> <<o>>, at |-> at]]
        /\ answers' = [answers EXCEPT ![o] = IF at = "run" THEN answers[o] ELSE "failed"]
        /\ at = "run" => EnforceMountedPath(tool, p, Writes(tool))
        /\ files' = files /\ tool # "copy" /\ ops[o] = NotStarted
  <2>1. ops[o] = NotStarted /\ tool # "copy" /\ files' = files  BY DEF Invoke
  <2>2. CASE (guarded => EnforceFilePath(p, Writes(tool))) /\ EnforceMountedPath(tool, p, Writes(tool))
    <3>1. answers' = [answers EXCEPT ![o] = answers[o]]  BY <2>2, OpFields DEF Invoke
    <3> QED  BY <2>1, <2>2, <3>1 DEF Invoke
  <2>3. CASE ~((guarded => EnforceFilePath(p, Writes(tool))) /\ EnforceMountedPath(tool, p, Writes(tool)))
    BY <2>1, <2>3 DEF Invoke
  <2> QED  BY <2>2, <2>3
<1> DEFINE op == [tool |-> tool, path |-> Canonical(p), text |-> <<o>>, at |-> at]
           a == IF at = "run" THEN "none" ELSE "failed"
<1>2. op \in OpRecords /\ op.tool = tool /\ op.path \in Places /\ op.path = Canonical(p) /\ op.text = <<o>> /\ op.at = at
  <2>1. Canonical(p) \in FileNames /\ Canonical(p) \in Places  BY PlacesAre
  <2> QED  BY <2>1, MissingIsNoContent DEF OpRecords
<1>3. ops[o].at = "new"  BY <1>1 DEF NotStarted
<1>4. answers' = [answers EXCEPT ![o] = a] /\ a \in {"none", "failed"} /\ (a = "none" <=> at = "run")
  BY <1>1, <1>3, NotYetWritten
<1>5. ops' = [ops EXCEPT ![o] = op]  BY <1>1
<1> HIDE DEF op, a
<1>6. ops'[o] = op /\ answers'[o] = a  BY <1>4, <1>5, OpFields
<1>7. at = "run" /\ tool \notin {"read", "search"} => op.path \notin {"v", "i"}
  BY <1>1, <1>2, MountedPlaces DEF Writes
<1>8. OpOK(o)'  BY <1>1, <1>2, <1>4, <1>6, <1>7 DEF OpOK, Tools, Content0, Places, FileNames, RootOf
<1>9. \A q \in Places : ~Wrote(o, q) /\ ~Wrote(o, q)'  BY <1>2, <1>3, <1>4, <1>6, NotYetWritten DEF Wrote
<1>10. files \in [Places -> Seq(Chars) \cup {Missing}] /\ files' = files  BY <1>1, OpFields
<1> QED  BY ONLY FileInv, o \in Ops, <1>2, <1>4, <1>5, <1>8, <1>9, <1>10, OpMoves

\* vault_copyto.
LEMMA VaultReadStep ==
    ASSUME FileInv, NEW o \in Ops, NEW from \in FileNames, NEW to \in FileNames, VaultRead(o, from, to)
    PROVE  FileInv'
<1> DEFINE op == [tool |-> "copy", path |-> to, text |-> files[Canonical(from)], at |-> "copy"]
<1>1. Canonical(from) = "v" /\ ops[o] = NotStarted /\ ops' = [ops EXCEPT ![o] = op] /\ files' = files /\ answers' = answers
  BY MountedPlaces DEF VaultRead
<1>2. files["v"] = Content0["v"] /\ "v" \in Places /\ files["v"] # Missing
  BY <1>1, PlacesAre DEF FileInv, VaultAndInternalKept, VaultRead
<1>3. files["v"] \in Seq(Chars)  BY <1>2, OpFields
<1>4. op \in OpRecords /\ op.tool = "copy" /\ op.path = to /\ op.text = Content0["v"] /\ op.at = "copy"
  BY <1>1, <1>2, <1>3 DEF OpRecords, Tools
<1> HIDE DEF op
<1>5. ops[o].at = "new"  BY <1>1 DEF NotStarted
<1>6. answers[o] = "none" /\ answers' = [answers EXCEPT ![o] = "none"]  BY <1>1, <1>5, OpFields, NotYetWritten
<1>7. ops'[o] = op /\ answers'[o] = "none"  BY <1>1, <1>6, OpFields
<1>8. OpOK(o)'  BY <1>4, <1>7 DEF OpOK, Content0, Places, FileNames, RootOf
<1>9. \A q \in Places : ~Wrote(o, q) /\ ~Wrote(o, q)'  BY <1>4, <1>5, <1>7, NotYetWritten DEF Wrote
<1>10. files \in [Places -> Seq(Chars) \cup {Missing}]  BY OpFields
<1> QED  BY ONLY FileInv, o \in Ops, <1>1, <1>4, <1>6, <1>8, <1>9, <1>10, OpMoves

LEMMA VaultWriteStep ==
    ASSUME FileInv, NEW o \in Ops, VaultWrite(o)
    PROVE  FileInv'
<1>1. ops[o].at = "copy" /\ ops[o].tool = "copy" /\ ops[o].path \in FileNames  BY OpFields DEF VaultWrite, OpOK
<1>2. CASE EnforceMountedPath("vault_write", ops[o].path, TRUE)
  <2>1. Canonical(ops[o].path) \in Places \ {"v", "i"}  BY <1>1, <1>2, MountedPlaces, PlacesAre
  <2>2. /\ files' = [files EXCEPT ![Canonical(ops[o].path)] = <<>>] /\ answers' = answers
        /\ ops' = [ops EXCEPT ![o] = [ops[o] EXCEPT !.at = "fill", !.path = Canonical(ops[o].path)]]
    BY <1>2 DEF VaultWrite
  <2> QED  BY <1>1, <2>1, <2>2, OpTruncates
<1>3. CASE Fails(o)  BY <1>1, <1>3, OpFails
<1> QED  BY <1>2, <1>3 DEF VaultWrite
\* file_edit reads the file and makes the new text.
LEMMA EditStep ==
    ASSUME FileInv, NEW o \in Ops, EditFile(o)
    PROVE  FileInv'
<1> DEFINE path == ops[o].path  old == files[path]
<1>0. ops[o] \in OpRecords /\ OpOK(o) /\ files \in [Places -> Seq(Chars) \cup {Missing}]  BY OpFields
<1>1. ops[o].at = "run" /\ ops[o].tool = "edit"  BY DEF EditFile
<1>2. CASE Fails(o)  BY <1>1, <1>2, OpFails
<1>3. CASE ~Fails(o)
  <2>1. PICK k \in Occurrences(old, "x") :
          /\ ops' = [ops EXCEPT ![o].at = "edited", ![o].text =
                        SubSeq(old, 1, k - 1) \o ops[o].text \o SubSeq(old, k + 1, Len(old))]
          /\ UNCHANGED <<files, answers>>
    BY <1>3 DEF EditFile
  <2>2. path \in Places /\ path \notin {"v", "i"} /\ ops[o].text \in Seq(Chars)  BY <1>0, <1>1 DEF OpOK, OpRecords
  <2>3. old \in Seq(Chars)
    <3>1. old # Missing
      <4>1. ASSUME old = Missing  PROVE FALSE
        <5>1. k \in DOMAIN Missing /\ Missing[k] = "x"  BY <4>1 DEF Occurrences
        <5> QED  BY <5>1 DEF Missing
      <4> QED  BY <4>1
    <3> QED  BY <1>0, <2>2, <3>1
  <2>4. k \in 1..Len(old)  BY <2>3 DEF Occurrences
  <2> DEFINE new == SubSeq(old, 1, k - 1) \o ops[o].text \o SubSeq(old, k + 1, Len(old))
             op == [ops[o] EXCEPT !.at = "edited", !.text = new]
  <2> HIDE DEF old
  <2>5. new \in Seq(Chars)
    <3>1. SubSeq(old, 1, k - 1) \in Seq(Chars)  BY <2>3, <2>4
    <3>2. SubSeq(old, k + 1, Len(old)) \in Seq(Chars)  BY <2>3, <2>4
    <3> QED  BY <2>2, <3>1, <3>2
  <2>6. ops' = [ops EXCEPT ![o] = op] /\ files' = files /\ answers' = answers  BY <2>1
  <2> HIDE DEF new
  <2>7. op \in OpRecords /\ op.at = "edited" /\ op.tool = "edit" /\ op.path = path  BY <1>0, <1>1, <2>5 DEF OpRecords
  <2> HIDE DEF op, path
  <2>8. answers[o] = "none" /\ answers' = [answers EXCEPT ![o] = "none"]  BY <1>1, <2>6, OpFields, NotYetWritten
  <2>9. ops'[o] = op /\ answers'[o] = "none"  BY <2>6, <2>8, OpFields
  <2>10. OpOK(o)'  BY <2>2, <2>7, <2>9 DEF OpOK, Content0, Places, FileNames, RootOf
  <2>11. \A q \in Places : ~Wrote(o, q) /\ ~Wrote(o, q)'  BY <1>1, <2>7, <2>9, NotYetWritten DEF Wrote
  <2> QED  BY ONLY FileInv, o \in Ops, <1>0, <2>6, <2>7, <2>8, <2>10, <2>11, OpMoves
<1> QED  BY <1>2, <1>3
\* An invocation ends: it wrote its file for good, or read it.
LEMMA OpEnds ==
    ASSUME FileInv, NEW o \in Ops, NEW op \in OpRecords, op.at = "done", op.tool = ops[o].tool, op.path = ops[o].path,
           ops[o].at \in {"run", "fill"},
           ops' = [ops EXCEPT ![o] = op], answers' = [answers EXCEPT ![o] = "ok"],
           NEW text \in Seq(Chars) \cup {Missing}, files' = [files EXCEPT ![ops[o].path] = text],
           ops[o].tool \in {"read", "search"} => text = files[ops[o].path] /\ op.text = text,
           ops[o].tool \in {"copy", "replace"} => op.text = ops[o].text,
           ops[o].tool = "replace" => text = <<o>>,
           text = Missing => files[ops[o].path] = Missing \/ ops[o].tool = "delete",
           ops[o].tool = "create" => ops[o].at = "fill"
    PROVE  FileInv'
<1> DEFINE path == ops[o].path
<1>1. /\ ops[o] \in OpRecords /\ path \in Places /\ OpOK(o) /\ op.path = path /\ op.tool \in Tools \cup {"none"}
      /\ op.tool # "none" /\ (op.tool \notin {"read", "search"} => path \notin {"v", "i"})
      /\ (op.tool = "copy" => op.text = Content0["v"]) /\ (op.tool = "replace" => op.text = <<o>>)
  BY OpFields DEF OpOK, OpRecords
<1> HIDE DEF path
<1>2. ops'[o] = op /\ answers'[o] = "ok"  BY OpFields
<1>3. OpOK(o)'  BY <1>1, <1>2 DEF OpOK, Content0, Places, FileNames, RootOf
<1>4. files' = [files EXCEPT ![path] = text]  BY DEF path
<1>5. /\ files' \in [Places -> Seq(Chars) \cup {Missing}] /\ files'[path] = text
      /\ \A p \in Places : p # path => files'[p] = files[p]
  BY <1>1, <1>4, OpFields
<1>6. \A p \in Places : Wrote(o, p)' <=> p = path /\ op.tool \notin {"read", "search"}
  BY <1>1, <1>2 DEF Wrote, Tools
<1>7. \A p \in Places : Wrote(o, p) => p = path /\ ops[o].at = "fill" /\ op.tool \notin {"read", "search"}
  BY <1>1 DEF Wrote, OpOK, path
<1>8. \A p \in Places : p = path /\ ops[o].at = "fill" => Wrote(o, p)  BY <1>1 DEF Wrote, OpOK, path, Tools
<1>9. ASSUME NEW p \in Places
      PROVE  \/ files'[p] = files[p]
             \/ /\ Wrote(o, p)' /\ p \notin {"v", "i"}
                /\ op.tool = "replace" => files'[p] = <<o>>
                /\ files'[p] = Missing => op.tool = "delete"
  <2>1. CASE p = path /\ op.tool \notin {"read", "search"}  BY <1>1, <1>5, <1>6, <2>1 DEF path
  <2>2. CASE p = path /\ op.tool \in {"read", "search"}  BY <1>5, <2>2 DEF path
  <2> QED  BY <1>5, <2>1, <2>2
<1>10. op.tool = "read" => op.path \in Places /\ ContentFrom(op.path, op.text)
  <2>1. ContentFrom(path, files[path])  BY <1>1 DEF FileInv, FilesFrom
  <2> QED  BY <1>1, <2>1 DEF path
<1>11. \A p \in Places : Wrote(o, p) => Wrote(o, p)' /\ op.tool = ops[o].tool  BY <1>6, <1>7
<1>12. \A p \in Places : Wrote(o, p)' /\ op.tool = "create" => Wrote(o, p)  BY <1>6, <1>8
<1>13. "ok" \in {"none", "ok", "failed"}  OBVIOUS
<1>14. ops' = [ops EXCEPT ![o] = op] /\ answers' = [answers EXCEPT ![o] = "ok"] /\ op \in OpRecords  OBVIOUS
<1> QED  BY ONLY FileInv, o \in Ops, <1>3, <1>5, <1>9, <1>10, <1>11, <1>12, <1>13, <1>14, OpMoves

\* A step of the guest.
LEMMA GuestKeeps ==
    ASSUME FileInv, NEW o \in Ops, GuestStep(o)
    PROVE  FileInv'
<1> DEFINE path == ops[o].path
<1>0. ops[o] \in OpRecords /\ OpOK(o) /\ files \in [Places -> Seq(Chars) \cup {Missing}]  BY OpFields
<1>p. ops[o].at \in {"run", "edited", "fill"} => path \in Places /\ files[path] \in Seq(Chars) \cup {Missing}
  BY <1>0 DEF OpOK
<1>w. ops[o].at \in {"run", "edited", "fill"} /\ ops[o].tool \notin {"read", "search"} => path \notin {"v", "i"}
  BY <1>0 DEF OpOK
<1>t. ops[o].text \in Seq(Chars) /\ [ops[o] EXCEPT !.at = "fill"] = [ops[o] EXCEPT !.at = "fill", !.path = path]
  BY <1>0 DEF OpRecords
<1>d. ASSUME NEW text \in Seq(Chars)
      PROVE  LET op == [ops[o] EXCEPT !.at = "done", !.text = text]
             IN op \in OpRecords /\ op.at = "done" /\ op.tool = ops[o].tool /\ op.path = path /\ op.text = text
  BY <1>0, <1>d DEF OpRecords
<1>e. [ops[o] EXCEPT !.at = "done"] = [ops[o] EXCEPT !.at = "done", !.text = ops[o].text]
  BY <1>0 DEF OpRecords
<1>1. CASE Read(o)
  <2>1. CASE Fails(o)  BY <1>1, <2>1, OpFails DEF Read
  <2>2. CASE files[path] # Missing /\ ~Fails(o)
    <3> DEFINE op == [ops[o] EXCEPT !.at = "done", !.text = files[path]]
    <3>1. files[path] \in Seq(Chars) /\ path \in Places /\ ops[o].at = "run"  BY <1>1, <1>p, <2>2 DEF Read
    <3>2. op \in OpRecords /\ op.at = "done" /\ op.tool = ops[o].tool /\ op.path = path /\ op.text = files[path]
      BY <1>d, <3>1
    <3>3. /\ ops' = [ops EXCEPT ![o] = op] /\ answers' = [answers EXCEPT ![o] = "ok"]
          /\ files' = files /\ ops[o].tool \in {"read", "search"}
      BY <1>1, <2>2 DEF Read
    <3>4. files' = [files EXCEPT ![path] = files[path]]  BY <1>0, <3>1, <3>3
    <3> HIDE DEF op
    <3> QED  BY <2>2, <3>1, <3>2, <3>3, <3>4, OpEnds
  <2> QED  BY <1>1, <2>1, <2>2 DEF Read
<1>2. CASE Truncate(o) \/ WriteEdited(o)
  BY <1>0, <1>2, <1>p, <1>w, <1>t, OpTruncates DEF Truncate, WriteEdited, OpOK
<1>3. CASE CreateNew(o)
  <2>1. CASE Fails(o)  BY <1>3, <2>1, OpFails DEF CreateNew
  <2>2. CASE files[path] = Missing  BY <1>3, <2>2, <1>p, <1>w, <1>t, OpTruncates DEF CreateNew
  <2> QED  BY <1>3, <2>1, <2>2 DEF CreateNew
<1>4. CASE Fill(o)
  <2> DEFINE op == [ops[o] EXCEPT !.at = "done", !.text = ops[o].text]
             text == IF files[path] = Missing THEN files[path] ELSE ops[o].text
  <2>1. op \in OpRecords /\ op.at = "done" /\ op.tool = ops[o].tool /\ op.path = path /\ op.text = ops[o].text
    BY <1>d, <1>t
  <2>2. /\ ops' = [ops EXCEPT ![o] = op] /\ answers' = [answers EXCEPT ![o] = "ok"] /\ ops[o].at = "fill"
        /\ files' = [files EXCEPT ![path] = text]
    BY <1>4, <1>e DEF Fill
  <2>3. ops[o].tool \in {"write", "create", "edit", "copy"}  BY <1>0, <2>2 DEF OpOK
  <2>4. text \in Seq(Chars) \cup {Missing} /\ (text = Missing => files[path] = Missing)
    BY <1>t, <1>p, <2>2, MissingIsNoContent
  <2> HIDE DEF op, text
  <2> QED  BY <2>1, <2>2, <2>3, <2>4, OpEnds
<1>5. CASE Replace(o)
  <2> DEFINE op == [ops[o] EXCEPT !.at = "done", !.text = ops[o].text]
  <2>1. op \in OpRecords /\ op.at = "done" /\ op.tool = ops[o].tool /\ op.path = path /\ op.text = ops[o].text
    BY <1>d, <1>t
  <2>2. /\ ops' = [ops EXCEPT ![o] = op] /\ answers' = [answers EXCEPT ![o] = "ok"]
        /\ ops[o].at = "run" /\ ops[o].tool = "replace" /\ files' = [files EXCEPT ![path] = ops[o].text]
    BY <1>5, <1>e DEF Replace
  <2>3. ops[o].text = <<o>> /\ ops[o].text # Missing  BY <1>0, <1>t, <2>2, MissingIsNoContent DEF OpOK
  <2> HIDE DEF op
  <2> QED  BY <1>t, <2>1, <2>2, <2>3, OpEnds
<1>6. CASE DeleteFile(o)
  <2>1. CASE Fails(o)  BY <1>6, <2>1, OpFails DEF DeleteFile
  <2>2. CASE files[path] # Missing
    <3> DEFINE op == [ops[o] EXCEPT !.at = "done", !.text = ops[o].text]
    <3>1. op \in OpRecords /\ op.at = "done" /\ op.tool = ops[o].tool /\ op.path = path /\ op.text = ops[o].text
      BY <1>d, <1>t
    <3>2. /\ ops' = [ops EXCEPT ![o] = op] /\ answers' = [answers EXCEPT ![o] = "ok"]
          /\ ops[o].at = "run" /\ ops[o].tool = "delete" /\ files' = [files EXCEPT ![path] = Missing]
      BY <1>6, <1>e, <2>2 DEF DeleteFile
    <3> HIDE DEF op
    <3> QED  BY <3>1, <3>2, OpEnds
  <2> QED  BY <1>6, <2>1, <2>2 DEF DeleteFile
<1>7. CASE EditFile(o)
  BY <1>7, EditStep
<1> QED  BY <1>1, <1>2, <1>3, <1>4, <1>5, <1>6, <1>7 DEF GuestStep
\* Every step of the file tools keeps the invariant.
LEMMA FileStep == FileInv /\ [FileNext]_fileVars => FileInv'
<1> SUFFICES ASSUME FileInv, [FileNext]_fileVars PROVE FileInv'
  OBVIOUS
<1>1. CASE FileNext
  <2>1. PICK o \in Ops : \/ \E tool \in Tools, p \in FileNames : Invoke(o, tool, p, <<o>>)
                         \/ \E from \in {"v", "ln", "a"}, to \in {"a", "b", "ln"} : VaultRead(o, from, to)
                         \/ VaultWrite(o) \/ GuestStep(o)
    BY <1>1 DEF FileNext
  <2>2. {"v", "ln", "a"} \subseteq FileNames /\ {"a", "b", "ln"} \subseteq FileNames  BY PlacesAre
  <2> QED  BY <2>1, <2>2, InvokeStep, VaultReadStep, VaultWriteStep, GuestKeeps
<1>2. CASE UNCHANGED fileVars
  BY <1>2 DEF fileVars, FileInv, FileTypeOK, VaultAndInternalKept, OpOK, FilesFrom, ReadsFrom, ContentFrom,
             CreatorsApart, Creates, Deleted, Wrote
<1> QED  BY <1>1, <1>2

\* What the invariant says of the answers the tools gave.
LEMMA FilesAreSafe == FileInv => FilesSafe
<1> SUFFICES ASSUME FileInv PROVE FilesSafe
  OBVIOUS
<1>0. ASSUME NEW o \in Ops, NEW p, Wrote(o, p)  PROVE o \in Writers(p)
  <2>1. answers[o] # "failed"  BY <1>0, OpFields DEF Wrote, OpOK
  <2> QED  BY <1>0, <2>1 DEF Wrote, Writers
<1>1. VaultAndInternalKept  BY DEF FileInv
<1>2. ReplacedFilesReadWhole
  <2> SUFFICES ASSUME NEW r \in Ops, ops[r].tool = "read", answers[r] = "ok",
                      \A w \in Writers(ops[r].path) : ops[w].tool = "replace"
               PROVE  ops[r].text \in {Content0[ops[r].path]} \cup {<<o>> : o \in Writers(ops[r].path)}
    BY DEF ReplacedFilesReadWhole
  <2>1. ContentFrom(ops[r].path, ops[r].text)  BY DEF FileInv, ReadsFrom
  <2>2. CASE ops[r].text = Content0[ops[r].path]  BY <2>2
  <2>3. CASE \E o \in Ops : Wrote(o, ops[r].path) /\ (ops[o].tool = "replace" => ops[r].text = <<o>>)
    <3>1. PICK o \in Ops : Wrote(o, ops[r].path) /\ (ops[o].tool = "replace" => ops[r].text = <<o>>)  BY <2>3
    <3>2. o \in Writers(ops[r].path)  BY <1>0, <3>1
    <3>3. ops[r].text = <<o>>  BY <3>1, <3>2
    <3> QED  BY <3>2, <3>3
  <2> QED  BY <2>1, <2>2, <2>3 DEF ContentFrom
<1>3. CreatedOnce
  <2> SUFFICES ASSUME NEW p \in Places, \A w \in Writers(p) : ops[w].tool \in {"create", "read", "search"}
               PROVE  Cardinality({w \in Writers(p) : answers[w] = "ok"}) <= 1
    BY DEF CreatedOnce, Places
  <2> DEFINE done == {w \in Writers(p) : answers[w] = "ok"}
  <2>1. ~Deleted(p)  BY <1>0 DEF Deleted
  <2>2. \A w \in done : w \in Ops /\ Creates(w, p)  BY DEF Writers, Creates, Wrote
  <2>3. \A v, w \in done : v = w  BY <2>1, <2>2 DEF FileInv, CreatorsApart
  <2> HIDE DEF done
  <2>4. CASE done = {}  BY <2>4, FS_EmptySet DEF done
  <2>5. CASE done # {}
    <3>0. PICK w : w \in done  BY <2>5
    <3>1. done = {w}  BY <2>3, <3>0
    <3>2. Cardinality({w}) = 1  BY FS_Singleton
    <3> QED  BY <3>1, <3>2 DEF done
  <2> QED  BY <2>4, <2>5
<1>4. CopiesAreVaultFiles
  <2> SUFFICES ASSUME NEW o \in Ops, ops[o].tool = "copy" PROVE ops[o].text = files["v"]
    BY DEF CopiesAreVaultFiles
  <2> QED  BY <1>1, OpFields DEF OpOK, VaultAndInternalKept
<1> QED  BY <1>1, <1>2, <1>3, <1>4 DEF FilesSafe

\* The file tools (policy.rs, wasm_runner.rs, wasm-guest) change no file of the
\* vault and no internal one, show no file half replaced, create none twice and
\* copy what is in the vault: for any number of invocations that overlap, those
\* that go on after their time-out included, with and without a policy.
THEOREM FilesStaySafe == FileSpec => []FilesSafe
<1>1. FileInit => FileInv
  <2> SUFFICES ASSUME FileInit PROVE FileInv
    OBVIOUS
  <2>1. /\ \A o \in Ops : ops[o] = NotStarted /\ answers[o] = "none"
        /\ files = Content0
    BY DEF FileInit
  <2>2. \A o \in Ops : ops[o].tool = "none" /\ ops[o].at = "new" /\ ops[o].path = "none"
    BY <2>1 DEF NotStarted
  <2>3. \A o \in Ops : \A p \in Places : ~Wrote(o, p)  BY <2>1, <2>2 DEF Wrote, Tools
  <2>4. FileTypeOK
    <3>1. \A c \in {"x", "y", "s", "k"} : c \in Chars  BY DEF Chars
    <3>2. /\ <<"x", "y">> \in Seq(Chars) /\ <<"x">> \in Seq(Chars) /\ <<"s">> \in Seq(Chars)
          /\ <<"k">> \in Seq(Chars) /\ <<>> \in Seq(Chars)
      BY <3>1
    <3>3. \A p \in Places : Content0[p] \in Seq(Chars) \cup {Missing}
      <4>1. /\ Content0["a"] = <<"x", "y">> /\ Content0["n"] = Missing /\ Content0["b"] = <<"x">>
            /\ Content0["v"] = <<"s">> /\ Content0["i"] = <<"k">>
        BY DEF Content0
      <4> QED  BY <3>2, <4>1, PlacesAre
    <3>4. Content0 \in [Places -> Seq(Chars) \cup {Missing}]  BY <3>3 DEF Places, Content0
    <3>5. NotStarted \in OpRecords  BY <3>2 DEF NotStarted, OpRecords
    <3> QED  BY <2>1, <3>4, <3>5 DEF FileInit, FileTypeOK
  <2>5. \A o \in Ops : OpOK(o)  BY <2>1, <2>2 DEF OpOK
  <2>6. FilesFrom /\ ReadsFrom /\ CreatorsApart /\ VaultAndInternalKept
    BY <2>1, <2>2, <2>3 DEF FilesFrom, ReadsFrom, ContentFrom, CreatorsApart, Creates, VaultAndInternalKept
  <2> QED  BY <2>4, <2>5, <2>6 DEF FileInv
<1>2. FileInv /\ [FileNext]_fileVars => FileInv'
  BY FileStep
<1>3. FileInv => FilesSafe
  BY FilesAreSafe
<1> QED
  BY <1>1, <1>2, <1>3, PTL DEF FileSpec
-----------------------------------------------------------------------------
(* MemoryStore.                                                             *)

\* The maximum of a set is the member that is above the others.
LEMMA MaxOf ==
    ASSUME NEW S, \A y \in S : y \in Nat, NEW m \in S, \A y \in S : m >= y
    PROVE  Max(S) = m
<1> DEFINE x == CHOOSE x \in S : \A y \in S : x >= y
<1>1. x \in S /\ \A y \in S : x >= y
  <2>1. \E z \in S : \A y \in S : z >= y
    OBVIOUS
  <2> QED
    BY <2>1, Zenon
<1> HIDE DEF x
<1>2. x = m
  BY <1>1
<1> QED
  BY <1>2, Zenon DEF x, Max

\* The highest of the numbers of the conversation is the last sequence.
LEMMA MaxIsLast ==
    ASSUME MemoryTypes, LastIsHighest
    PROVE  MaxSequence("chat") = state["chat"].last
<1> DEFINE S == {0} \cup {r.seq : r \in eventRows["chat"]}
           last == state["chat"].last
<1>1. last \in S /\ \A y \in S : last >= y
  BY DEF MemoryTypes, LastIsHighest, MemorySessions
<1>2. \A y \in S : y \in Nat
  BY DEF MemoryTypes
<1>3. Max(S) = last
  <2> HIDE DEF S, last
  <2> QED
    BY <1>1, <1>2, MaxOf
<1> QED
  BY <1>3 DEF MaxSequence

ShapeOf(d) == [session |-> d.session, hash |-> d.hash, note |-> d.note, from |-> d.from, to |-> d.to]
SameChunk(d, e) == d.session = e.session /\ d.hash = e.hash /\ d.note = e.note

\* A chunk that is touched stays the chunk of its text.
LEMMA TouchedSame ==
    ASSUME NEW d, NEW seq, d = ShapeOf(d)
    PROVE  Touched(d, seq) = ShapeOf(Touched(d, seq)) /\ SameChunk(Touched(d, seq), d)
<1> DEFINE m == Max({d.to, seq})
<1> HIDE DEF m
<1>1. Touched(d, seq) = [ShapeOf(d) EXCEPT !.to = m]
  BY DEF Touched, m
<1>2. Touched(d, seq) = [session |-> d.session, hash |-> d.hash, note |-> d.note,
                          from |-> d.from, to |-> m]
  BY <1>1 DEF ShapeOf
<1> QED
  BY <1>2 DEF ShapeOf, SameChunk

\* What indexing a document leaves: the chunks there were, and those of its
\* pieces.
LEMMA IndexedChunks ==
    ASSUME NEW all, IsFiniteSet(all), \A d \in all : d = ShapeOf(d),
           NEW s, NEW seq, NEW text, IsFiniteSet(DOMAIN text), NEW note
    PROVE  LET after == Indexed(all, s, seq, text, note) IN
           /\ IsFiniteSet(after)
           /\ \A d \in after : d = ShapeOf(d)
           /\ \A d \in after :
                \/ \E e \in all : SameChunk(d, e)
                \/ d.session = s /\ d.note = note /\ \E i \in DOMAIN text : text[i] = d.hash
           /\ \A e \in all : \E d \in after : SameChunk(d, e)
           /\ \A i \in DOMAIN text : \E d \in after :
                d.session = s /\ d.hash = text[i] /\ d.note = note
<1> DEFINE new == Prepared(s, seq, text, note)
           kept(d) == IF Existing(new, d) = {} THEN d ELSE Touched(d, seq)
           old == {kept(d) : d \in all}
           added == {c \in new : Existing(all, c) = {}}
           piece(i) == [session |-> s, hash |-> text[i], note |-> note, from |-> seq, to |-> seq]
<1>1. Indexed(all, s, seq, text, note) = old \cup added
  BY DEF Indexed
<1>2. new = {piece(i) : i \in DOMAIN text}
  BY DEF Prepared
<1>3. \A d \in all : kept(d) = ShapeOf(kept(d)) /\ SameChunk(kept(d), d)
  BY TouchedSame DEF SameChunk
<1>4. \A c \in new : c = ShapeOf(c) /\ c.session = s /\ c.note = note
                     /\ \E i \in DOMAIN text : c.hash = text[i]
  BY <1>2 DEF ShapeOf
<1>5. \A i \in DOMAIN text : piece(i) \in new
  BY <1>2
<1>6. IsFiniteSet(old)
  <2> DEFINE f == [d \in all |-> kept(d)]
  <2> HIDE DEF kept
  <2>1. f \in Surjection(all, old)
    BY DEF Surjection
  <2> HIDE DEF f, old
  <2> QED
    BY <2>1, FS_Surjection
<1>7. IsFiniteSet(new)
  <2> DEFINE f == [i \in DOMAIN text |-> piece(i)]
  <2> HIDE DEF piece
  <2>1. f \in Surjection(DOMAIN text, new)
    BY <1>2 DEF Surjection
  <2> HIDE DEF f, new
  <2> QED
    BY <2>1, FS_Surjection
<1>8. IsFiniteSet(added)
  <2>1. added \in SUBSET new
    OBVIOUS
  <2> HIDE DEF new, added
  <2> QED
    BY <2>1, <1>7, FS_Subset
<1>9. IsFiniteSet(old \cup added)
  <2> HIDE DEF old, added
  <2> QED
    BY <1>6, <1>8, FS_Union
<1>10. ASSUME NEW i \in DOMAIN text
       PROVE  \E d \in old \cup added : d.session = s /\ d.hash = text[i] /\ d.note = note
  <2>1. piece(i) \in new /\ piece(i).session = s /\ piece(i).hash = text[i] /\ piece(i).note = note
    BY <1>5
  <2>2. CASE Existing(all, piece(i)) = {}
    BY <2>1, <2>2
  <2>3. CASE Existing(all, piece(i)) # {}
    <3>1. PICK d \in all : d.session = s /\ d.hash = text[i] /\ d.note = note
      BY <2>1, <2>3 DEF Existing
    <3>2. kept(d) \in old /\ SameChunk(kept(d), d)
      BY <1>3
    <3> QED
      BY <3>1, <3>2 DEF SameChunk
  <2> QED
    BY <2>2, <2>3
<1>11. \A d \in old \cup added : d = ShapeOf(d)
  BY <1>3, <1>4
<1>12. \A d \in old \cup added :
                \/ \E e \in all : SameChunk(d, e)
                \/ d.session = s /\ d.note = note /\ \E i \in DOMAIN text : text[i] = d.hash
  BY <1>3, <1>4
<1>13. \A e \in all : \E d \in old \cup added : SameChunk(d, e)
  BY <1>3
<1> HIDE DEF old, added
<1> QED
  BY <1>1, <1>9, <1>10, <1>11, <1>12, <1>13

\* What an event adds to the index is what it says.
LEMMA InsertKeeps ==
    ASSUME MemoryInv, NEW s \in MemorySessions, NEW seq, NEW text \in Texts, NEW note,
           Insert(s, seq, text, note)
    PROVE  /\ eventRows' = [eventRows EXCEPT ![s] =
                              @ \cup {[seq |-> seq, text |-> text, note |-> note]}]
           /\ IsFiniteSet(chunks')
           /\ \A d \in chunks' : d = ShapeOf(d)
           /\ ChunksOfEvents' /\ EventsHaveChunks'
<1> DEFINE row == [seq |-> seq, text |-> text, note |-> note]
<1>1. /\ eventRows' = [eventRows EXCEPT ![s] = @ \cup {row}]
      /\ chunks' = Indexed(chunks, s, seq, text, note)
  BY DEF Insert
<1>2. /\ IsFiniteSet(chunks) /\ IsFiniteSet(DOMAIN text)
      /\ \A d \in chunks : d = ShapeOf(d)
  BY TextsAssumption DEF MemoryInv, MemoryTypes, ShapeOf
<1>3. /\ IsFiniteSet(chunks')
      /\ \A d \in chunks' : d = ShapeOf(d)
      /\ \A d \in chunks' :
                \/ \E e \in chunks : SameChunk(d, e)
                \/ d.session = s /\ d.note = note /\ \E i \in DOMAIN text : text[i] = d.hash
      /\ \A e \in chunks : \E d \in chunks' : SameChunk(d, e)
      /\ \A i \in DOMAIN text : \E d \in chunks' :
                d.session = s /\ d.hash = text[i] /\ d.note = note
  BY <1>1, <1>2, IndexedChunks
<1>4. \A x \in MemorySessions : eventRows'[x] = IF x = s THEN eventRows[x] \cup {row} ELSE eventRows[x]
  BY <1>1 DEF MemoryInv, MemoryTypes
<1>5. row.text = text /\ row.note = note
  OBVIOUS
<1> HIDE DEF row
<1>6. ChunksOfEvents'
  <2>1. SUFFICES ASSUME NEW d \in chunks'
                 PROVE  d.session \in MemorySessions /\ \E r \in eventRows'[d.session] :
                          r.note = d.note /\ \E i \in DOMAIN r.text : r.text[i] = d.hash
    BY DEF ChunksOfEvents
  <2>2. CASE \E e \in chunks : SameChunk(d, e)
    <3>1. PICK e \in chunks : SameChunk(d, e)
      BY <2>2
    <3>2. PICK r \in eventRows[e.session] :
              r.note = e.note /\ \E i \in DOMAIN r.text : r.text[i] = e.hash
      BY DEF MemoryInv, ChunksOfEvents
    <3>3. e.session \in MemorySessions
      BY DEF MemoryInv, ChunksOfEvents
    <3> QED
      BY <3>1, <3>2, <3>3, <1>4 DEF SameChunk
  <2>3. CASE d.session = s /\ d.note = note /\ \E i \in DOMAIN text : text[i] = d.hash
    BY <2>3, <1>4, <1>5
  <2> QED
    BY <2>2, <2>3, <1>3
<1>7. EventsHaveChunks'
  <2>1. SUFFICES ASSUME NEW x \in MemorySessions, NEW r \in eventRows'[x], NEW i \in DOMAIN r.text
                 PROVE  \E d \in chunks' : d.session = x /\ d.hash = r.text[i] /\ d.note = r.note
    BY DEF EventsHaveChunks
  <2>2. CASE r \in eventRows[x]
    <3>1. PICK e \in chunks : e.session = x /\ e.hash = r.text[i] /\ e.note = r.note
      BY <2>2 DEF MemoryInv, EventsHaveChunks
    <3> QED
      BY <3>1, <1>3 DEF SameChunk
  <2>3. CASE x = s /\ r = row
    BY <2>3, <1>5, <1>3
  <2> QED
    BY <2>2, <2>3, <1>4
<1> QED
  BY <1>1, <1>3, <1>6, <1>7 DEF row

\* Removing a note removes all of it from both.
LEMMA RemovedKeeps ==
    ASSUME MemoryInv, NEW n \in NoteIds, Removed(n)
    PROVE  /\ eventRows' = [eventRows EXCEPT ![UserMemory] = {r \in @ : r.note # n}]
           /\ IsFiniteSet(chunks')
           /\ \A d \in chunks' : d = ShapeOf(d)
           /\ ChunksOfEvents' /\ EventsHaveChunks'
<1>1. /\ eventRows' = [eventRows EXCEPT ![UserMemory] = {r \in @ : r.note # n}]
      /\ chunks' = {d \in chunks : ~(d.session = UserMemory /\ d.note = n)}
  BY DEF Removed
<1>2. chunks' \in SUBSET chunks /\ IsFiniteSet(chunks)
  BY <1>1 DEF MemoryInv, MemoryTypes
<1>3. IsFiniteSet(chunks')
  BY <1>2, FS_Subset
<1>4. \A d \in chunks' : d = ShapeOf(d)
  BY <1>2 DEF MemoryInv, MemoryTypes, ShapeOf
<1>5. \A x \in MemorySessions : eventRows'[x] =
        IF x = UserMemory THEN {r \in eventRows[x] : r.note # n} ELSE eventRows[x]
  BY <1>1 DEF MemoryInv, MemoryTypes
<1>6. ChunksOfEvents'
  BY <1>1, <1>5 DEF MemoryInv, ChunksOfEvents
<1>7. EventsHaveChunks'
  <2>1. SUFFICES ASSUME NEW x \in MemorySessions, NEW r \in eventRows'[x], NEW i \in DOMAIN r.text
                 PROVE  \E d \in chunks' : d.session = x /\ d.hash = r.text[i] /\ d.note = r.note
    BY DEF EventsHaveChunks
  <2>2. r \in eventRows[x] /\ (x = UserMemory => r.note # n)
    BY <1>5
  <2>3. PICK e \in chunks : e.session = x /\ e.hash = r.text[i] /\ e.note = r.note
    BY <2>2 DEF MemoryInv, EventsHaveChunks
  <2> QED
    BY <1>1, <2>2, <2>3
<1> QED
  BY <1>1, <1>3, <1>4, <1>6, <1>7

\* Forgetting the conversation leaves the user's memory as it is.
LEMMA ForgetKeeps ==
    ASSUME MemoryInv, Forget
    PROVE  /\ IsFiniteSet(chunks')
           /\ \A d \in chunks' : d = ShapeOf(d)
           /\ ChunksOfEvents' /\ EventsHaveChunks'
<1>1. /\ eventRows' = [eventRows EXCEPT !["chat"] = {}]
      /\ chunks' = {d \in chunks : d.session # "chat"}
  BY DEF Forget
<1>2. chunks' \in SUBSET chunks /\ IsFiniteSet(chunks)
  BY <1>1 DEF MemoryInv, MemoryTypes
<1>3. IsFiniteSet(chunks')
  BY <1>2, FS_Subset
<1>4. \A d \in chunks' : d = ShapeOf(d)
  BY <1>2 DEF MemoryInv, MemoryTypes, ShapeOf
<1>5. \A x \in MemorySessions : eventRows'[x] = IF x = "chat" THEN {} ELSE eventRows[x]
  BY <1>1 DEF MemoryInv, MemoryTypes
<1>6. ChunksOfEvents'
  BY <1>1, <1>5 DEF MemoryInv, ChunksOfEvents
<1>7. EventsHaveChunks'
  BY <1>1, <1>5 DEF MemoryInv, EventsHaveChunks
<1> QED
  BY <1>3, <1>4, <1>6, <1>7


SessionStates == [last : Nat, summary : Seq(Nat \X Nat), upper : Nat, pad : Texts \cup {Unsaved}]

\* The parts of the invariant that only look at the calls and at what was
\* reported, for a step of one call that leaves the conversation's state.
LEMMA CallMoves ==
    ASSUME MemoryInv, NEW c \in Callers, NEW k, calling' = [calling EXCEPT ![c] = k],
           UNCHANGED <<state, written>>,
           \/ k.op = "idle"
           \/ /\ k.op \in {"store", "read"} /\ k.note \in NoteIds /\ k.text \in Texts
              /\ saved'[k.note] = Withdrawn
              /\ \A b \in Callers : Storing(b) /\ b # c => calling[b].note # k.note,
           \A b \in Callers : Storing(b) /\ b # c =>
              saved'[calling[b].note] = saved[calling[b].note]
    PROVE  StoringAlone' /\ SummariesExtend' /\ SummaryAdjoins'
           /\ calling' = [x \in Callers |-> calling'[x]]
<1>1. \A x \in Callers : calling'[x] = IF x = c THEN k ELSE calling[x]
  BY DEF MemoryInv, MemoryTypes
<1>2. calling' = [x \in Callers |-> calling'[x]]
  BY DEF MemoryInv, MemoryTypes
<1>3. SummaryAdjoins'
  BY DEF MemoryInv, SummaryAdjoins, Adjoining
<1>4. SummariesExtend'
  BY <1>1 DEF MemoryInv, SummariesExtend, Adjoining
<1>5. \A b \in Callers : b # c => (Storing(b)' <=> Storing(b)) /\ calling'[b] = calling[b]
  BY <1>1 DEF Storing
<1>6. Storing(c)' => /\ k.note \in NoteIds /\ k.text \in Texts /\ calling'[c] = k
              /\ saved'[k.note] = Withdrawn
              /\ \A b \in Callers : Storing(b) /\ b # c => calling[b].note # k.note
  BY <1>1 DEF Storing
<1>7. StoringAlone'
  <2>1. SUFFICES ASSUME NEW x \in Callers, Storing(x)'
                 PROVE  /\ calling'[x].note \in NoteIds /\ calling'[x].text \in Texts
                        /\ saved'[calling'[x].note] = Withdrawn
                        /\ \A b \in Callers : Storing(b)' /\ b # x => calling'[b].note # calling'[x].note
    BY DEF StoringAlone
  <2>2. CASE x = c
    BY <2>1, <2>2, <1>5, <1>6
  <2>3. CASE x # c
    BY <2>1, <2>3, <1>5, <1>6 DEF MemoryInv, StoringAlone
  <2> QED
    BY <2>2, <2>3
<1> QED
  BY <1>2, <1>3, <1>4, <1>7


LEMMA StoreKeeps ==
    ASSUME MemoryInv, NEW seq \in 1..MaxEvents, NEW text \in Texts, Store(seq, text)
    PROVE  MemoryInv'
<1> DEFINE row == [seq |-> seq, text |-> text, note |-> NoNote]
<1>1. /\ Insert("chat", seq, text, NoNote) /\ UNCHANGED <<calling, saved, written>>
      /\ state' = [state EXCEPT !["chat"].last = seq] /\ seq > MaxSequence("chat")
  BY DEF Store
<1>2. /\ eventRows' = [eventRows EXCEPT !["chat"] = @ \cup {row}]
      /\ IsFiniteSet(chunks') /\ (\A d \in chunks' : d = ShapeOf(d))
      /\ ChunksOfEvents' /\ EventsHaveChunks'
  BY <1>1, InsertKeeps DEF MemorySessions
<1>3. MaxSequence("chat") = state["chat"].last /\ seq \in Nat
  BY MaxIsLast, MemoryBoundsAssumption DEF MemoryInv
<1>4. state["chat"] \in SessionStates
  BY DEF MemoryInv, MemoryTypes, SessionStates, MemorySessions
<1>5. state'["chat"] = [state["chat"] EXCEPT !.last = seq]
  BY <1>1 DEF MemoryInv, MemoryTypes, MemorySessions
<1>6. state'["chat"] \in SessionStates
  BY <1>3, <1>4, <1>5 DEF SessionStates
<1>7. MemoryTypes'
  <2>1. state' \in [MemorySessions -> SessionStates]
    BY <1>1, <1>5, <1>6 DEF MemoryInv, MemoryTypes, SessionStates
  <2>2. eventRows' = [x \in MemorySessions |-> eventRows'[x]]
    BY <1>2 DEF MemoryInv, MemoryTypes
  <2>3. \A r \in eventRows'["chat"] : r.seq \in Nat
    BY <1>2, <1>3 DEF MemoryInv, MemoryTypes, MemorySessions
  <2> QED
    BY <1>1, <1>2, <2>1, <2>2, <2>3 DEF MemoryInv, MemoryTypes, ShapeOf, SessionStates
<1>8. eventRows'[UserMemory] = eventRows[UserMemory]
       /\ eventRows'["chat"] = eventRows["chat"] \cup {row}
  BY <1>2 DEF MemoryInv, MemoryTypes, MemorySessions, UserMemory
<1>9. ReportedNotesKept' /\ StoringAlone'
  BY <1>1, <1>8 DEF MemoryInv, ReportedNotesKept, StoringAlone, Storing
<1>10. LastIsHighest'
  <2>1. state'["chat"].last = seq /\ state'["chat"].pad = state["chat"].pad /\ seq > state["chat"].last
    BY <1>1, <1>3, <1>4, <1>5 DEF SessionStates
  <2>2. state["chat"].last \in Nat /\ row.seq = seq
    BY <1>4 DEF SessionStates
  <2>3. \A r \in eventRows["chat"] : r.seq \in Nat /\ r.seq <= state["chat"].last
    BY DEF MemoryInv, MemoryTypes, LastIsHighest
  <2>4. \A r \in eventRows'["chat"] : r.seq <= seq
    BY <1>3, <1>8, <2>1, <2>2, <2>3
  <2>5. seq \in {r.seq : r \in eventRows'["chat"]}
    BY <1>8, <2>2
  <2> QED
    BY <1>1, <2>1, <2>4, <2>5 DEF MemoryInv, LastIsHighest
<1>11. state'["chat"].summary = state["chat"].summary /\ state'["chat"].upper = state["chat"].upper
  BY <1>4, <1>5 DEF SessionStates
<1>12. SummariesExtend' /\ SummaryAdjoins'
  BY <1>1, <1>11 DEF MemoryInv, SummariesExtend, SummaryAdjoins, Adjoining
<1> QED
  BY <1>2, <1>7, <1>9, <1>10, <1>12 DEF MemoryInv

LEMMA SaveNoteKeeps ==
    ASSUME MemoryInv, NEW c \in Callers, NEW text \in Texts, SaveNote(c, text)
    PROVE  MemoryInv'
<1>1. PICK n \in NoteIds :
         /\ saved[n] = Unsaved /\ saved' = [saved EXCEPT ![n] = Withdrawn]
         /\ calling' = [calling EXCEPT ![c] =
               [op |-> "store", note |-> n, text |-> text, seq |-> MaxSequence(UserMemory) + 1]]
  BY DEF SaveNote
<1> DEFINE k == [op |-> "store", note |-> n, text |-> text, seq |-> MaxSequence(UserMemory) + 1]
<1>2. UNCHANGED <<eventRows, chunks, state, written>>
  BY DEF SaveNote
<1>3. k.op = "store" /\ k.note = n /\ k.text = text /\ calling' = [calling EXCEPT ![c] = k]
  BY <1>1
<1> HIDE DEF k
<1>4. saved'[n] = Withdrawn /\ Withdrawn # Unsaved /\ \A m \in NoteIds : m # n => saved'[m] = saved[m]
  BY <1>1 DEF MemoryInv, MemoryTypes, Withdrawn, Unsaved
<1>5. \A b \in Callers : Storing(b) => calling[b].note # n /\ calling[b].note \in NoteIds
  BY <1>1, <1>4 DEF MemoryInv, StoringAlone
<1>6. StoringAlone' /\ SummariesExtend' /\ SummaryAdjoins' /\ calling' = [x \in Callers |-> calling'[x]]
  BY <1>2, <1>3, <1>4, <1>5, CallMoves
<1>7. MemoryTypes'
  BY <1>1, <1>2, <1>6 DEF MemoryInv, MemoryTypes
<1>8. ReportedNotesKept'
  BY <1>1, <1>2, <1>4 DEF MemoryInv, ReportedNotesKept
<1> QED
  BY <1>2, <1>6, <1>7, <1>8 DEF MemoryInv, ChunksOfEvents, EventsHaveChunks, LastIsHighest

\* A note that was found is not one that a call is about to store.
LEMMA FoundNotStoring ==
    ASSUME MemoryInv, NEW n \in NoteIds, NoteFound(n)
    PROVE  \A b \in Callers : Storing(b) => calling[b].note # n /\ calling[b].note \in NoteIds
<1>1. {r.text : r \in {r \in eventRows[UserMemory] : r.note = n}} = {saved[n]} \ {Unsaved, Withdrawn}
  BY DEF MemoryInv, ReportedNotesKept
<1>2. saved[n] # Withdrawn
  BY <1>1 DEF NoteFound
<1> QED
  BY <1>2 DEF MemoryInv, StoringAlone

\* The parts about events and reports, when a note is removed and withdrawn.
LEMMA WithdrawKeeps ==
    ASSUME MemoryInv, NEW n \in NoteIds, Removed(n), saved' = [saved EXCEPT ![n] = Withdrawn],
           UNCHANGED <<state, written>>, calling' = [x \in Callers |-> calling'[x]]
    PROVE  MemoryTypes' /\ ChunksOfEvents' /\ EventsHaveChunks' /\ ReportedNotesKept' /\ LastIsHighest'
<1>1. /\ eventRows' = [eventRows EXCEPT ![UserMemory] = {r \in @ : r.note # n}]
      /\ IsFiniteSet(chunks') /\ (\A d \in chunks' : d = ShapeOf(d))
      /\ ChunksOfEvents' /\ EventsHaveChunks'
  BY RemovedKeeps
<1>2. /\ eventRows'[UserMemory] = {r \in eventRows[UserMemory] : r.note # n}
      /\ eventRows'["chat"] = eventRows["chat"]
      /\ eventRows' = [s \in MemorySessions |-> eventRows'[s]]
  BY <1>1 DEF MemoryInv, MemoryTypes, MemorySessions, UserMemory
<1>3. saved'[n] = Withdrawn /\ \A m \in NoteIds : m # n => saved'[m] = saved[m]
  BY DEF MemoryInv, MemoryTypes
<1>4. MemoryTypes'
  BY <1>1, <1>2 DEF MemoryInv, MemoryTypes, ShapeOf
<1>5. ReportedNotesKept'
  <2>1. SUFFICES ASSUME NEW m \in NoteIds
                 PROVE  {r.text : r \in {r \in eventRows'[UserMemory] : r.note = m}}
                            = {saved'[m]} \ {Unsaved, Withdrawn}
    BY DEF ReportedNotesKept
  <2>2. CASE m = n
    BY <2>2, <1>2, <1>3
  <2>3. CASE m # n
    <3>1. {r \in eventRows'[UserMemory] : r.note = m} = {r \in eventRows[UserMemory] : r.note = m}
      BY <2>3, <1>2
    <3> QED
      BY <2>3, <3>1, <1>3 DEF MemoryInv, ReportedNotesKept
  <2> QED
    BY <2>2, <2>3
<1>6. LastIsHighest'
  BY <1>2 DEF MemoryInv, LastIsHighest
<1> QED
  BY <1>1, <1>4, <1>5, <1>6


\* A step that changes nothing but what a caller is doing.
LEMMA CallOnly ==
    ASSUME MemoryInv, UNCHANGED <<eventRows, chunks, state, saved, written>>,
           StoringAlone', SummariesExtend', SummaryAdjoins', calling' = [x \in Callers |-> calling'[x]]
    PROVE  MemoryInv'
<1>1. MemoryTypes'
  BY DEF MemoryInv, MemoryTypes
<1>2. ChunksOfEvents' /\ EventsHaveChunks'
  BY DEF MemoryInv, ChunksOfEvents, EventsHaveChunks
<1>3. ReportedNotesKept' /\ LastIsHighest'
  BY DEF MemoryInv, ReportedNotesKept, LastIsHighest
<1> QED
  BY <1>1, <1>2, <1>3 DEF MemoryInv

LEMMA UpdateNoteKeeps ==
    ASSUME MemoryInv, NEW c \in Callers, NEW n \in NoteIds, NEW text \in Texts, UpdateNote(c, n, text)
    PROVE  MemoryInv'
<1> DEFINE k == [op |-> "read", note |-> n, text |-> text]
<1>1. /\ Removed(n) /\ NoteFound(n) /\ calling' = [calling EXCEPT ![c] = k]
      /\ saved' = [saved EXCEPT ![n] = Withdrawn] /\ UNCHANGED <<state, written>>
  BY DEF UpdateNote
<1>2. k.op = "read" /\ k.note = n /\ k.text = text
  OBVIOUS
<1> HIDE DEF k
<1>3. \A b \in Callers : Storing(b) => calling[b].note # n /\ calling[b].note \in NoteIds
  BY <1>1, FoundNotStoring
<1>4. saved'[n] = Withdrawn /\ \A m \in NoteIds : m # n => saved'[m] = saved[m]
  BY <1>1 DEF MemoryInv, MemoryTypes
<1>5. StoringAlone' /\ SummariesExtend' /\ SummaryAdjoins' /\ calling' = [x \in Callers |-> calling'[x]]
  BY <1>1, <1>2, <1>3, <1>4, CallMoves
<1>6. MemoryTypes' /\ ChunksOfEvents' /\ EventsHaveChunks' /\ ReportedNotesKept' /\ LastIsHighest'
  BY <1>1, <1>5, WithdrawKeeps
<1> QED
  BY <1>5, <1>6 DEF MemoryInv

LEMMA DeleteNoteKeeps ==
    ASSUME MemoryInv, NEW c \in Callers, NEW n \in NoteIds, DeleteNote(c, n)
    PROVE  MemoryInv'
<1>1. /\ Removed(n) /\ NoteFound(n) /\ saved' = [saved EXCEPT ![n] = Withdrawn]
      /\ UNCHANGED <<state, calling, written>>
  BY DEF DeleteNote
<1>2. \A b \in Callers : Storing(b) => calling[b].note # n /\ calling[b].note \in NoteIds
  BY <1>1, FoundNotStoring
<1>3. \A m \in NoteIds : m # n => saved'[m] = saved[m]
  BY <1>1 DEF MemoryInv, MemoryTypes
<1>4. calling' = [x \in Callers |-> calling'[x]]
  BY <1>1 DEF MemoryInv, MemoryTypes
<1>5. StoringAlone' /\ SummariesExtend' /\ SummaryAdjoins'
  BY <1>1, <1>2, <1>3 DEF MemoryInv, StoringAlone, Storing, SummariesExtend, SummaryAdjoins, Adjoining
<1>6. MemoryTypes' /\ ChunksOfEvents' /\ EventsHaveChunks' /\ ReportedNotesKept' /\ LastIsHighest'
  BY <1>1, <1>4, WithdrawKeeps
<1> QED
  BY <1>5, <1>6 DEF MemoryInv

LEMMA ReadNextKeeps ==
    ASSUME MemoryInv, NEW c \in Callers, ReadNextSequence(c)
    PROVE  MemoryInv'
<1> DEFINE k == [op |-> "store", note |-> calling[c].note, text |-> calling[c].text,
                 seq |-> MaxSequence(UserMemory) + 1]
<1>1. /\ Storing(c) /\ calling' = [calling EXCEPT ![c] = k]
      /\ UNCHANGED <<eventRows, chunks, state, saved, written>>
  BY DEF ReadNextSequence, Storing
<1>2. k.op = "store" /\ k.note = calling[c].note /\ k.text = calling[c].text
  OBVIOUS
<1> HIDE DEF k
<1>3. StoringAlone' /\ SummariesExtend' /\ SummaryAdjoins' /\ calling' = [x \in Callers |-> calling'[x]]
  <2>1. /\ k.note \in NoteIds /\ k.text \in Texts /\ saved'[k.note] = Withdrawn
        /\ \A b \in Callers : Storing(b) /\ b # c => calling[b].note # k.note
    BY <1>1, <1>2 DEF MemoryInv, StoringAlone
  <2> QED
    BY <1>1, <1>2, <2>1, CallMoves
<1> QED
  BY <1>1, <1>3, CallOnly

LEMMA DroppedKeeps ==
    ASSUME MemoryInv, NEW c \in Callers, CallerDropped(c)
    PROVE  MemoryInv'
<1>1. /\ NoCall.op = "idle" /\ calling' = [calling EXCEPT ![c] = NoCall]
      /\ UNCHANGED <<eventRows, chunks, state, saved, written>>
  BY DEF CallerDropped, NoCall
<1>2. StoringAlone' /\ SummariesExtend' /\ SummaryAdjoins' /\ calling' = [x \in Callers |-> calling'[x]]
  BY <1>1, CallMoves
<1> QED
  BY <1>1, <1>2, CallOnly

LEMMA StoreNoteKeeps ==
    ASSUME MemoryInv, NEW c \in Callers, StoreNote(c)
    PROVE  MemoryInv'
<1> DEFINE n == calling[c].note
           text == calling[c].text
           seq == calling[c].seq
           row == [seq |-> seq, text |-> text, note |-> n]
<1>1. /\ Storing(c) /\ calling' = [calling EXCEPT ![c] = NoCall] /\ UNCHANGED <<state, written>>
      /\ NoCall.op = "idle"
  BY DEF StoreNote, Storing, NoCall
<1>2. /\ n \in NoteIds /\ text \in Texts /\ saved[n] = Withdrawn
      /\ \A b \in Callers : Storing(b) /\ b # c => calling[b].note # n
  BY <1>1 DEF MemoryInv, StoringAlone
<1>3. CASE UNCHANGED <<eventRows, chunks, saved>>
  <2>1. StoringAlone' /\ SummariesExtend' /\ SummaryAdjoins' /\ calling' = [x \in Callers |-> calling'[x]]
    BY <1>1, <1>3, CallMoves
  <2> QED
    BY <1>1, <1>3, <2>1, CallOnly
<1>4. CASE Insert(UserMemory, seq, text, n) /\ saved' = [saved EXCEPT ![n] = text]
  <2>0. UserMemory \in MemorySessions
    BY DEF MemorySessions
  <2> HIDE DEF n, text, seq
  <2>1. /\ eventRows' = [eventRows EXCEPT ![UserMemory] = @ \cup {row}]
        /\ IsFiniteSet(chunks') /\ (\A d \in chunks' : d = ShapeOf(d))
        /\ ChunksOfEvents' /\ EventsHaveChunks'
    BY <1>2, <1>4, <2>0, InsertKeeps
  <2>2. /\ eventRows'[UserMemory] = eventRows[UserMemory] \cup {row}
        /\ eventRows'["chat"] = eventRows["chat"]
        /\ eventRows' = [s \in MemorySessions |-> eventRows'[s]]
    BY <2>1 DEF MemoryInv, MemoryTypes, MemorySessions, UserMemory
  <2>3. saved'[n] = text /\ \A m \in NoteIds : m # n => saved'[m] = saved[m]
    BY <1>2, <1>4 DEF MemoryInv, MemoryTypes
  <2>4. StoringAlone' /\ SummariesExtend' /\ SummaryAdjoins' /\ calling' = [x \in Callers |-> calling'[x]]
    <3>1. \A b \in Callers : Storing(b) /\ b # c => saved'[calling[b].note] = saved[calling[b].note]
      BY <1>2, <2>3 DEF MemoryInv, StoringAlone
    <3> QED
      BY <1>1, <3>1, CallMoves
  <2>5. MemoryTypes'
    BY <1>1, <1>2, <1>4, <2>1, <2>2, <2>4 DEF MemoryInv, MemoryTypes, ShapeOf
  <2>6. ReportedNotesKept'
    <3>1. SUFFICES ASSUME NEW m \in NoteIds
                   PROVE  {r.text : r \in {r \in eventRows'[UserMemory] : r.note = m}}
                              = {saved'[m]} \ {Unsaved, Withdrawn}
      BY DEF ReportedNotesKept
    <3>2. {r.text : r \in {r \in eventRows[UserMemory] : r.note = m}} = {saved[m]} \ {Unsaved, Withdrawn}
      BY DEF MemoryInv, ReportedNotesKept
    <3>3. row.note = n /\ row.text = text
      OBVIOUS
    <3>4. CASE m = n
      <4>1. \A r \in eventRows[UserMemory] : r.note # n
        BY <3>2, <3>4, <1>2
      <4>2. {r \in eventRows'[UserMemory] : r.note = m} = {row}
        BY <4>1, <3>3, <3>4, <2>2
      <4> QED
        BY <4>2, <3>3, <3>4, <2>3, <1>2, TextsAssumption
    <3>5. CASE m # n
      <4>1. {r \in eventRows'[UserMemory] : r.note = m} = {r \in eventRows[UserMemory] : r.note = m}
        BY <3>3, <3>5, <2>2
      <4> QED
        BY <4>1, <3>2, <3>5, <2>3
    <3> QED
      BY <3>4, <3>5
  <2>7. LastIsHighest'
    BY <1>1, <2>2 DEF MemoryInv, LastIsHighest
  <2> QED
    BY <2>1, <2>4, <2>5, <2>6, <2>7 DEF MemoryInv
<1> QED
  BY <1>3, <1>4 DEF StoreNote


\* A summary that is extended up to a message covers the messages up to it.
LEMMA AppendAdjoins ==
    ASSUME NEW s \in Seq(Nat \X Nat), NEW from \in Nat, NEW to \in Nat,
           s = <<>> => from = 0, Adjoining(s, from)
    PROVE  LET t == Append(s, <<from + 1, to>>)
           IN  t \in Seq(Nat \X Nat) \ {<<>>} /\ Adjoining(t, to)
<1> DEFINE t == Append(s, <<from + 1, to>>)
<1>1. /\ \A i \in 1..Len(s) : s[i][1] = (IF i = 1 THEN 1 ELSE s[i - 1][2] + 1)
      /\ s # <<>> => s[Len(s)][2] = from
  BY DEF Adjoining
<1>2. <<from + 1, to>> \in Nat \X Nat
  OBVIOUS
<1>3. t \in Seq(Nat \X Nat) /\ Len(t) = Len(s) + 1 /\ Len(s) \in Nat
  BY <1>2
<1>4. (\A i \in 1..Len(s) : t[i] = s[i]) /\ t[Len(s) + 1] = <<from + 1, to>>
  OBVIOUS
<1>5. t[Len(t)][1] = from + 1 /\ t[Len(t)][2] = to
  BY <1>3, <1>4
<1>6. s = <<>> <=> Len(s) = 0
  OBVIOUS
<1> HIDE DEF t
<1>7. ASSUME NEW i \in 1..Len(t) PROVE t[i][1] = (IF i = 1 THEN 1 ELSE t[i - 1][2] + 1)
  <2>0. i \in Nat /\ 1 <= i /\ i <= Len(s) + 1 /\ Len(s) \in Nat /\ Len(t) = Len(s) + 1
    BY <1>3
  <2>1. CASE i <= Len(s)
    <3>1. i \in 1..Len(s) /\ (i # 1 => i - 1 \in 1..Len(s))
      BY ONLY <2>0, <2>1
    <3>2. t[i] = s[i] /\ (i # 1 => t[i - 1] = s[i - 1])
      BY ONLY <3>1, <1>4
    <3> QED
      BY ONLY <3>1, <3>2, <1>1
  <2>2. CASE i = Len(s) + 1
    <3>1. CASE Len(s) = 0
      BY <3>1, <2>2, <1>3, <1>5, <1>6
    <3>2. CASE Len(s) # 0
      <4>1. i - 1 = Len(s) /\ i - 1 \in 1..Len(s) /\ i # 1 /\ i = Len(t)
        BY ONLY <2>0, <2>2, <3>2
      <4>2. t[i - 1] = s[i - 1] /\ s[Len(s)][2] = from
        BY ONLY <4>1, <1>1, <1>4, <1>6, <3>2
      <4> QED
        BY ONLY <4>1, <4>2, <1>5
    <3> QED
      BY <3>1, <3>2
  <2> QED
    BY <2>1, <2>2, <1>3
<1>8. t # <<>>
  BY <1>3, Len(<<>>) = 0
<1> QED
  BY <1>3, <1>5, <1>7, <1>8 DEF Adjoining, t

LEMMA ReadSummaryKeeps ==
    ASSUME MemoryInv, NEW c \in Callers, ReadSummary(c)
    PROVE  MemoryInv'
<1> DEFINE st == state["chat"]
<1>1. PICK upper \in (st.upper + 1)..st.last :
         calling' = [calling EXCEPT ![c] =
            [op |-> "summary", epoch |-> Len(st.summary), upper |-> upper,
             text |-> Append(st.summary, <<st.upper + 1, upper>>), map |-> st]]
  BY DEF ReadSummary
<1>2. UNCHANGED <<eventRows, chunks, state, saved, written>>
  BY DEF ReadSummary
<1> DEFINE k == [op |-> "summary", epoch |-> Len(st.summary), upper |-> upper,
                 text |-> Append(st.summary, <<st.upper + 1, upper>>), map |-> st]
<1>3. st \in SessionStates
  BY DEF MemoryInv, MemoryTypes, SessionStates, MemorySessions
<1>4. upper \in Nat /\ Len(st.summary) \in 0..Len(st.summary)
  BY <1>3 DEF SessionStates
<1>5. /\ k.op = "summary" /\ k.epoch = Len(st.summary) /\ k.upper = upper
      /\ k.text = Append(st.summary, <<st.upper + 1, upper>>)
      /\ calling' = [calling EXCEPT ![c] = k]
  BY <1>1
<1> HIDE DEF k
<1>6. /\ \A x \in Callers : calling'[x] = IF x = c THEN k ELSE calling[x]
      /\ calling' = [x \in Callers |-> calling'[x]]
  BY <1>5 DEF MemoryInv, MemoryTypes
<1>7. StoringAlone'
  <2>1. ~Storing(c)'
    BY <1>5, <1>6 DEF Storing
  <2>2. \A x \in Callers : Storing(x)' => Storing(x) /\ calling'[x] = calling[x]
    BY <2>1, <1>6 DEF Storing
  <2> QED
    BY <1>2, <2>2 DEF MemoryInv, StoringAlone
<1>8. SummariesExtend'
  <2>1. \A x \in Callers : x # c => calling'[x] = calling[x]
    BY <1>6
  <2>2. calling'[c] = k
    BY <1>6
  <2>3. st.summary \in Seq(Nat \X Nat) /\ st.upper \in Nat /\ (st.summary = <<>> => st.upper = 0)
    BY <1>3 DEF MemoryInv, SummariesExtend, SessionStates
  <2>4. Adjoining(st.summary, st.upper)
    BY DEF MemoryInv, SummaryAdjoins
  <2>5. k.text \in Seq(Nat \X Nat) \ {<<>>} /\ Adjoining(k.text, upper)
    BY ONLY <2>3, <2>4, <1>4, <1>5, AppendAdjoins
  <2>6. \A x \in Callers : calling'[x].op = "summary" =>
           /\ calling'[x].upper \in Nat /\ calling'[x].text \in Seq(Nat \X Nat) \ {<<>>}
           /\ Adjoining(calling'[x].text, calling'[x].upper)
    BY <1>4, <1>5, <2>1, <2>2, <2>5 DEF MemoryInv, SummariesExtend
  <2> QED
    BY <1>2, <2>6 DEF MemoryInv, SummariesExtend, Adjoining
<1>9. SummaryAdjoins'
  BY <1>2 DEF MemoryInv, SummaryAdjoins, Adjoining
<1> QED
  BY <1>2, <1>6, <1>7, <1>8, <1>9, CallOnly

\* A step that changes the state of the conversation and not its last
\* sequence, nor what is stored.
LEMMA StateMoves ==
    ASSUME MemoryInv, NEW st \in SessionStates, state' = [state EXCEPT !["chat"] = st],
           UNCHANGED <<eventRows, chunks, saved>>, st.last = state["chat"].last, st.pad = written',
           StoringAlone', SummariesExtend', SummaryAdjoins', calling' = [x \in Callers |-> calling'[x]]
    PROVE  MemoryInv'
<1>1. state'["chat"] = st /\ state' \in [MemorySessions -> SessionStates]
  BY DEF MemoryInv, MemoryTypes, SessionStates, MemorySessions
<1>2. MemoryTypes'
  BY <1>1 DEF MemoryInv, MemoryTypes, SessionStates
<1>3. ChunksOfEvents' /\ EventsHaveChunks'
  BY DEF MemoryInv, ChunksOfEvents, EventsHaveChunks
<1>4. ReportedNotesKept'
  BY DEF MemoryInv, ReportedNotesKept
<1>5. LastIsHighest'
  BY <1>1 DEF MemoryInv, LastIsHighest
<1> QED
  BY <1>2, <1>3, <1>4, <1>5 DEF MemoryInv

LEMMA WriteSummaryKeeps ==
    ASSUME MemoryInv, NEW c \in Callers, WriteSummary(c)
    PROVE  MemoryInv'
<1> DEFINE st == state["chat"]
           k == calling[c]
           new == [st EXCEPT !.summary = k.text, !.upper = k.upper]
<1>1. /\ k.op = "summary" /\ calling' = [calling EXCEPT ![c] = NoCall]
      /\ UNCHANGED <<eventRows, chunks, saved, written>> /\ NoCall.op = "idle"
  BY DEF WriteSummary, NoCall
<1>2. CASE state' = state
  <2>1. StoringAlone' /\ SummariesExtend' /\ SummaryAdjoins' /\ calling' = [x \in Callers |-> calling'[x]]
    BY <1>1, <1>2, CallMoves
  <2> QED
    BY <1>1, <1>2, <2>1, CallOnly
<1>3. CASE /\ Len(st.summary) = k.epoch
           /\ state' = [state EXCEPT !["chat"].summary = k.text, !["chat"].upper = k.upper]
  <2>1. st \in SessionStates
    BY DEF MemoryInv, MemoryTypes, SessionStates, MemorySessions
  <2>2. k.upper \in Nat /\ k.text \in Seq(Nat \X Nat) \ {<<>>} /\ Adjoining(k.text, k.upper)
    BY <1>1, <1>3 DEF MemoryInv, SummariesExtend
  <2>3. state' = [state EXCEPT !["chat"] = new] /\ state'["chat"] = new
    BY <1>3 DEF MemoryInv, MemoryTypes, MemorySessions
  <2>5. new \in SessionStates /\ new.summary = k.text /\ new.upper = k.upper
        /\ new.last = st.last /\ new.pad = st.pad
    BY <2>1, <2>2 DEF SessionStates
  <2>6. /\ \A x \in Callers : calling'[x] = IF x = c THEN NoCall ELSE calling[x]
        /\ calling' = [x \in Callers |-> calling'[x]]
    BY <1>1 DEF MemoryInv, MemoryTypes
  <2>7. StoringAlone'
    <3>1. \A x \in Callers : Storing(x)' => Storing(x) /\ calling'[x] = calling[x]
      BY <1>1, <2>6 DEF Storing
    <3> QED
      BY <1>1, <3>1 DEF MemoryInv, StoringAlone
  <2> HIDE DEF new
  <2>9. SummariesExtend'
    <3>1. \A x \in Callers : calling'[x].op = "summary" => calling'[x] = calling[x]
      BY <1>1, <2>6
    <3>2. \A x \in Callers : calling'[x].op = "summary" =>
             /\ calling'[x].upper \in Nat /\ calling'[x].text \in Seq(Nat \X Nat) \ {<<>>}
             /\ Adjoining(calling'[x].text, calling'[x].upper)
      BY <3>1 DEF MemoryInv, SummariesExtend
    <3>3. state'["chat"].summary # <<>>
      BY <2>2, <2>3, <2>5
    <3> QED
      BY <3>2, <3>3 DEF SummariesExtend, Adjoining
  <2>10. SummaryAdjoins'
    BY <2>2, <2>3, <2>5 DEF SummaryAdjoins, Adjoining
  <2>11. new.pad = written'
    BY <1>1, <2>5 DEF MemoryInv, LastIsHighest
  <2> QED
    BY <1>1, <2>3, <2>5, <2>6, <2>7, <2>9, <2>10, <2>11, StateMoves
<1> QED
  BY <1>2, <1>3 DEF WriteSummary


LEMMA ScratchpadKeeps ==
    ASSUME MemoryInv, NEW items \in Texts \cup {Unsaved},
           state' = [state EXCEPT !["chat"].pad = items], written' = items,
           UNCHANGED <<eventRows, chunks, calling, saved>>
    PROVE  MemoryInv'
<1> DEFINE st == state["chat"]
           new == [st EXCEPT !.pad = items]
<1>1. st \in SessionStates
  BY DEF MemoryInv, MemoryTypes, SessionStates, MemorySessions
<1>2. state' = [state EXCEPT !["chat"] = new] /\ state'["chat"] = new
  BY DEF MemoryInv, MemoryTypes, MemorySessions
<1>3. new \in SessionStates /\ new.pad = items /\ new.last = st.last
      /\ new.summary = st.summary /\ new.upper = st.upper
  BY <1>1 DEF SessionStates
<1> HIDE DEF new
<1>4. SummariesExtend' /\ SummaryAdjoins'
  BY <1>2, <1>3 DEF MemoryInv, SummariesExtend, SummaryAdjoins, Adjoining
<1>5. StoringAlone' /\ calling' = [x \in Callers |-> calling'[x]]
  BY DEF MemoryInv, StoringAlone, Storing, MemoryTypes
<1> QED
  BY <1>2, <1>3, <1>4, <1>5, StateMoves

LEMMA ForgetKeepsAll ==
    ASSUME MemoryInv, Forget
    PROVE  MemoryInv'
<1>1. /\ IsFiniteSet(chunks') /\ (\A d \in chunks' : d = ShapeOf(d))
      /\ ChunksOfEvents' /\ EventsHaveChunks'
  BY ForgetKeeps
<1>2. /\ eventRows' = [eventRows EXCEPT !["chat"] = {}] /\ state' = [state EXCEPT !["chat"] = EmptyState]
      /\ written' = Unsaved /\ UNCHANGED <<calling, saved>>
  BY DEF Forget
<1>3. /\ eventRows'["chat"] = {} /\ eventRows'[UserMemory] = eventRows[UserMemory]
      /\ eventRows' = [s \in MemorySessions |-> eventRows'[s]]
      /\ state'["chat"] = EmptyState
  BY <1>2 DEF MemoryInv, MemoryTypes, MemorySessions, UserMemory
<1>4. EmptyState \in SessionStates /\ EmptyState.last = 0 /\ EmptyState.summary = <<>>
      /\ EmptyState.upper = 0 /\ EmptyState.pad = Unsaved
  BY DEF EmptyState, SessionStates
<1>5. MemoryTypes'
  <2>1. state' \in [MemorySessions -> SessionStates]
    BY <1>2, <1>4 DEF MemoryInv, MemoryTypes, SessionStates
  <2> QED
    BY <1>1, <1>2, <1>3, <2>1 DEF MemoryInv, MemoryTypes, ShapeOf, SessionStates
<1>7. StoringAlone'
  BY <1>2 DEF MemoryInv, StoringAlone, Storing
<1>8. ReportedNotesKept'
  BY <1>2, <1>3 DEF MemoryInv, ReportedNotesKept
<1>9. LastIsHighest'
  BY <1>2, <1>3, <1>4 DEF LastIsHighest
<1>10. SummariesExtend'
  BY <1>2, <1>3, <1>4 DEF MemoryInv, SummariesExtend, Adjoining
<1>11. SummaryAdjoins'
  BY <1>3, <1>4 DEF SummaryAdjoins, Adjoining
<1> QED
  BY <1>1, <1>5, <1>7, <1>8, <1>9, <1>10, <1>11 DEF MemoryInv

LEMMA MemoryInitInv == MemoryInit => MemoryInv
<1> SUFFICES ASSUME MemoryInit PROVE MemoryInv
  OBVIOUS
<1>1. /\ eventRows = [s \in MemorySessions |-> {}] /\ chunks = {}
      /\ state = [s \in MemorySessions |-> EmptyState]
      /\ calling = [c \in Callers |-> NoCall]
      /\ saved = [n \in NoteIds |-> Unsaved] /\ written = Unsaved
      /\ NoCall.op = "idle"
  BY DEF MemoryInit, NoCall
<1>2. EmptyState \in SessionStates /\ EmptyState.last = 0 /\ EmptyState.summary = <<>>
      /\ EmptyState.upper = 0 /\ EmptyState.pad = Unsaved
  BY DEF EmptyState, SessionStates
<1>3. state["chat"] = EmptyState /\ state \in [MemorySessions -> SessionStates]
      /\ eventRows["chat"] = {} /\ eventRows[UserMemory] = {}
  BY <1>1, <1>2 DEF MemorySessions
<1>4. MemoryTypes
  <2>1. eventRows = [s \in MemorySessions |-> eventRows[s]] /\ calling = [c \in Callers |-> calling[c]]
    BY <1>1
  <2> QED
    BY <1>1, <1>3, <2>1, FS_EmptySet DEF MemoryTypes, SessionStates
<1>5. ChunksOfEvents /\ EventsHaveChunks
  BY <1>1 DEF ChunksOfEvents, EventsHaveChunks
<1>6. ReportedNotesKept
  BY <1>1, <1>3 DEF ReportedNotesKept
<1>7. StoringAlone /\ SummariesExtend
  BY <1>1, <1>2, <1>3 DEF StoringAlone, Storing, SummariesExtend
<1>8. LastIsHighest
  BY <1>1, <1>2, <1>3 DEF LastIsHighest
<1>9. SummaryAdjoins
  BY <1>2, <1>3, Len(<<>>) = 0 DEF SummaryAdjoins, Adjoining
<1> QED
  BY <1>4, <1>5, <1>6, <1>7, <1>8, <1>9 DEF MemoryInv

LEMMA MemoryStep == MemoryInv /\ [MemoryNext]_memoryVars => MemoryInv'
<1> SUFFICES ASSUME MemoryInv, [MemoryNext]_memoryVars PROVE MemoryInv'
  OBVIOUS
<1>1. CASE UNCHANGED memoryVars
  <2>1. StoringAlone' /\ SummariesExtend' /\ SummaryAdjoins' /\ calling' = [x \in Callers |-> calling'[x]]
    BY <1>1 DEF memoryVars, MemoryInv, StoringAlone, Storing, SummariesExtend, SummaryAdjoins, Adjoining, MemoryTypes
  <2> QED
    BY <1>1, <2>1, CallOnly DEF memoryVars
<1>2. ASSUME NEW seq \in 1..MaxEvents, NEW text \in Texts, Store(seq, text) PROVE MemoryInv'
  BY <1>2, StoreKeeps
<1>3. ASSUME NEW c \in Callers, NEW text \in Texts, SaveNote(c, text) PROVE MemoryInv'
  BY <1>3, SaveNoteKeeps
<1>4. ASSUME NEW c \in Callers, NEW n \in NoteIds, NEW text \in Texts, UpdateNote(c, n, text)
      PROVE  MemoryInv'
  BY <1>4, UpdateNoteKeeps
<1>5. ASSUME NEW c \in Callers, NEW n \in NoteIds, DeleteNote(c, n) PROVE MemoryInv'
  BY <1>5, DeleteNoteKeeps
<1>6. ASSUME NEW c \in Callers, ReadNextSequence(c) \/ StoreNote(c) \/ CallerDropped(c) PROVE MemoryInv'
  BY <1>6, ReadNextKeeps, StoreNoteKeeps, DroppedKeeps
<1>7. ASSUME NEW c \in Callers, ReadSummary(c) \/ WriteSummary(c) PROVE MemoryInv'
  BY <1>7, ReadSummaryKeeps, WriteSummaryKeeps
<1>8. ASSUME NEW items \in Texts, WriteScratchpad(items) PROVE MemoryInv'
  BY <1>8, ScratchpadKeeps DEF WriteScratchpad
<1>9. CASE ClearScratchpad
  BY <1>9, ScratchpadKeeps DEF ClearScratchpad
<1>10. CASE Forget
  BY <1>10, ForgetKeepsAll
<1> QED
  BY <1>1, <1>2, <1>3, <1>4, <1>5, <1>6, <1>7, <1>8, <1>9, <1>10 DEF MemoryNext

\* With a list of results at least as long as the user's memory, everything
\* that was found is in it.
LEMMA ShortListComplete ==
    ASSUME IsFiniteSet(chunks), NEW s, NEW hash,
           Cardinality({d \in chunks : d.session = s}) <= TopK, NEW hits \in HybridResults(s, hash)
    PROVE  FtsSearch(s, hash) \subseteq hits
<1> DEFINE own == {d \in chunks : d.session = s}
           fts == FtsSearch(s, hash)
<1>1. PICK v \in VectorSearch(s) :
         /\ hits \in SUBSET (v \cup fts)
         /\ Cardinality(hits) = Min({TopK, Cardinality(v \cup fts)})
  BY DEF HybridResults
<1> DEFINE found == v \cup fts
<1>2. own \in SUBSET chunks /\ v \in SUBSET own /\ found \in SUBSET own
  BY DEF VectorSearch, FtsSearch
<1> HIDE DEF own, fts, found
<1>3. IsFiniteSet(own)
  BY <1>2, FS_Subset
<1>4. IsFiniteSet(found) /\ Cardinality(found) <= Cardinality(own)
  BY <1>2, <1>3, FS_Subset
<1>5. Cardinality(found) \in Nat /\ Cardinality(own) \in Nat /\ Cardinality(own) <= TopK
  BY <1>3, <1>4, FS_CardinalityType DEF own
<1>6. Min({TopK, Cardinality(found)}) = Cardinality(found)
  BY <1>4, <1>5, MemoryBoundsAssumption DEF Min
<1>7. hits = found
  <2>1. hits \in SUBSET found /\ Cardinality(hits) = Cardinality(found)
    BY <1>1, <1>6 DEF found
  <2> QED
    BY <2>1, <1>4, FS_Subset
<1> QED
  BY <1>7 DEF found, fts

LEMMA MemoryInvConsistent == MemoryInv => MemoryConsistent
<1> SUFFICES ASSUME MemoryInv PROVE MemoryConsistent
  OBVIOUS
<1>1. IndexMatchesEvents
  BY DEF MemoryInv, ChunksOfEvents, EventsHaveChunks, IndexMatchesEvents
<1>2. StatePartsKept
  BY MaxIsLast DEF MemoryInv, StatePartsKept, LastIsHighest
<1>3. SavedNotesFound
  <2>1. SUFFICES ASSUME Cardinality({d \in chunks : d.session = UserMemory}) <= TopK,
                        NEW n \in NoteIds, saved[n] # Withdrawn, NEW i \in DOMAIN saved[n],
                        NEW hits \in HybridResults(UserMemory, saved[n][i])
                 PROVE  \E d \in hits : d.note = n
    BY DEF SavedNotesFound
  <2>2. FtsSearch(UserMemory, saved[n][i]) \subseteq hits
    <3>1. IsFiniteSet(chunks)
      BY DEF MemoryInv, MemoryTypes
    <3> QED
      BY <2>1, <3>1, ShortListComplete
  <2>3. saved[n] # Unsaved
    BY DEF Unsaved
  <2>4. {r.text : r \in {r \in eventRows[UserMemory] : r.note = n}} = {saved[n]} \ {Unsaved, Withdrawn}
    BY DEF MemoryInv, ReportedNotesKept
  <2>5. PICK r \in eventRows[UserMemory] : r.note = n /\ r.text = saved[n]
    BY <2>1, <2>3, <2>4
  <2>6. PICK d \in chunks : d.session = UserMemory /\ d.hash = saved[n][i] /\ d.note = n
    BY <2>5 DEF MemoryInv, EventsHaveChunks, MemorySessions
  <2> QED
    BY <2>2, <2>6 DEF FtsSearch
<1> QED
  BY <1>1, <1>2, <1>3 DEF MemoryInv, MemoryConsistent

\* What is in memory, for any number of callers, texts and notes and however
\* their calls interleave, fail or are dropped: every event is indexed and
\* nothing else is, notes that were reported are there and are found, and the
\* parts of a session's state keep out of each other's way (LibsqlMemory).
THEOREM MemoryStaysConsistent == MemorySpec => []MemoryConsistent
<1>1. MemoryInv => MemoryConsistent
  BY MemoryInvConsistent
<1> QED
  BY MemoryInitInv, MemoryStep, <1>1, PTL DEF MemorySpec
-----------------------------------------------------------------------------
(* Skills.                                                                  *)

CallShape(k) == k = [at |-> k.at, place |-> k.place, write |-> k.write]

\* Which texts are valid, and which are no file at all.
LEMMA SkillTexts ==
    /\ ~ValidateSkill(NoSkill) /\ NoSkill # Folder /\ NoSkill # Truncated
    /\ \A meta, body : SkillText(meta, body) # NoSkill /\ SkillText(meta, body) # Truncated
    /\ \A meta, body : /\ SkillText(meta, body).text = "skill"
                       /\ SkillText(meta, body).meta = meta /\ SkillText(meta, body).body = body
    /\ \A s : s = NoSkill \/ s = Folder \/ s = Truncated => ~ValidateSkill(s)
<1>1. NoSkill.text = "none" /\ Folder.text = "folder" /\ Truncated.text = "empty"
  BY DEF NoSkill, Folder, Truncated
<1>2. \A meta, body : /\ SkillText(meta, body).text = "skill"
                      /\ SkillText(meta, body).meta = meta /\ SkillText(meta, body).body = body
  BY DEF SkillText
<1> QED
  BY <1>1, <1>2 DEF ValidateSkill

\* A call that gets to another step keeps where and what it writes.
LEMMA CallAt ==
    ASSUME NEW k, CallShape(k), NEW a
    PROVE  [k EXCEPT !.at = a] = [at |-> a, place |-> k.place, write |-> k.write]
BY DEF CallShape

\* A call that fails or is killed keeps where and what it writes.
LEMMA UnwrittenCall ==
    ASSUME NEW k, CallShape(k)
    PROVE  /\ CallShape(Unwritten(k)) /\ Unwritten(k).place = k.place
           /\ Unwritten(k).at \in {"killed", "cut"} /\ (k.at = "fill" => Unwritten(k).at = "cut")
<1> DEFINE a == IF k.at = "fill" THEN "cut" ELSE "killed"
<1>1. Unwritten(k) = [k EXCEPT !.at = a]
  BY DEF Unwritten
<1>2. Unwritten(k) = [at |-> a, place |-> k.place, write |-> k.write]
  BY <1>1, CallAt
<1>3. a \in {"killed", "cut"} /\ (k.at = "fill" => a = "cut")
  OBVIOUS
<1> HIDE DEF a
<1> QED
  BY <1>2, <1>3 DEF CallShape

\* A step of one call that changes no file.
LEMMA SkillCallMoves ==
    ASSUME SkillsInv, NEW c \in SkillCalls, NEW k, skillCall' = [skillCall EXCEPT ![c] = k],
           UNCHANGED skillFile, skillCall[c].at # "cut", k.at # "new",
           skillCall[c].at = "fill" => k.at = "cut", skillCall[c].place = "other" => k.place = "other",
           skillCall[c].at \in {"new", "refused"} =>
               k.at \in {"refused", "truncate"} \/ ~ValidateSkill(skillFile["other"]),
           CallShape(k), k.place \in SkillPlaces, k.at # "done", skillCall[c].at # "done",
           k.at \in {"check", "make", "truncate", "fill"} => k.write = SkillText(k.write.meta, k.write.body),
           k.at \in {"make", "truncate", "fill"} => ValidateSkill(k.write),
           k.at \in {"check", "make"} => k.place = "folder",
           k.at = "make" => skillFile["bare"] = NoSkill,
           k.at \in {"truncate", "fill"} => skillFile[k.place] # NoSkill
    PROVE  SkillsInv'
<1>1. \A x \in SkillCalls : skillCall'[x] = IF x = c THEN k ELSE skillCall[x]
  BY DEF SkillsInv, SkillsTypes
<1>2. SkillsTypes'
  <2>1. skillCall' = [x \in SkillCalls |-> skillCall'[x]]
    BY DEF SkillsInv, SkillsTypes
  <2>2. \A x \in SkillCalls :
         /\ skillCall'[x] = [at |-> skillCall'[x].at, place |-> skillCall'[x].place,
                             write |-> skillCall'[x].write]
         /\ skillCall'[x].place \in SkillPlaces
         /\ skillCall'[x].at \in {"check", "make", "truncate", "fill"} =>
              skillCall'[x].write = SkillText(skillCall'[x].write.meta, skillCall'[x].write.body)
    BY <1>1 DEF SkillsInv, SkillsTypes, CallShape
  <2> QED
    BY <2>1, <2>2 DEF SkillsInv, SkillsTypes
<1>3. WritersChecked'
  BY <1>1 DEF SkillsInv, WritersChecked
<1>4. DoneOrRewriting'
  BY <1>1 DEF SkillsInv, DoneOrRewriting, ResolveSkill
<1>5. OtherKept'
  <2>1. CASE \E x \in SkillCalls : skillCall'[x].place = "other"
    BY <2>1 DEF OtherKept
  <2>2. CASE skillFile["other"] = NoSkill
    BY <2>2 DEF OtherKept
  <2>3. CASE skillFile["other"] # NoSkill /\ \A x \in SkillCalls : skillCall'[x].place # "other"
    <3>1. \A x \in SkillCalls : skillCall[x].place # "other"
      BY <2>3, <1>1
    <3>2. /\ ValidateSkill(skillFile["other"]) /\ skillFile["folder"] = NoSkill /\ skillFile["bare"] = NoSkill
          /\ \A x \in SkillCalls : skillCall[x].at \in {"new", "refused"}
      BY <2>3, <3>1 DEF SkillsInv, OtherKept
    <3>3. k.place \in {"folder", "bare"}
      BY <2>3, <1>1 DEF SkillPlaces
    <3>4. k.at \in {"new", "refused"}
      BY <3>2, <3>3, <2>3, <1>1
    <3> QED
      BY <3>2, <3>4, <1>1 DEF OtherKept
  <2> QED
    BY <2>1, <2>2, <2>3
<1>6. SkillHasOneFile'
  BY <1>5, SkillTexts DEF SkillsInv, SkillHasOneFile, OtherKept
<1> QED
  BY <1>2, <1>3, <1>4, <1>5, <1>6 DEF SkillsInv

\* A step of one call that writes the file p.
WritesFile(c, at, p, s) ==
    /\ skillCall' = [skillCall EXCEPT ![c].at = at] /\ skillFile' = [skillFile EXCEPT ![p] = s]
    /\ p \in SkillPlaces /\ skillCall[c].place = p
    /\ s # NoSkill /\ (p # "other" => \A q \in {"folder", "bare"} \ {p} : skillFile[q] = NoSkill)
    /\ skillCall[c].at \in {"make", "truncate", "fill"} /\ at \in {"truncate", "fill", "done"}
    /\ at = "fill" => skillCall[c].at = "truncate"
    /\ at = "truncate" => skillCall[c].at = "make" /\ (s = skillFile[p] \/ skillFile[p] = NoSkill)
    /\ at = "done" => ValidateSkill(s)

LEMMA SkillFileMoves ==
    ASSUME SkillsInv, NEW c \in SkillCalls, NEW at, NEW p, NEW s, WritesFile(c, at, p, s)
    PROVE  SkillsInv'
<1> USE DEF WritesFile
<1> DEFINE k == [skillCall[c] EXCEPT !.at = at]
<1>0. /\ CallShape(skillCall[c]) /\ skillCall[c].place \in SkillPlaces
      /\ skillCall[c].write = SkillText(skillCall[c].write.meta, skillCall[c].write.body)
      /\ ValidateSkill(skillCall[c].write)
  BY DEF SkillsInv, SkillsTypes, CallShape, WritersChecked
<1>1. k.at = at /\ k.place = p /\ k.write = skillCall[c].write /\ CallShape(k)
  <2>1. k = [at |-> at, place |-> skillCall[c].place, write |-> skillCall[c].write]
    BY <1>0 DEF CallShape
  <2> QED
    BY <2>1 DEF CallShape
<1>2. \A x \in SkillCalls : skillCall'[x] = IF x = c THEN k ELSE skillCall[x]
  BY DEF SkillsInv, SkillsTypes
<1> HIDE DEF k
<1>3. skillFile'[p] = s /\ \A q \in SkillPlaces : q # p => skillFile'[q] = skillFile[q]
  BY DEF SkillsInv, SkillsTypes
<1>4. SkillsTypes'
  <2>1. skillCall' = [x \in SkillCalls |-> skillCall'[x]] /\ skillFile' = [x \in SkillPlaces |-> skillFile'[x]]
    BY DEF SkillsInv, SkillsTypes
  <2>2. \A x \in SkillCalls :
         /\ skillCall'[x] = [at |-> skillCall'[x].at, place |-> skillCall'[x].place,
                             write |-> skillCall'[x].write]
         /\ skillCall'[x].place \in SkillPlaces
         /\ skillCall'[x].at \in {"check", "make", "truncate", "fill"} =>
              skillCall'[x].write = SkillText(skillCall'[x].write.meta, skillCall'[x].write.body)
    BY <1>0, <1>1, <1>2 DEF SkillsInv, SkillsTypes, CallShape
  <2> QED
    BY <2>1, <2>2 DEF SkillsInv, SkillsTypes
<1>5. SkillHasOneFile' /\ OtherKept'
  <2>0. \A x \in SkillCalls : skillCall'[x].place = skillCall[x].place
    BY <1>1, <1>2
  <2>1. CASE p = "other"
    <3>1. skillCall'[c].place = "other"
      BY <2>1, <1>1, <1>2
    <3>2. skillFile'["folder"] = skillFile["folder"] /\ skillFile'["bare"] = skillFile["bare"]
      BY <2>1, <1>3 DEF SkillPlaces
    <3> QED
      BY <3>1, <3>2 DEF SkillsInv, SkillHasOneFile, OtherKept
  <2>2. CASE p # "other"
    <3>1. skillFile'["other"] = skillFile["other"]
      BY <2>2, <1>3 DEF SkillPlaces
    <3>2. skillFile["other"] = NoSkill \/ \E x \in SkillCalls : skillCall[x].place = "other"
      BY DEF SkillsInv, OtherKept
    <3>3. skillFile'["folder"] = NoSkill \/ skillFile'["bare"] = NoSkill
      BY <2>2, <1>3 DEF SkillPlaces
    <3> QED
      BY <2>0, <3>1, <3>2, <3>3 DEF SkillHasOneFile, OtherKept
  <2> QED
    BY <2>1, <2>2
<1>6. WritersChecked'
  <2>1. SUFFICES ASSUME NEW x \in SkillCalls
                 PROVE  /\ skillCall'[x].at \in {"make", "truncate", "fill"} => ValidateSkill(skillCall'[x].write)
                        /\ skillCall'[x].at \in {"new", "check", "make"} => skillCall'[x].place = "folder"
                        /\ skillCall'[x].at = "make" => skillFile'["bare"] = NoSkill
                        /\ skillCall'[x].at \in {"truncate", "fill"} =>
                             skillFile'[skillCall'[x].place] # NoSkill
    BY DEF WritersChecked
  <2>2. CASE x = c
    BY <2>2, <1>0, <1>1, <1>2, <1>3
  <2>3. CASE x # c
    <3>1. skillCall'[x] = skillCall[x] /\ skillCall[x].place \in SkillPlaces
      BY <2>3, <1>2 DEF SkillsInv, SkillsTypes
    <3>2. skillFile[p] # NoSkill \/ p = "folder"
      BY DEF SkillsInv, WritersChecked
    <3> QED
      BY <3>1, <3>2, <1>3 DEF SkillsInv, WritersChecked
  <2> QED
    BY <2>2, <2>3
<1>7. DoneOrRewriting'
  <2>1. skillCall'[c].at = at
    BY <1>1, <1>2
  <2>2. CASE at = "fill"
    BY <2>1, <2>2 DEF DoneOrRewriting
  <2>3. CASE at = "done"
    <3>1. p \in ResolveSkill'
      BY <2>3, <1>3, <1>4 DEF ResolveSkill, SkillsTypes
    <3> QED
      BY <3>1 DEF DoneOrRewriting
  <2>4. CASE at = "truncate"
    <3>1. \A x \in SkillCalls : (skillCall'[x].at \in {"fill", "cut", "done"})
              => skillCall'[x] = skillCall[x]
      BY <2>1, <2>4, <1>2
    <3>2. \A x \in SkillCalls : skillCall[x].at \in {"fill", "cut"} => skillCall'[x] = skillCall[x]
      BY <2>4, <1>2
    <3>3. ResolveSkill \subseteq ResolveSkill'
      <4>1. \A q \in SkillPlaces : skillFile'[q] = skillFile[q] \/ skillFile[q] = NoSkill
        BY <2>4, <1>3
      <4> QED
        BY <4>1, <1>4, SkillTexts DEF ResolveSkill, SkillsInv, SkillsTypes
    <3> QED
      BY <3>1, <3>2, <3>3 DEF SkillsInv, DoneOrRewriting
  <2> QED
    BY <2>2, <2>3, <2>4
<1> QED
  BY <1>4, <1>5, <1>6, <1>7 DEF SkillsInv

LEMMA SkillsStep == SkillsInv /\ [SkillsNext]_skillVars => SkillsInv'
<1> SUFFICES ASSUME SkillsInv, [SkillsNext]_skillVars PROVE SkillsInv'
  OBVIOUS
<1>0. \A c \in SkillCalls : CallShape(skillCall[c]) /\ skillCall[c].place \in SkillPlaces
  BY DEF SkillsInv, SkillsTypes, CallShape
<1>1. CASE UNCHANGED <<skillFile, skillCall>>
  BY <1>1 DEF SkillsInv, SkillsTypes, SkillHasOneFile, WritersChecked, OtherKept, DoneOrRewriting, ResolveSkill
<1>2. ASSUME NEW c \in SkillCalls, CreateSkill(c) PROVE SkillsInv'
  <2>1. PICK meta \in Metas, body \in {c, "huge"} :
         skillCall' = [skillCall EXCEPT ![c] =
             [at |-> IF ResolveSkill # {} THEN "refused" ELSE "check",
              place |-> "folder", write |-> SkillText(meta, body)]]
    BY <1>2 DEF CreateSkill
  <2> DEFINE k == [at |-> IF ResolveSkill # {} THEN "refused" ELSE "check",
                   place |-> "folder", write |-> SkillText(meta, body)]
  <2>2. k.at \in {"refused", "check"} /\ k.place = "folder" /\ k.write = SkillText(meta, body) /\ CallShape(k)
    BY DEF CallShape
  <2>3. skillCall' = [skillCall EXCEPT ![c] = k] /\ UNCHANGED skillFile /\ skillCall[c].at = "new"
    BY <1>2, <2>1 DEF CreateSkill
  <2> HIDE DEF k
  <2>4. k.write = SkillText(k.write.meta, k.write.body)
    BY <2>2, SkillTexts
  <2>5. k.at = "refused" \/ ~ValidateSkill(skillFile["other"])
    BY DEF k, ResolveSkill, SkillsInv, SkillsTypes, SkillPlaces
  <2>6. skillCall[c].place = "folder"
    BY <2>3 DEF SkillsInv, WritersChecked
  <2>7. k.place \in SkillPlaces
    BY <2>2 DEF SkillPlaces
  <2> QED
    BY <2>2, <2>3, <2>4, <2>5, <2>6, <2>7, SkillCallMoves
<1>3. ASSUME NEW c \in SkillCalls, CheckNewSkill(c) PROVE SkillsInv'
  <2> DEFINE a == IF EnsureTargetAbsent /\ ValidateSkill(skillCall[c].write) THEN "make" ELSE "refused"
             k == [at |-> a, place |-> skillCall[c].place, write |-> skillCall[c].write]
  <2>1. skillCall[c].at = "check" /\ skillCall' = [skillCall EXCEPT ![c].at = a] /\ UNCHANGED skillFile
    BY <1>3 DEF CheckNewSkill
  <2>2. skillCall' = [skillCall EXCEPT ![c] = k]
    <3>1. [skillCall[c] EXCEPT !.at = a] = k
      BY <1>0, CallAt
    <3> HIDE DEF k, a
    <3> QED
      BY <2>1, <3>1
  <2>3. CallShape(k) /\ k.at = a /\ k.place = skillCall[c].place /\ k.write = skillCall[c].write
    BY DEF CallShape
  <2>4. k.write = SkillText(k.write.meta, k.write.body)
    BY <2>1, <2>3 DEF SkillsInv, SkillsTypes
  <2>5. k.place = "folder"
    BY <2>1, <2>3 DEF SkillsInv, WritersChecked
  <2>6. a \in {"make", "refused"} /\ (a = "make" => EnsureTargetAbsent /\ ValidateSkill(skillCall[c].write))
    OBVIOUS
  <2>7. k.place \in SkillPlaces
    BY <2>5 DEF SkillPlaces
  <2> HIDE DEF k, a
  <2> QED
    BY <2>1, <2>2, <2>3, <2>4, <2>5, <2>6, <2>7, SkillCallMoves DEF EnsureTargetAbsent
<1>4. ASSUME NEW c \in SkillCalls, UpdateSkill(c) PROVE SkillsInv'
  <2>0. skillCall[c].at = "new" /\ UNCHANGED skillFile
    BY <1>4 DEF UpdateSkill
  <2>1. CASE skillCall' = [skillCall EXCEPT ![c].at = "refused"]
    <3> DEFINE k == [at |-> "refused", place |-> skillCall[c].place, write |-> skillCall[c].write]
    <3>1. skillCall' = [skillCall EXCEPT ![c] = k]
      <4>1. [skillCall[c] EXCEPT !.at = "refused"] = k
        BY <1>0, CallAt
      <4> HIDE DEF k
      <4> QED
        BY <2>1, <4>1
    <3>2. CallShape(k) /\ k.at = "refused" /\ k.place = skillCall[c].place
      BY DEF CallShape
    <3> HIDE DEF k
    <3> QED
      BY <3>1, <3>2, <2>0, <1>0, SkillCallMoves
  <2>2. ASSUME NEW p \in ResolveSkill, NEW meta \in {"keep", "manual"}, NEW body \in {"keep", c, "huge"},
               skillCall' = [skillCall EXCEPT ![c] =
                      [at |-> IF ValidateSkill(MergeSkill(skillFile[p], meta, body)) THEN "truncate" ELSE "refused",
                       place |-> p, write |-> MergeSkill(skillFile[p], meta, body)]]
        PROVE  SkillsInv'
    <3> DEFINE new == MergeSkill(skillFile[p], meta, body)
               k == [at |-> IF ValidateSkill(new) THEN "truncate" ELSE "refused",
                     place |-> p, write |-> new]
    <3>1. PICK m, b : new = SkillText(m, b)
      BY DEF MergeSkill
    <3>2. new = SkillText(new.meta, new.body)
      BY <3>1, SkillTexts
    <3> HIDE DEF new
    <3>3. /\ CallShape(k) /\ k.at \in {"truncate", "refused"} /\ k.place = p /\ k.write = new
          /\ k.at = "truncate" => ValidateSkill(new)
      BY DEF CallShape
    <3>4. skillCall' = [skillCall EXCEPT ![c] = k]
      BY <2>2 DEF new
    <3>5. p \in SkillPlaces /\ skillFile[p] # NoSkill
      BY SkillTexts DEF ResolveSkill, SkillsInv, SkillsTypes
    <3>6. skillCall[c].place = "folder"
      BY <2>0 DEF SkillsInv, WritersChecked
    <3> HIDE DEF k
    <3> QED
      BY <3>2, <3>3, <3>4, <3>5, <3>6, <2>0, SkillCallMoves
  <2> QED
    BY <1>4, <2>1, <2>2 DEF UpdateSkill
<1>5. ASSUME NEW c \in SkillCalls, MakeFolder(c) PROVE SkillsInv'
  <2> DEFINE s == IF skillFile["folder"] = NoSkill THEN Folder ELSE skillFile["folder"]
  <2>1. /\ skillCall[c].at = "make" /\ skillCall' = [skillCall EXCEPT ![c].at = "truncate"]
        /\ skillFile' = [skillFile EXCEPT !["folder"] = s]
    BY <1>5 DEF MakeFolder
  <2>2. skillCall[c].place = "folder" /\ skillFile["bare"] = NoSkill
    BY <2>1 DEF SkillsInv, WritersChecked
  <2>3. s # NoSkill /\ (s = skillFile["folder"] \/ skillFile["folder"] = NoSkill)
    BY SkillTexts
  <2>4. \A q \in {"folder", "bare"} \ {"folder"} : skillFile[q] = NoSkill
    BY <2>2
  <2> HIDE DEF s
  <2>5. WritesFile(c, "truncate", "folder", s)
    BY <2>1, <2>2, <2>3, <2>4 DEF WritesFile, SkillPlaces
  <2> QED
    BY <2>5, SkillFileMoves
<1>6. ASSUME NEW c \in SkillCalls, TruncateSkill(c) PROVE SkillsInv'
  <2>1. /\ skillCall[c].at = "truncate" /\ skillCall' = [skillCall EXCEPT ![c].at = "fill"]
        /\ skillFile' = [skillFile EXCEPT ![skillCall[c].place] = Truncated]
    BY <1>6 DEF TruncateSkill
  <2>2. skillCall[c].place # "other" => \A q \in {"folder", "bare"} \ {skillCall[c].place} : skillFile[q] = NoSkill
    BY <2>1, <1>0 DEF SkillsInv, WritersChecked, SkillHasOneFile, SkillPlaces
  <2>3. skillCall[c].place \in SkillPlaces /\ Truncated # NoSkill
    BY <1>0, SkillTexts
  <2>4. WritesFile(c, "fill", skillCall[c].place, Truncated)
    BY <2>1, <2>2, <2>3 DEF WritesFile
  <2> QED
    BY <2>4, SkillFileMoves
<1>7. ASSUME NEW c \in SkillCalls, FillSkill(c) PROVE SkillsInv'
  <2> DEFINE new == skillCall[c].write
             p == skillCall[c].place
  <2>1. PICK s \in {new, [new EXCEPT !.body = "mixed"]} : skillFile' = [skillFile EXCEPT ![p] = s]
    BY <1>7 DEF FillSkill
  <2>2. skillCall[c].at = "fill" /\ skillCall' = [skillCall EXCEPT ![c].at = "done"]
    BY <1>7 DEF FillSkill
  <2>3. ValidateSkill(new) /\ new = SkillText(new.meta, new.body)
    BY <2>2 DEF SkillsInv, WritersChecked, SkillsTypes
  <2>4. ValidateSkill([new EXCEPT !.body = "mixed"])
    BY <2>3 DEF ValidateSkill, SkillText
  <2>5. ValidateSkill(s) /\ s # NoSkill
    BY <2>3, <2>4, SkillTexts
  <2>6. p # "other" => \A q \in {"folder", "bare"} \ {p} : skillFile[q] = NoSkill
    BY <2>2, <1>0 DEF SkillsInv, WritersChecked, SkillHasOneFile, SkillPlaces
  <2> HIDE DEF new
  <2>7. WritesFile(c, "done", p, s)
    BY <2>1, <2>2, <2>5, <2>6, <1>0 DEF WritesFile
  <2> QED
    BY <2>7, SkillFileMoves
<1>8. CASE StartGuest
  <2>1. /\ UNCHANGED skillFile
        /\ skillCall' = [c \in SkillCalls |->
               IF skillCall[c].at \in {"new", "refused", "done", "killed", "cut"} THEN skillCall[c]
               ELSE Unwritten(skillCall[c])]
    BY <1>8 DEF StartGuest
  <2>2. ASSUME NEW c \in SkillCalls
        PROVE  /\ skillCall'[c].place = skillCall[c].place /\ CallShape(skillCall'[c])
               /\ \/ skillCall'[c] = skillCall[c] /\ skillCall[c].at \in {"new", "refused", "done", "killed", "cut"}
                  \/ /\ skillCall'[c].at \in {"killed", "cut"} /\ skillCall[c].at \notin {"new", "refused", "done", "cut"}
                     /\ skillCall[c].at = "fill" => skillCall'[c].at = "cut"
    <3>2. skillCall'[c] = IF skillCall[c].at \in {"new", "refused", "done", "killed", "cut"} THEN skillCall[c]
                          ELSE Unwritten(skillCall[c])
      BY <2>1
    <3> QED
      BY <3>2, <1>0, UnwrittenCall
  <2>3. SkillsTypes'
    <3>1. skillCall' = [c \in SkillCalls |-> skillCall'[c]] /\ skillFile' = [p \in SkillPlaces |-> skillFile'[p]]
      BY <2>1 DEF SkillsInv, SkillsTypes
    <3>2. ASSUME NEW c \in SkillCalls
          PROVE
         /\ skillCall'[c] = [at |-> skillCall'[c].at, place |-> skillCall'[c].place,
                             write |-> skillCall'[c].write]
         /\ skillCall'[c].place \in SkillPlaces
         /\ skillCall'[c].at \in {"check", "make", "truncate", "fill"} =>
              skillCall'[c].write = SkillText(skillCall'[c].write.meta, skillCall'[c].write.body)
      BY <2>2, <1>0 DEF CallShape
    <3> QED
      BY <3>1, <3>2 DEF SkillsTypes
  <2>4. \A c \in SkillCalls : skillCall'[c].at \notin {"check", "make", "truncate", "fill"}
    BY <2>2
  <2>5. WritersChecked'
    BY <2>2, <2>4 DEF SkillsInv, WritersChecked
  <2>6. DoneOrRewriting'
    BY <2>1, <2>2 DEF SkillsInv, DoneOrRewriting, ResolveSkill
  <2>7. OtherKept' /\ SkillHasOneFile'
    BY <2>1, <2>2 DEF SkillsInv, OtherKept, SkillHasOneFile
  <2> QED
    BY <2>3, <2>5, <2>6, <2>7 DEF SkillsInv
<1>9. CASE StartSession
  BY <1>1, <1>9 DEF StartSession
<1>10. ASSUME NEW c \in SkillCalls, SkillWriteFails(c) PROVE SkillsInv'
  <2> DEFINE k == Unwritten(skillCall[c])
  <2>1. /\ skillCall[c].at \in {"make", "truncate", "fill"} /\ UNCHANGED skillFile
        /\ skillCall' = [skillCall EXCEPT ![c] = k]
    BY <1>10 DEF SkillWriteFails
  <2>2. /\ CallShape(k) /\ k.place = skillCall[c].place /\ k.at \in {"killed", "cut"}
        /\ skillCall[c].at = "fill" => k.at = "cut"
    BY <1>0, UnwrittenCall
  <2> HIDE DEF k
  <2> QED
    BY <2>1, <2>2, <1>0, SkillCallMoves
<1> QED
  BY <1>1, <1>2, <1>3, <1>4, <1>5, <1>6, <1>7, <1>8, <1>9, <1>10 DEF SkillsNext, skillVars


LEMMA SkillsInitInv == SkillsInit => SkillsInv
<1> SUFFICES ASSUME SkillsInit PROVE SkillsInv
  OBVIOUS
<1>1. skillCall = [c \in SkillCalls |-> NotCalled]
  BY DEF SkillsInit
<1>2. /\ skillFile = [p \in SkillPlaces |-> skillFile[p]] /\ skillFile["folder"] = NoSkill
      /\ skillFile["other"] # NoSkill => ValidateSkill(skillFile["other"]) /\ skillFile["bare"] = NoSkill
  <2>1. PICK q \in {"none", "bare", "other"} :
          skillFile = [p \in SkillPlaces |-> IF p = q THEN SkillText("always", "old") ELSE NoSkill]
    BY DEF SkillsInit
  <2>2. ValidateSkill(SkillText("always", "old"))
    BY SkillTexts DEF ValidateSkill
  <2> QED
    BY <2>1, <2>2 DEF SkillPlaces
<1>3. /\ NotCalled.at = "new" /\ NotCalled.place = "folder"
      /\ NotCalled = [at |-> NotCalled.at, place |-> NotCalled.place, write |-> NotCalled.write]
  BY DEF NotCalled
<1>4. \A c \in SkillCalls : skillCall[c] = NotCalled
  BY <1>1
<1>5. SkillsTypes
  BY <1>1, <1>2, <1>3, <1>4 DEF SkillsTypes, SkillPlaces
<1>6. SkillHasOneFile /\ WritersChecked /\ OtherKept /\ DoneOrRewriting
  BY <1>2, <1>3, <1>4 DEF SkillHasOneFile, WritersChecked, OtherKept, DoneOrRewriting
<1> QED
  BY <1>5, <1>6 DEF SkillsInv

LEMMA SkillsLoadStep == SkillsInv /\ [SkillsNext]_skillVars => [LoadsReported]_skillVars
<1> SUFFICES ASSUME SkillsInv, SkillsNext PROVE LoadsReported
  BY DEF skillVars
<1> SUFFICES ASSUME starts' # starts,
                    \A c \in SkillCalls : skillCall[c].at \notin {"fill", "cut"},
                    \E c \in SkillCalls : skillCall[c].at = "done"
             PROVE  ResolveSkill # {} /\ prompt' \in {NoSkill} \cup {skillFile[p] : p \in ResolveSkill}
  BY DEF LoadsReported
<1>1. ResolveSkill # {}
  BY DEF SkillsInv, DoneOrRewriting
<1>2. StartGuest
  BY DEF SkillsNext, CreateSkill, CheckNewSkill, MakeFolder, UpdateSkill, TruncateSkill, FillSkill, SkillWriteFails,
         StartSession
<1>3. PICK shellReady \in BOOLEAN : prompt' \in LoadSkills(shellReady)
  BY <1>2 DEF StartGuest
<1>4. DiscoverSkill = {skillFile[p] : p \in ResolveSkill}
  BY <1>1 DEF DiscoverSkill
<1>5. prompt' \in {NoSkill} \cup DiscoverSkill
  BY <1>3 DEF LoadSkills
<1> QED
  BY <1>1, <1>4, <1>5

\* Whatever creations and updates overlap and wherever a guest is killed, the
\* skill has at most one of the two files of its name, beside a file with
\* another name only where an update of that one was under way or was cut; and
\* once a skill was reported as stored a guest that starts loads the workspace's
\* definition of it, unless a write was cut (skill_tools.rs, skills.rs).
THEOREM SkillsStayStored == SkillsSpec => SkillsStored
<1>1. SkillsInv => SkillHasOneFile
  BY DEF SkillsInv
<1> QED
  BY SkillsInitInv, SkillsStep, SkillsLoadStep, <1>1, PTL DEF SkillsSpec, SkillsStored, ReportedSkillLoads

-----------------------------------------------------------------------------
(* Scheduler.                                                               *)

\* The failed runs at the end of a history, counted.
LEMMA TrailingCounted ==
    ASSUME NEW s \in Seq(Outcomes), NEW k, TrailingIs(s, k)
    PROVE  Trailing(s) = k
<1> DEFINE S == {j \in 0..Len(s) : \A i \in (Len(s) - j + 1)..Len(s) : s[i] = "failed"}
<1>1. k \in S
  BY DEF TrailingIs
<1>2. ASSUME NEW j \in S PROVE k >= j
  <2>1. SUFFICES ASSUME k < j PROVE FALSE
    BY DEF TrailingIs
  <2>2. Len(s) \in Nat /\ k \in 0..Len(s) /\ j \in 0..Len(s)
    BY DEF TrailingIs
  <2>3. Len(s) - k \in (Len(s) - j + 1)..Len(s) /\ k < Len(s)
    BY <2>1, <2>2
  <2> QED
    BY <2>3 DEF TrailingIs
<1>3. \A y \in S : y \in Nat
  OBVIOUS
<1>4. Trailing(s) = Max(S)
  BY DEF Trailing
<1> HIDE DEF S
<1> QED
  BY <1>1, <1>2, <1>3, <1>4, MaxOf

\* What a recorded run does to the count: one more, or none.
LEMMA CountedAppend ==
    ASSUME NEW s \in Seq(Outcomes), NEW f \in Nat, Counted(s, f), NEW o \in Outcomes
    PROVE  Counted(Append(s, o), IF o = "failed" THEN f + 1 ELSE 0)
<1> DEFINE t == Append(s, o)
<1>1. /\ Len(t) = Len(s) + 1 /\ t[Len(t)] = o /\ Len(s) \in Nat
      /\ \A i \in 1..Len(s) : t[i] = s[i]
  OBVIOUS
<1> HIDE DEF t
<1>2. CASE o = "failed"
  <2>1. PICK k \in 0..Len(s) : TrailingIs(s, k) /\ IF k < MaxHistory THEN f = k ELSE f >= k
    BY DEF Counted
  <2>2. k + 1 \in 0..Len(t) /\ k \in Nat /\ Len(t) \in Nat
    BY <1>1
  <2>3. ASSUME NEW i \in (Len(t) - (k + 1) + 1)..Len(t) PROVE t[i] = "failed"
    <3>1. CASE i = Len(t)
      BY <3>1, <1>1, <1>2
    <3>2. CASE i # Len(t)
      <4>1. i \in (Len(s) - k + 1)..Len(s) /\ i \in 1..Len(s)
        BY <3>2, <1>1, <2>2
      <4> QED
        BY <4>1, <1>1, <2>1 DEF TrailingIs
    <3> QED
      BY <3>1, <3>2
  <2>4. k + 1 < Len(t) => t[Len(t) - (k + 1)] # "failed"
    <3>1. SUFFICES ASSUME k < Len(s) PROVE t[Len(s) - k] # "failed"
      BY <1>1, <2>2
    <3>2. Len(s) - k \in 1..Len(s)
      BY <3>1, <1>1, <2>2
    <3> QED
      BY <3>1, <3>2, <1>1, <2>1 DEF TrailingIs
  <2>5. TrailingIs(t, k + 1)
    BY <2>2, <2>3, <2>4 DEF TrailingIs
  <2>6. IF k + 1 < MaxHistory THEN f + 1 = k + 1 ELSE f + 1 >= k + 1
    BY <2>1, <2>2, LimitsType
  <2> QED
    BY <1>2, <2>2, <2>5, <2>6 DEF Counted, t
<1>3. CASE o # "failed"
  <2>1. TrailingIs(t, 0)
    BY <1>1, <1>3 DEF TrailingIs
  <2>2. 0 \in 0..Len(t) /\ 0 < MaxHistory
    BY <1>1, LimitsType
  <2> QED
    BY <1>3, <2>1, <2>2 DEF Counted, t
<1> QED
  BY <1>2, <1>3

\* Pruning leaves the newest runs.
LEMMA NewestRuns ==
    ASSUME NEW s \in Seq(Outcomes), NEW n \in Nat \ {0}
    PROVE  /\ Newest(s, n) \in Seq(Outcomes)
           /\ Len(Newest(s, n)) = IF Len(s) > n THEN n ELSE Len(s)
           /\ \A i \in 1..Len(Newest(s, n)) : Newest(s, n)[i] = s[Len(s) - Len(Newest(s, n)) + i]
<1> DEFINE from == IF Len(s) > n THEN Len(s) - n + 1 ELSE 1
<1>1. from \in 1..(Len(s) + 1) /\ Len(s) \in Nat /\ Newest(s, n) = SubSeq(s, from, Len(s))
  BY DEF Newest
<1>2. Len(s) - from + 1 = IF Len(s) > n THEN n ELSE Len(s)
  BY <1>1
<1>3. from = Len(s) - (IF Len(s) > n THEN n ELSE Len(s)) + 1
  BY <1>1
<1> HIDE DEF from
<1>4. /\ SubSeq(s, from, Len(s)) \in Seq(Outcomes)
      /\ Len(SubSeq(s, from, Len(s))) = Len(s) - from + 1
      /\ \A i \in 1..(Len(s) - from + 1) : SubSeq(s, from, Len(s))[i] = s[from + i - 1]
  BY <1>1
<1>5. Len(Newest(s, n)) = Len(s) - from + 1
  BY <1>1, <1>4
<1>6. ASSUME NEW i \in 1..Len(Newest(s, n))
      PROVE  Newest(s, n)[i] = s[Len(s) - Len(Newest(s, n)) + i]
  <2>1. Len(s) - Len(Newest(s, n)) + i = from + i - 1
    BY <1>1, <1>5
  <2> QED
    BY <2>1, <1>1, <1>4, <1>5
<1> QED
  BY <1>1, <1>2, <1>4, <1>5, <1>6

LEMMA CountedNewest ==
    ASSUME NEW s \in Seq(Outcomes), NEW f \in Nat, Counted(s, f)
    PROVE  Counted(Newest(s, MaxHistory), f)
<1> DEFINE t == Newest(s, MaxHistory)
           m == MaxHistory
<1>0. m \in Nat \ {0}
  BY LimitsType
<1>1. /\ Len(t) = (IF Len(s) > m THEN m ELSE Len(s)) /\ Len(s) \in Nat
      /\ \A i \in 1..Len(t) : t[i] = s[Len(s) - Len(t) + i]
  <2>1. /\ Len(t) = (IF Len(s) > m THEN m ELSE Len(s))
        /\ \A i \in 1..Len(t) : t[i] = s[Len(s) - Len(t) + i]
    <3> HIDE DEF m
    <3> QED
      BY <1>0, NewestRuns DEF m
  <2>2. Len(s) \in Nat
    OBVIOUS
  <2> HIDE DEF t, m
  <2> QED
    BY <2>1, <2>2
<1>2. PICK k \in 0..Len(s) : TrailingIs(s, k) /\ IF k < m THEN f = k ELSE f >= k
  BY DEF Counted
<1> HIDE DEF t, m
<1> DEFINE j == IF k < Len(t) THEN k ELSE Len(t)
<1>3. j \in 0..Len(t) /\ Len(t) \in Nat /\ k \in Nat /\ j <= k /\ Len(t) <= Len(s)
  BY <1>0, <1>1
<1>4. ASSUME NEW i \in (Len(t) - j + 1)..Len(t) PROVE t[i] = "failed"
  <2>1. i \in 1..Len(t) /\ Len(s) - Len(t) + i \in (Len(s) - k + 1)..Len(s)
    BY <1>1, <1>3
  <2> QED
    BY <2>1, <1>1, <1>2 DEF TrailingIs
<1>5. j < Len(t) => t[Len(t) - j] # "failed"
  <2>1. SUFFICES ASSUME k < Len(t), j = k PROVE t[Len(t) - k] # "failed"
    BY <1>3
  <2>2. Len(t) - k \in 1..Len(t) /\ k < Len(s) /\ Len(s) - Len(t) + (Len(t) - k) = Len(s) - k
    BY <2>1, <1>3
  <2>3. t[Len(t) - k] = s[Len(s) - k]
    BY <2>2, <1>1
  <2> QED
    BY <2>2, <2>3, <1>2 DEF TrailingIs
<1>6. TrailingIs(t, j)
  BY <1>3, <1>4, <1>5 DEF TrailingIs
<1>7. IF j < m THEN f = j ELSE f >= j
  <2>1. CASE k < Len(t)
    BY <2>1, <1>2
  <2>2. CASE ~(k < Len(t))
    BY <2>2, <1>0, <1>1, <1>2, <1>3
  <2> QED
    BY <2>1, <2>2
<1> QED
  BY <1>3, <1>6, <1>7 DEF Counted, t, m

\* The invariant, for what is known of one id: its schedule, its history and
\* its run.
RunOK(def, r) ==
    /\ r.phase = "turn" => r.failures = def.failures
    /\ r.phase \in {"turn", "record"} => def.status # "disabled"
    /\ r.phase = "record" /\ r.status = "disabled" =>
         r.outcome = "cancelled" \/ (r.outcome = "failed" /\ def.failures + 1 >= DisableAfter)
CauseOK(def, history) ==
    def.status = "disabled" =>
        history # <<>> /\ (history[Len(history)] = "cancelled" \/ def.failures >= DisableAfter)
IdOK(def, history, r) ==
    /\ def \in Schedules \cup {None, Gone} /\ history \in Seq(Outcomes) /\ r \in Runs \cup {None}
    /\ def = None => r = None /\ history = <<>>
    /\ def \notin {None, Gone} =>
         /\ Counted(history, def.failures) /\ CauseOK(def, history)
         /\ r # None => RunOK(def, r)
GlobalsOK ==
    /\ now \in 0..MaxTime /\ editor \in [Editors -> Calls]
    /\ executor \in {"up", "stopping", "ended", "died"} /\ faults \in 0..MaxFaults

LEMMA InvById ==
    ASSUME SchedulerInv
    PROVE  GlobalsOK /\ SchedulerMaps /\ \A id \in Ids : IdOK(sched[id], rows[id], run[id])
<1>1. GlobalsOK /\ SchedulerMaps
  BY DEF SchedulerInv, TypeOK, GlobalsOK
<1>2. ASSUME NEW id \in Ids PROVE IdOK(sched[id], rows[id], run[id])
  <2>1. /\ sched[id] \in Schedules \cup {None, Gone} /\ rows[id] \in Seq(Outcomes) /\ run[id] \in Runs \cup {None}
        /\ sched[id] = None => run[id] = None /\ rows[id] = <<>>
    BY DEF SchedulerInv, TypeOK, FreshIds
  <2>2. ASSUME sched[id] \notin {None, Gone}
        PROVE  /\ Counted(rows[id], sched[id].failures) /\ CauseOK(sched[id], rows[id])
               /\ run[id] # None => RunOK(sched[id], run[id])
    <3>1. id \in Known
      BY <2>2 DEF Known
    <3> QED
      BY <3>1 DEF SchedulerInv, CopiesCurrent, DisabledForCause, CauseOK, RunOK
  <2> QED
    BY <2>1, <2>2 DEF IdOK
<1> QED
  BY <1>1, <1>2

LEMMA InvFromIds ==
    ASSUME GlobalsOK', SchedulerMaps', \A id \in Ids : IdOK(sched'[id], rows'[id], run'[id])
    PROVE  SchedulerInv'
<1>1. TypeOK'
  BY DEF TypeOK, GlobalsOK, IdOK
<1>2. FreshIds'
  BY DEF FreshIds, IdOK
<1>3. ASSUME NEW id \in Known'
      PROVE  /\ Counted(rows'[id], sched'[id].failures) /\ CauseOK(sched'[id], rows'[id])
             /\ run'[id] # None => RunOK(sched'[id], run'[id])
  BY DEF Known, IdOK
<1>4. CopiesCurrent'
  BY <1>3 DEF CopiesCurrent, RunOK
<1>5. DisabledForCause'
  BY <1>3 DEF DisabledForCause, CauseOK
<1> QED
  BY <1>1, <1>2, <1>3, <1>4, <1>5 DEF SchedulerInv

\* A step that changes what is known of one id.
LEMMA IdMoves ==
    ASSUME SchedulerInv, GlobalsOK', NEW id \in Ids, NEW def, NEW history, NEW r,
           sched' = [sched EXCEPT ![id] = def], rows' = [rows EXCEPT ![id] = history],
           run' = [run EXCEPT ![id] = r], IdOK(def, history, r)
    PROVE  SchedulerInv'
<1>1. SchedulerMaps /\ \A x \in Ids : IdOK(sched[x], rows[x], run[x])
  BY InvById
<1>2. SchedulerMaps'
  BY <1>1 DEF SchedulerMaps
<1>3. /\ \A x \in Ids : sched'[x] = IF x = id THEN def ELSE sched[x]
      /\ \A x \in Ids : rows'[x] = IF x = id THEN history ELSE rows[x]
      /\ \A x \in Ids : run'[x] = IF x = id THEN r ELSE run[x]
  BY <1>1 DEF SchedulerMaps
<1>4. \A x \in Ids : IdOK(sched'[x], rows'[x], run'[x])
  BY <1>1, <1>3
<1> QED
  BY <1>2, <1>4, InvFromIds

\* Leaving an id's part as it is.
LEMMA SameId ==
    ASSUME SchedulerInv, NEW id \in Ids
    PROVE  /\ sched = [sched EXCEPT ![id] = sched[id]] /\ rows = [rows EXCEPT ![id] = rows[id]]
           /\ run = [run EXCEPT ![id] = run[id]]
BY DEF SchedulerInv, SchedulerMaps

\* The next time of a cadence, and what is planned after a run.
LEMMA NextRunType ==
    ASSUME SchedulerInv, NEW cadence \in Cadences
    PROVE  NextRun(cadence) \in Times \cup {None}
<1>1. now \in 0..MaxTime /\ MaxTime \in Nat /\ Period \in Nat
  BY LimitsType DEF SchedulerInv, TypeOK
<1>2. CASE cadence = Interval
  BY <1>1, <1>2 DEF NextRun, Interval, Times
<1>3. ASSUME NEW t \in OnceTimes, cadence = Once(t) PROVE NextRun(cadence) \in Times \cup {None}
  <2>1. cadence.kind = "once" /\ cadence.at = t /\ t \in 1..MaxTime
    BY <1>3, LimitsType DEF Once
  <2> QED
    BY <2>1, <1>1 DEF NextRun, Times
<1> QED
  BY <1>2, <1>3 DEF Cadences

LEMMA PlanType ==
    ASSUME SchedulerInv, NEW copy, copy.cadence \in Cadences, copy.failures \in Nat, NEW outcome \in Outcomes
    PROVE  /\ Plan(copy, outcome).next \in Times \cup {None}
           /\ Plan(copy, outcome).status \in {None, "completed", "disabled"}
           /\ Plan(copy, outcome).status = "disabled" =>
                outcome # "success" /\ copy.failures + 1 >= DisableAfter
<1>1. NextRun(copy.cadence) \in Times \cup {None}
  BY NextRunType
<1>2. DisableAfter \in Nat /\ DisableAfter > 0 /\ None # "disabled"
  BY LimitsType, MarkersAssumption DEF Statuses
<1> QED
  BY <1>1, <1>2 DEF Plan


LEMMA TickKeeps ==
    ASSUME SchedulerInv, Tick
    PROVE  SchedulerInv'
<1>1. GlobalsOK /\ SchedulerMaps /\ \A id \in Ids : IdOK(sched[id], rows[id], run[id])
  BY InvById
<1>2. PICK batch \in SUBSET Due :
         run' = [id \in Ids |-> IF id \in batch
                      THEN [phase |-> "turn", cadence |-> sched[id].cadence, failures |-> sched[id].failures]
                      ELSE None]
  BY DEF Tick
<1>3. UNCHANGED <<now, sched, rows, editor, executor, faults>>
  BY DEF Tick
<1>4. GlobalsOK' /\ SchedulerMaps'
  BY <1>1, <1>2, <1>3 DEF GlobalsOK, SchedulerMaps
<1>5. ASSUME NEW id \in Ids PROVE IdOK(sched'[id], rows'[id], run'[id])
  <2>1. CASE id \notin batch
    <3>1. run'[id] = None /\ sched'[id] = sched[id] /\ rows'[id] = rows[id]
      BY <2>1, <1>2, <1>3
    <3> QED
      BY <3>1, <1>1 DEF IdOK
  <2>2. CASE id \in batch
    <3> DEFINE r == [phase |-> "turn", cadence |-> sched[id].cadence, failures |-> sched[id].failures]
    <3>1. run'[id] = r /\ sched'[id] = sched[id] /\ rows'[id] = rows[id]
      BY <2>2, <1>2, <1>3
    <3>2. sched[id] \notin {None, Gone} /\ sched[id].status = "active"
      BY <2>2 DEF Due, Known
    <3>3. sched[id] \in Schedules
      BY <3>2, <1>1 DEF IdOK
    <3>4. r \in Runs
      BY <3>3 DEF Runs, Schedules
    <3>5. RunOK(sched[id], r)
      BY <3>2 DEF RunOK
    <3> HIDE DEF r
    <3> QED
      BY <3>1, <3>2, <3>4, <3>5, <1>1 DEF IdOK
  <2> QED
    BY <2>1, <2>2
<1> QED
  BY <1>4, <1>5, InvFromIds

LEMMA EndTurnKeeps ==
    ASSUME SchedulerInv, NEW id \in Ids, NEW outcome \in Outcomes, EndTurn(id, outcome)
    PROVE  SchedulerInv'
<1> DEFINE plan == Plan(run[id], outcome)
           r == [phase |-> "record", outcome |-> outcome, next |-> plan.next, status |-> plan.status]
<1>1. /\ run[id] # None /\ run[id].phase = "turn" /\ run' = [run EXCEPT ![id] = r]
      /\ UNCHANGED <<now, sched, rows, editor, executor, faults>>
  BY DEF EndTurn
<1>2. IdOK(sched[id], rows[id], run[id]) /\ GlobalsOK
  BY InvById
<1>3. run[id] \in Runs
  BY <1>1, <1>2 DEF IdOK
<1>4. run[id].cadence \in Cadences /\ run[id].failures \in Nat
  BY <1>1, <1>3 DEF Runs
<1>5. /\ plan.next \in Times \cup {None} /\ plan.status \in {None, "completed", "disabled"}
      /\ plan.status = "disabled" => outcome # "success" /\ run[id].failures + 1 >= DisableAfter
  BY <1>4, PlanType
<1> HIDE DEF plan
<1>6. r \in Runs /\ r.phase = "record" /\ r.outcome = outcome /\ r.status = plan.status
  BY <1>5 DEF Runs, Statuses
<1>7. ASSUME sched[id] \notin {None, Gone} PROVE RunOK(sched[id], r)
  <2>1. RunOK(sched[id], run[id])
    BY <1>1, <1>2, <1>7 DEF IdOK
  <2>2. outcome \in {"success", "failed", "cancelled"}
    BY DEF Outcomes
  <2> HIDE DEF r
  <2> QED
    BY <2>1, <2>2, <1>1, <1>5, <1>6 DEF RunOK
<1> HIDE DEF r
<1>8. IdOK(sched[id], rows[id], r)
  BY <1>1, <1>2, <1>6, <1>7 DEF IdOK
<1>9. GlobalsOK'
  BY <1>1, <1>2 DEF GlobalsOK
<1> QED
  BY <1>1, <1>8, <1>9, SameId, IdMoves

\* The row that is recorded.
LEMMA RecordedRow ==
    ASSUME NEW def \in Schedules, NEW r \in Runs, r.phase = "record"
    PROVE  /\ Recorded(def, r) \in Schedules
           /\ Recorded(def, r).failures = IF r.outcome = "failed" THEN def.failures + 1 ELSE 0
           /\ Recorded(def, r).status = IF r.status = None THEN def.status ELSE r.status
<1>1. /\ def.cadence \in Cadences /\ def.status \in Statuses /\ def.next \in Times \cup {None}
      /\ def.failures \in Nat
  BY DEF Schedules
<1>2. r.next \in Times \cup {None} /\ r.status \in Statuses \cup {None} /\ r.outcome \in Outcomes
  BY DEF Runs, Statuses
<1> DEFINE f == IF r.outcome = "failed" THEN def.failures + 1 ELSE 0
           st == IF r.status = None THEN def.status ELSE r.status
<1>3. Recorded(def, r) = [cadence |-> def.cadence, status |-> st, next |-> r.next, failures |-> f]
  <2>1. Recorded(def, r) = [def EXCEPT !.failures = f, !.next = r.next, !.status = st]
    BY DEF Recorded
  <2> HIDE DEF f, st
  <2> QED
    BY <2>1 DEF Schedules
<1>4. f \in Nat /\ st \in Statuses
  BY <1>1, <1>2
<1> HIDE DEF f, st
<1>5. Recorded(def, r) \in Schedules /\ Recorded(def, r).failures = f /\ Recorded(def, r).status = st
  BY <1>1, <1>2, <1>3, <1>4 DEF Schedules
<1> QED
  BY <1>5 DEF f, st

LEMMA RecordKeeps ==
    ASSUME SchedulerInv, NEW id \in Ids, Record(id)
    PROVE  SchedulerInv'
<1> DEFINE r == [phase |-> "prune"]
<1>1. /\ run[id] # None /\ run[id].phase = "record" /\ run' = [run EXCEPT ![id] = r]
      /\ UNCHANGED <<now, editor, executor>>
  BY DEF Record
<1>2. IdOK(sched[id], rows[id], run[id]) /\ GlobalsOK
  BY InvById
<1>3. r \in Runs /\ r.phase = "prune"
  BY DEF Runs
<1> HIDE DEF r
<1>4. \A def : RunOK(def, r)
  BY <1>3 DEF RunOK
<1>5. GlobalsOK'
  BY <1>1, <1>2, LimitsType DEF GlobalsOK, Record
<1>6. CASE UNCHANGED <<rows, sched>>
  <2>1. IdOK(sched[id], rows[id], r)
    BY <1>1, <1>2, <1>3, <1>4 DEF IdOK
  <2> QED
    BY <2>1, <1>1, <1>5, <1>6, SameId, IdMoves
<1>7. CASE /\ id \in Known
           /\ rows' = [rows EXCEPT ![id] = Append(@, run[id].outcome)]
           /\ sched' = [sched EXCEPT ![id] = Recorded(@, run[id])]
  <2> DEFINE def == Recorded(sched[id], run[id])
             o == run[id].outcome
             history == Append(rows[id], o)
  <2>1. sched[id] \in Schedules /\ sched[id] \notin {None, Gone} /\ run[id] \in Runs
    BY <1>1, <1>2, <1>7 DEF Known, IdOK
  <2>2. o \in Outcomes /\ rows[id] \in Seq(Outcomes) /\ sched[id].failures \in Nat
    BY <1>1, <1>2, <2>1 DEF Runs, IdOK, Schedules
  <2>3. /\ def \in Schedules /\ def.failures = (IF o = "failed" THEN sched[id].failures + 1 ELSE 0)
        /\ def.status = IF run[id].status = None THEN sched[id].status ELSE run[id].status
    BY <2>1, <1>1, RecordedRow
  <2>4. Counted(rows[id], sched[id].failures) /\ RunOK(sched[id], run[id])
    BY <1>1, <1>2, <2>1 DEF IdOK
  <2> HIDE DEF def, o
  <2>5. Counted(history, def.failures)
    BY <2>2, <2>3, <2>4, CountedAppend
  <2>6. history # <<>> /\ history[Len(history)] = o /\ history \in Seq(Outcomes)
    BY <2>2
  <2>7. CauseOK(def, history)
    BY <2>3, <2>4, <2>6, <1>1 DEF CauseOK, RunOK, o
  <2> HIDE DEF history
  <2>8. def \notin {None, Gone}
    BY <2>3, MarkersAssumption
  <2>9. IdOK(def, history, r)
    BY <2>3, <2>5, <2>6, <2>7, <2>8, <1>3, <1>4 DEF IdOK
  <2>10. rows' = [rows EXCEPT ![id] = history] /\ sched' = [sched EXCEPT ![id] = def]
    BY <1>7 DEF history, def, o
  <2> QED
    BY <2>9, <2>10, <1>1, <1>5, IdMoves
<1> QED
  BY <1>6, <1>7 DEF Record

LEMMA PruneKeeps ==
    ASSUME SchedulerInv, NEW id \in Ids, Prune(id)
    PROVE  SchedulerInv'
<1>1. run[id] # None /\ run' = [run EXCEPT ![id] = None] /\ UNCHANGED <<now, sched, editor, executor>>
  BY DEF Prune
<1>2. IdOK(sched[id], rows[id], run[id]) /\ GlobalsOK
  BY InvById
<1>3. GlobalsOK'
  BY <1>1, <1>2, LimitsType DEF GlobalsOK, Prune
<1>4. CASE UNCHANGED rows
  <2>1. IdOK(sched[id], rows[id], None)
    BY <1>2 DEF IdOK
  <2> QED
    BY <2>1, <1>1, <1>3, <1>4, SameId, IdMoves
<1>5. CASE rows' = [rows EXCEPT ![id] = Newest(@, MaxHistory)]
  <2> DEFINE s == rows[id]
             t == Newest(s, MaxHistory)
  <2>1. s \in Seq(Outcomes) /\ MaxHistory \in Nat \ {0} /\ sched[id] # None
    BY <1>1, <1>2, LimitsType DEF IdOK
  <2>2. /\ t \in Seq(Outcomes) /\ Len(t) = (IF Len(s) > MaxHistory THEN MaxHistory ELSE Len(s))
        /\ \A i \in 1..Len(t) : t[i] = s[Len(s) - Len(t) + i]
    BY <2>1, NewestRuns
  <2> HIDE DEF s
  <2>3. s # <<>> => t # <<>> /\ t[Len(t)] = s[Len(s)]
    <3>1. ASSUME s # <<>> PROVE Len(s) \in Nat \ {0}
      BY <2>1, <3>1
    <3>2. ASSUME s # <<>> PROVE Len(t) \in 1..Len(t) /\ Len(s) - Len(t) + Len(t) = Len(s)
      BY <2>1, <2>2, <3>1, <3>2
    <3> HIDE DEF t
    <3> QED
      BY <2>2, <3>2
  <2>4. ASSUME sched[id] \notin {None, Gone}
        PROVE  Counted(t, sched[id].failures) /\ CauseOK(sched[id], t)
    <3>1. Counted(s, sched[id].failures) /\ CauseOK(sched[id], s) /\ sched[id] \in Schedules
      BY <1>2, <2>4 DEF IdOK, s
    <3>2. sched[id].failures \in Nat
      BY <3>1 DEF Schedules
    <3>3. Counted(t, sched[id].failures)
      BY <2>1, <3>1, <3>2, CountedNewest
    <3> HIDE DEF t
    <3> QED
      BY <2>3, <3>1, <3>3 DEF CauseOK
  <2>5. rows' = [rows EXCEPT ![id] = t]
    BY <1>5 DEF s
  <2> HIDE DEF t
  <2>6. IdOK(sched[id], t, None)
    BY <1>2, <2>1, <2>2, <2>4 DEF IdOK
  <2> QED
    BY <2>5, <2>6, <1>1, <1>3, SameId, IdMoves
<1> QED
  BY <1>4, <1>5 DEF Prune


\* An edit leaves the counter, and never disables.
LEMMA PatchedRow ==
    ASSUME NEW def \in Schedules, NEW status \in {None, "active", "paused"},
           NEW cadence \in Cadences \cup {None}, NEW next \in Times \cup {None}
    PROVE  /\ Patched(def, status, cadence, next) \in Schedules
           /\ Patched(def, status, cadence, next).failures = def.failures
           /\ Patched(def, status, cadence, next).status \in {def.status, "active", "paused"}
<1>1. /\ def.cadence \in Cadences /\ def.status \in Statuses /\ def.failures \in Nat
  BY DEF Schedules
<1> DEFINE ca == IF cadence = None THEN def.cadence ELSE cadence
           st == IF status = None THEN def.status ELSE status
<1>2. ca \in Cadences /\ st \in Statuses /\ st \in {def.status, "active", "paused"}
  BY <1>1 DEF Statuses
<1>3. Patched(def, status, cadence, next)
        = [cadence |-> ca, status |-> st, next |-> next, failures |-> def.failures]
  <2>1. Patched(def, status, cadence, next) = [def EXCEPT !.cadence = ca, !.status = st, !.next = next]
    BY DEF Patched
  <2> HIDE DEF ca, st
  <2> QED
    BY <2>1 DEF Schedules
<1> HIDE DEF ca, st
<1> QED
  BY <1>1, <1>2, <1>3 DEF Schedules

LEMMA ToolKeeps ==
    ASSUME SchedulerInv, NEW e \in Editors, Tool(e)
    PROVE  SchedulerInv'
<1>0. GlobalsOK /\ SchedulerMaps /\ \A id \in Ids : IdOK(sched[id], rows[id], run[id])
  BY InvById
<1>1. CASE StartCreate(e)
  <2>1. editor' = [editor EXCEPT ![e] = [op |-> "create"]] /\ UNCHANGED <<now, sched, rows, run, executor, faults>>
    BY <1>1 DEF StartCreate
  <2>2. GlobalsOK' /\ SchedulerMaps'
    BY <1>0, <2>1 DEF GlobalsOK, SchedulerMaps, Calls
  <2> QED
    BY <1>0, <2>1, <2>2, InvFromIds
<1>2. ASSUME NEW id \in Ids, NEW cadence \in Cadences, Create(e, id, cadence) PROVE SchedulerInv'
  <2> DEFINE def == NewSchedule(cadence)
  <2>1. /\ sched[id] = None /\ sched' = [sched EXCEPT ![id] = def]
        /\ editor' = [editor EXCEPT ![e] = Idle] /\ UNCHANGED <<now, rows, run, executor, faults>>
    BY <1>2 DEF Create
  <2>2. GlobalsOK'
    BY <1>0, <2>1 DEF GlobalsOK, Calls
  <2>3. rows[id] = <<>> /\ run[id] = None /\ <<>> \in Seq(Outcomes)
    BY <1>0, <2>1 DEF IdOK
  <2>4. def \in Schedules /\ def.failures = 0 /\ def.status = "active"
    BY NextRunType DEF NewSchedule, Schedules, Statuses
  <2> HIDE DEF def
  <2>5. Counted(<<>>, 0)
    <3>1. TrailingIs(<<>>, 0) /\ 0 \in 0..Len(<<>>) /\ 0 < MaxHistory
      BY LimitsType DEF TrailingIs
    <3> QED
      BY <3>1 DEF Counted
  <2>6. IdOK(def, rows[id], run[id])
    BY <2>3, <2>4, <2>5, MarkersAssumption DEF IdOK, CauseOK
  <2> QED
    BY <2>1, <2>2, <2>6, SameId, IdMoves
<1>3. ASSUME NEW id \in Ids, ReadForEdit(e, id) PROVE SchedulerInv'
  <2> DEFINE k == [op |-> "edit", id |-> id, cadence |-> sched[id].cadence, status |-> sched[id].status]
  <2>1. /\ id \in Known /\ editor' = [editor EXCEPT ![e] = k]
        /\ UNCHANGED <<now, sched, rows, run, executor, faults>>
    BY <1>3 DEF ReadForEdit
  <2>2. sched[id] \in Schedules
    BY <1>0, <2>1 DEF Known, IdOK
  <2>3. k \in Calls
    BY <2>2 DEF Calls, Schedules
  <2> HIDE DEF k
  <2>4. GlobalsOK' /\ SchedulerMaps'
    BY <1>0, <2>1, <2>3 DEF GlobalsOK, SchedulerMaps
  <2> QED
    BY <1>0, <2>1, <2>4, InvFromIds
<1>4. ASSUME NEW id \in Ids, Delete(e, id) PROVE SchedulerInv'
  <2>1. /\ sched' = [sched EXCEPT ![id] = Gone] /\ rows' = [rows EXCEPT ![id] = <<>>]
        /\ UNCHANGED <<now, run, editor, executor, faults>>
    BY <1>4 DEF Delete
  <2>2. GlobalsOK'
    BY <1>0, <2>1 DEF GlobalsOK
  <2>3. IdOK(Gone, <<>>, run[id])
    <3>1. run[id] \in Runs \cup {None} /\ <<>> \in Seq(Outcomes)
      BY <1>0 DEF IdOK
    <3> QED
      BY <3>1, MarkersAssumption DEF IdOK
  <2> QED
    BY <2>1, <2>2, <2>3, SameId, IdMoves
<1>5. ASSUME NEW status \in {None, "active", "paused"}, NEW cadence \in Cadences \cup {None},
             Edit(e, status, cadence)
      PROVE  SchedulerInv'
  <2> DEFINE id == editor[e].id
             from == IF cadence = None THEN editor[e].cadence ELSE cadence
             effective == IF status = None THEN editor[e].status ELSE status
             next == IF effective = "paused" THEN None
                     ELSE IF effective = "active" /\ (status # None \/ cadence # None)
                     THEN NextRun(from)
                     ELSE sched[id].next
  <2>1. /\ editor[e].op = "edit" /\ editor' = [editor EXCEPT ![e] = Idle]
        /\ UNCHANGED <<now, rows, run, executor, faults>>
        /\ IF id \in Known THEN sched' = [sched EXCEPT ![id] = Patched(@, status, cadence, next)]
                           ELSE UNCHANGED sched
    BY <1>5 DEF Edit
  <2>2. GlobalsOK'
    BY <1>0, <2>1 DEF GlobalsOK, Calls
  <2>3. CASE id \notin Known
    <3>1. SchedulerMaps' /\ sched' = sched /\ rows' = rows /\ run' = run
      BY <1>0, <2>1, <2>3 DEF SchedulerMaps
    <3> QED
      BY <1>0, <2>2, <3>1, InvFromIds
  <2>4. CASE id \in Known
    <3>1. editor[e] \in Calls /\ editor[e].op = "edit"
      BY <1>0, <2>1 DEF GlobalsOK
    <3>2. editor[e] \in [op : {"edit"}, id : Ids, cadence : Cadences, status : Statuses]
      BY <3>1 DEF Calls, Idle
    <3>3. id \in Ids /\ from \in Cadences
      BY <3>2
    <3>4. sched[id] \in Schedules /\ sched[id] \notin {None, Gone}
      BY <1>0, <2>4, <3>3 DEF Known, IdOK
    <3>5. sched[id].next \in Times \cup {None} /\ NextRun(from) \in Times \cup {None}
      BY <3>3, <3>4, NextRunType DEF Schedules
    <3>6. next \in Times \cup {None}
      BY <3>5
    <3> DEFINE def == Patched(sched[id], status, cadence, next)
    <3> HIDE DEF id, next
    <3>7. /\ def \in Schedules /\ def.failures = sched[id].failures
          /\ def.status \in {sched[id].status, "active", "paused"}
      BY <3>4, <3>6, PatchedRow
    <3>8. sched' = [sched EXCEPT ![id] = def]
      BY <2>1, <2>4
    <3> HIDE DEF def
    <3>9. IdOK(sched[id], rows[id], run[id])
      BY <1>0, <3>3
    <3>10. IdOK(def, rows[id], run[id])
      <4>1. RunOK(sched[id], run[id]) => RunOK(def, run[id])
        BY <3>7 DEF RunOK
      <4>2. CauseOK(sched[id], rows[id]) => CauseOK(def, rows[id])
        BY <3>7 DEF CauseOK
      <4> QED
        BY <3>4, <3>7, <3>9, <4>1, <4>2, MarkersAssumption DEF IdOK
    <3> QED
      BY <2>1, <2>2, <3>3, <3>8, <3>10, SameId, IdMoves
  <2> QED
    BY <2>3, <2>4
<1> QED
  BY <1>1, <1>2, <1>3, <1>4, <1>5 DEF Tool

LEMMA TurnPanicsKeeps ==
    ASSUME SchedulerInv, NEW id \in Ids, TurnPanics(id)
    PROVE  SchedulerInv'
<1>0. GlobalsOK /\ SchedulerMaps /\ \A i \in Ids : IdOK(sched[i], rows[i], run[i])
  BY InvById
<1>1. /\ run' = [i \in Ids |-> None] /\ executor' = "died" /\ faults < MaxFaults /\ faults' = faults + 1
      /\ UNCHANGED <<now, sched, rows, editor>>
  BY DEF TurnPanics
<1>2. GlobalsOK' /\ SchedulerMaps'
  BY <1>0, <1>1, LimitsType DEF GlobalsOK, SchedulerMaps
<1>3. \A i \in Ids : IdOK(sched'[i], rows'[i], run'[i])
  BY <1>0, <1>1 DEF IdOK
<1> QED
  BY <1>2, <1>3, InvFromIds

LEMMA SchedulerStep == SchedulerInv /\ [Next]_vars => SchedulerInv'
<1> SUFFICES ASSUME SchedulerInv, [Next]_vars PROVE SchedulerInv'
  OBVIOUS
<1>0. GlobalsOK /\ SchedulerMaps /\ \A id \in Ids : IdOK(sched[id], rows[id], run[id])
  BY InvById
<1>1. CASE UNCHANGED vars
  <2>1. GlobalsOK' /\ SchedulerMaps' /\ \A id \in Ids : IdOK(sched'[id], rows'[id], run'[id])
    BY <1>0, <1>1 DEF vars, GlobalsOK, SchedulerMaps
  <2> QED
    BY <2>1, InvFromIds
<1>2. CASE Shutdown \/ StopLoop \/ Advance
  <2>1. GlobalsOK'
    BY <1>0, <1>2, LimitsType DEF GlobalsOK, Shutdown, StopLoop, Advance
  <2>2. UNCHANGED <<sched, rows, run>>
    BY <1>2 DEF Shutdown, StopLoop, Advance
  <2>3. SchedulerMaps' /\ \A id \in Ids : IdOK(sched'[id], rows'[id], run'[id])
    BY <1>0, <2>2 DEF SchedulerMaps
  <2> QED
    BY <2>1, <2>3, InvFromIds
<1>3. CASE Restart
  <2>1. /\ run' = [id \in Ids |-> None] /\ editor' = [x \in Editors |-> Idle] /\ executor' = "up"
        /\ faults < MaxFaults /\ faults' = faults + 1 /\ UNCHANGED <<now, sched, rows>>
    BY <1>3 DEF Restart
  <2>2. GlobalsOK' /\ SchedulerMaps'
    BY <1>0, <2>1, LimitsType DEF GlobalsOK, SchedulerMaps, Calls
  <2>3. \A id \in Ids : IdOK(sched'[id], rows'[id], run'[id])
    BY <1>0, <2>1 DEF IdOK
  <2> QED
    BY <2>2, <2>3, InvFromIds
<1>4. CASE Tick
  BY <1>4, TickKeeps
<1>5. ASSUME NEW id \in Ids, RunStep(id) PROVE SchedulerInv'
  BY <1>5, EndTurnKeeps, TurnPanicsKeeps, RecordKeeps, PruneKeeps DEF RunStep
<1>6. ASSUME NEW e \in Editors, Tool(e) PROVE SchedulerInv'
  BY <1>6, ToolKeeps
<1> QED
  BY <1>1, <1>2, <1>3, <1>4, <1>5, <1>6 DEF Next

LEMMA SchedulerInitInv == Init => SchedulerInv
<1> SUFFICES ASSUME Init PROVE SchedulerInv
  OBVIOUS
<1>1. \A id \in Ids : sched[id] = None /\ rows[id] = <<>> /\ run[id] = None
  BY DEF Init
<1>2. SchedulerMaps
  BY DEF Init, SchedulerMaps
<1>3. TypeOK
  BY <1>1, LimitsType DEF Init, TypeOK, Calls
<1>4. Known = {}
  BY <1>1 DEF Known
<1> QED
  BY <1>1, <1>2, <1>3, <1>4 DEF SchedulerInv, FreshIds, CopiesCurrent, DisabledForCause

LEMMA SchedulerInvExact == SchedulerInv => SchedulesExact
<1> SUFFICES ASSUME SchedulerInv PROVE SchedulesExact
  OBVIOUS
<1>1. ASSUME NEW id \in Known
      PROVE  LET k == Trailing(rows[id])
             IN  IF k < MaxHistory THEN sched[id].failures = k ELSE sched[id].failures >= k
  <2>1. Counted(rows[id], sched[id].failures) /\ rows[id] \in Seq(Outcomes)
    BY DEF SchedulerInv, TypeOK, Known
  <2>2. PICK k \in 0..Len(rows[id]) : /\ TrailingIs(rows[id], k)
                                      /\ IF k < MaxHistory THEN sched[id].failures = k ELSE sched[id].failures >= k
    BY <2>1 DEF Counted
  <2>3. Trailing(rows[id]) = k
    BY <2>1, <2>2, TrailingCounted
  <2> QED
    BY <2>2, <2>3
<1>2. CounterMatchesHistory
  BY <1>1 DEF CounterMatchesHistory
<1> QED
  BY <1>2 DEF SchedulerInv, SchedulesExact

\* For any schedules, editors and limits: the counter of failures is the one
\* the history shows as far as it was kept, and a schedule is disabled for its
\* last run, whatever is edited, deleted, pruned, lost or cut off by a crash
\* meanwhile (record_run_and_reschedule, compute_reschedule).
THEOREM SchedulesStayExact == Spec => []SchedulesExact
BY SchedulerInitInv, SchedulerStep, SchedulerInvExact, PTL DEF Spec


LEMMA OnlyEditsResumeStep == SchedulerInv /\ [Next]_vars => [OnlyEditsResume]_vars
<1> SUFFICES ASSUME SchedulerInv, Next PROVE OnlyEditsResume
  BY DEF vars
<1>0. GlobalsOK /\ SchedulerMaps /\ \A id \in Ids : IdOK(sched[id], rows[id], run[id])
  BY InvById
<1>1. CASE UNCHANGED sched
  BY <1>1 DEF OnlyEditsResume
<1>2. ASSUME NEW id \in Ids, Record(id) PROVE OnlyEditsResume
  <2>1. CASE id \in Known /\ sched' = [sched EXCEPT ![id] = Recorded(@, run[id])]
    <3>1. sched[id] \in Schedules /\ run[id] \in Runs /\ run[id].phase = "record"
      BY <1>0, <1>2, <2>1 DEF Record, Known, IdOK
    <3>2. run[id].status \in {"completed", "disabled", None}
      BY <3>1 DEF Runs
    <3>3. Recorded(sched[id], run[id]).status = IF run[id].status = None THEN sched[id].status ELSE run[id].status
      BY <3>1, RecordedRow
    <3>4. \A x \in Ids : sched'[x] = IF x = id THEN Recorded(sched[id], run[id]) ELSE sched[x]
      BY <1>0, <2>1 DEF SchedulerMaps
    <3> QED
      BY <3>2, <3>3, <3>4 DEF OnlyEditsResume, Known
  <2> QED
    BY <1>1, <1>2, <2>1 DEF Record
<1>3. ASSUME NEW e \in Editors, Tool(e) PROVE OnlyEditsResume
  <2>1. ASSUME NEW id \in Ids, NEW cadence \in Cadences, Create(e, id, cadence) PROVE OnlyEditsResume
    <3>1. sched[id] = None /\ sched' = [sched EXCEPT ![id] = NewSchedule(cadence)]
      BY <2>1 DEF Create
    <3>2. \A x \in Known : sched'[x] = sched[x]
      BY <1>0, <3>1 DEF SchedulerMaps, Known
    <3> QED
      BY <3>2 DEF OnlyEditsResume
  <2>2. ASSUME NEW id \in Ids, Delete(e, id) PROVE OnlyEditsResume
    <3>1. \A x \in Ids : sched'[x] = IF x = id THEN Gone ELSE sched[x]
      BY <1>0, <2>2 DEF SchedulerMaps, Delete
    <3> QED
      BY <3>1 DEF OnlyEditsResume, Known
  <2>3. ASSUME NEW status \in {None, "active", "paused"}, NEW cadence \in Cadences \cup {None},
               Edit(e, status, cadence)
        PROVE  OnlyEditsResume
    <3>1. editor[e].op = "edit" /\ editor' = [editor EXCEPT ![e] = Idle] /\ Idle.op = "idle"
      BY <2>3 DEF Edit, Idle
    <3>2. editor'[e] = Idle
      BY <1>0, <3>1 DEF GlobalsOK
    <3> QED
      BY <3>1, <3>2 DEF OnlyEditsResume
  <2>4. ASSUME NEW id \in Ids, ReadForEdit(e, id) PROVE OnlyEditsResume
    BY <1>1, <2>4 DEF ReadForEdit
  <2>5. CASE StartCreate(e)
    BY <1>1, <2>5 DEF StartCreate
  <2> QED
    BY <1>3, <2>1, <2>2, <2>3, <2>4, <2>5 DEF Tool
<1>4. ASSUME NEW id \in Ids, RunStep(id) PROVE OnlyEditsResume
  BY <1>1, <1>2, <1>4 DEF RunStep, EndTurn, TurnPanics, Prune
<1>5. CASE Tick \/ Shutdown \/ StopLoop \/ Restart \/ Advance
  BY <1>1, <1>5 DEF Tick, Shutdown, StopLoop, Restart, Advance
<1> QED
  BY <1>3, <1>4, <1>5 DEF Next

\* A schedule that was paused, disabled or completed is set going again by
\* schedule_edit alone, never by the run that was under way.
THEOREM ExecutorResumesNothing == Spec => ExecutorNeverResumes
BY SchedulerInitInv, SchedulerStep, OnlyEditsResumeStep, PTL DEF Spec, ExecutorNeverResumes
=============================================================================
