------------------------------- MODULE Browser --------------------------------
(***************************************************************************)
(* The browser tool (crates/tools/src/browser.rs).  A call becomes one     *)
(* shell script that finds or opens a tab of the browser bridge, locks it  *)
(* in the name of its session, acts and unlocks on exit.  A call that was  *)
(* given up leaves its script running, so scripts overlap; a script killed *)
(* at the command timeout leaves its lock to expire.                       *)
(*                                                                         *)
(* The bridge is external: a lock is granted to the owner of a tab, or to  *)
(* anyone when it has none.                                                *)
(***************************************************************************)
EXTENDS Naturals, Sequences, FiniteSets

CONSTANTS
    Scripts,    \* calls of the tool
    MaxTabs     \* MAX_TABS

VARIABLES
    tabs,       \* tab -> the owner of its lock, or "free"
    script,     \* where each script is
    tabbed      \* per script: the $TABS_JSON it read, its $TAB, its $OWNER

browserVars == <<tabs, script, tabbed>>

NoTab == 0
Owners == {"s1", "s2"}

BrowserInit ==
    /\ tabs \in {<<>>, <<"free">>}
    /\ script = [s \in Scripts |-> "new"]
    /\ tabbed \in [Scripts -> [listed : {<<>>}, tab : {NoTab}, owner : Owners]]

At(s, step) == script' = [script EXCEPT ![s] = step]

\* The bridge's answer to /tab/lock and /tab/unlock.
LockGranted(s) == tabs[tabbed[s].tab] \in {"free", tabbed[s].owner}
LockTab(s) == IF LockGranted(s) THEN [tabs EXCEPT ![tabbed[s].tab] = tabbed[s].owner] ELSE tabs

\* A tab the caller names is locked, whatever comes of it.
RequestTab(s) ==
    /\ script[s] = "new"
    /\ \E t \in DOMAIN tabs : tabbed' = [tabbed EXCEPT ![s].tab = t]
    /\ At(s, "relock")
    /\ UNCHANGED tabs

ListTabs(s) ==
    /\ script[s] = "new"
    /\ tabbed' = [tabbed EXCEPT ![s].listed = tabs]
    /\ At(s, "pick")
    /\ UNCHANGED tabs

Unlocked(list) == {t \in DOMAIN list : list[t] = "free"}

\* The first tab listed without an owner.
PickTab(s) ==
    LET free == Unlocked(tabbed[s].listed)
    IN /\ script[s] = "pick" /\ free # {}
       /\ \E t \in free : /\ \A u \in free : t <= u
                          /\ tabbed' = [tabbed EXCEPT ![s].tab = t]
       /\ At(s, "lock")
       /\ UNCHANGED tabs

\* The list that was read at the start is counted.
MayOpen(s) == Len(tabbed[s].listed) < MaxTabs

\* A new tab, free until the script locks it.
OpenTab(s) ==
    /\ \/ script[s] = "pick" /\ Unlocked(tabbed[s].listed) = {} /\ At(s, "lock")
       \/ script[s] = "reopen" /\ At(s, "relock")
    /\ MayOpen(s)
    /\ tabs' = Append(tabs, "free")
    /\ tabbed' = [tabbed EXCEPT ![s].tab = Len(tabs) + 1]

\* No tab to be had: an error before any lock, or on with the tab of another.
NoTabLeft(s) ==
    /\ \/ script[s] = "pick" /\ Unlocked(tabbed[s].listed) = {} /\ At(s, "done")
       \/ script[s] = "reopen" /\ At(s, "act")
    /\ ~MayOpen(s)
    /\ UNCHANGED <<tabs, tabbed>>

Lock(s) ==
    /\ script[s] = "lock"
    /\ tabs' = LockTab(s)
    /\ At(s, IF LockGranted(s) THEN "act" ELSE "reopen")
    /\ UNCHANGED tabbed

\* `|| true`: the script goes on without the lock.
LockAgain(s) ==
    /\ script[s] = "relock"
    /\ tabs' = LockTab(s)
    /\ At(s, "act")
    /\ UNCHANGED tabbed

\* Navigate, snapshot, text and screenshot; act renews the lock first.
ActOnTab(s) ==
    /\ script[s] = "act"
    /\ tabs' \in {tabs, LockTab(s)}
    /\ At(s, "exit")
    /\ UNCHANGED tabbed

\* Mutant: unlock on success only.
UnlockOnExitOnly(s) ==
    /\ script[s] \in {"act", "exit"}
    /\ tabs' = IF script[s] = "exit" /\ tabs[tabbed[s].tab] = tabbed[s].owner
               THEN [tabs EXCEPT ![tabbed[s].tab] = "free"] ELSE tabs
    /\ At(s, "done")
    /\ UNCHANGED tabbed

\* trap unlock EXIT: at the end, and when a request of the action fails.
UnlockOnExit(s) ==
    /\ script[s] \in {"act", "exit"}
    /\ tabs' = IF tabs[tabbed[s].tab] = tabbed[s].owner
               THEN [tabs EXCEPT ![tabbed[s].tab] = "free"] ELSE tabs
    /\ At(s, "done")
    /\ UNCHANGED tabbed

\* The daemon kills the script of a command that takes too long.
KillScript(s) ==
    /\ script[s] \notin {"new", "done", "killed"}
    /\ At(s, "killed")
    /\ UNCHANGED <<tabs, tabbed>>

\* The bridge lets a lock expire (LOCK_TIMEOUT_SECS).
LockExpires ==
    /\ \E t \in DOMAIN tabs :
         /\ tabs[t] # "free"
         /\ \A s \in Scripts : tabbed[s].tab = t => script[s] \in {"done", "killed"}
         /\ tabs' = [tabs EXCEPT ![t] = "free"]
    /\ UNCHANGED <<script, tabbed>>

BrowserNext ==
    \/ \E s \in Scripts : \/ RequestTab(s) \/ ListTabs(s) \/ PickTab(s) \/ OpenTab(s) \/ NoTabLeft(s)
                          \/ Lock(s) \/ LockAgain(s) \/ ActOnTab(s) \/ UnlockOnExit(s) \/ KillScript(s)
    \/ LockExpires

BrowserSpec == BrowserInit /\ [][BrowserNext]_browserVars

-----------------------------------------------------------------------------
\* However scripts overlap, once all have ended without being killed no tab
\* stays locked: each frees the tab it ended with, and what it locked before
\* was none of its own.
LocksReleased ==
    (\A s \in Scripts : script[s] \in {"new", "done"}) => \A t \in DOMAIN tabs : tabs[t] = "free"

\* The inductive invariant behind it: a script that is about to lock, acts or
\* exits has a tab that exists, because tabs are never closed ...
Locks == {"free"} \cup Owners
BrowserTypeOK ==
    /\ tabs \in Seq(Locks)
    /\ script \in [Scripts -> {"new", "pick", "lock", "reopen", "relock", "act", "exit", "done", "killed"}]
    /\ tabbed \in [Scripts -> [listed : Seq(Locks), tab : Nat, owner : Owners]]
TabExists(s) ==
    /\ Len(tabbed[s].listed) <= Len(tabs)
    /\ script[s] \in {"lock", "reopen", "relock", "act", "exit"} => tabbed[s].tab \in 1..Len(tabs)

\* ... and the owner of a lock has a script that will release the tab at its
\* end, or that was killed; another script of the session may have released it
\* meanwhile, never a script of another session.
LockHasScript(t) ==
    tabs[t] # "free" =>
        \E s \in Scripts : /\ script[s] \in {"act", "exit", "killed"}
                           /\ tabbed[s].tab = t /\ tabbed[s].owner = tabs[t]
BrowserInv ==
    BrowserTypeOK /\ (\A s \in Scripts : TabExists(s)) /\ (\A t \in 1..Len(tabs) : LockHasScript(t))
=============================================================================
