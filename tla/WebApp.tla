------------------------------- MODULE WebApp -------------------------------
(***************************************************************************)
(* The web configurator's page (crates/runner/static/js/app.js).  Handlers *)
(* run up to their next await; meanwhile the user clicks on, other answers *)
(* arrive, and what goes on afterwards reads the page's state anew.        *)
(*                                                                         *)
(* `calls` are the handlers that wait for an answer.  A request fails or   *)
(* is carried out by the server; the files are abstracted to what has been *)
(* saved in them.                                                          *)
(***************************************************************************)
EXTENDS Naturals, FiniteSets

CONSTANTS
    WebUsers,   \* user ids
    Budgets     \* bound: [page, wizard], how often the user does something there

ASSUME WebBounds == Budgets \subseteq [page : Nat, wizard : Nat]

VARIABLES
    calls,     \* [id, what, step and plan (of the wizard), stage, of]
    editor,    \* [selected, shown]: selectedUserId and the user whose values are shown
    logs,      \* [user, of]: the selected user and the one whose lines are shown
    saving,    \* the flag `saving`
    busyUsers, \* controlState.busyByUser
    wizard,    \* onboardingWizard: [step, busy, user, existing, canRename, done]
    onServer,  \* [users, saved]: the registered users, the files that were patched
    clicks     \* [page, wizard]: what the user may still do

webAppVars == <<calls, editor, logs, saving, busyUsers, wizard, onServer, clicks>>

NoUser == "nobody"
FreshWizard == [step |-> 1, busy |-> FALSE, user |-> "alice", existing |-> NoUser, canRename |-> FALSE,
                done |-> FALSE]

WebAppInit ==
    /\ calls = {} /\ saving = FALSE /\ busyUsers = {} /\ clicks \in Budgets
    /\ editor = [selected |-> NoUser, shown |-> NoUser] /\ logs = [user |-> NoUser, of |-> NoUser]
    /\ wizard = FreshWizard /\ onServer = [users |-> {}, saved |-> {}]

-----------------------------------------------------------------------------
(* Handlers and their awaits.                                               *)

Click == clicks.page > 0 /\ clicks' = [clicks EXCEPT !.page = @ - 1]
ClickWizard == clicks.wizard > 0 /\ clicks' = [clicks EXCEPT !.wizard = @ - 1]
Handler(what, stage, of) ==
    [id |-> clicks, what |-> what, step |-> 0, plan |-> "none", stage |-> stage, of |-> of]
Waits(what, stage, of) == calls' = calls \union {Handler(what, stage, of)}
GoesOn(c, stage) == calls' = (calls \ {c}) \union {[c EXCEPT !.stage = stage]}
Returns(c) == calls' = calls \ {c}
Waiting(c, what, stage) == c \in calls /\ c.what = what /\ c.stage = stage

-----------------------------------------------------------------------------
(* Starting, stopping and restarting a user.                                *)

\* Mutant: the flag is tested, and set with the answer.
ClickControlTested(u) ==
    /\ Click /\ u \notin busyUsers /\ UNCHANGED busyUsers /\ Waits("control", "post", u)
    /\ UNCHANGED <<editor, logs, saving, wizard, onServer>>
\* runControlAction.
ClickControl(u) ==
    /\ Click /\ u \notin busyUsers /\ busyUsers' = busyUsers \union {u} /\ Waits("control", "post", u)
    /\ UNCHANGED <<editor, logs, saving, wizard, onServer>>

\* `finally`: the flag is cleared, whatever failed.
ControlEnds(c, ok) == busyUsers' = busyUsers \ {c.of}

ControlAnswered(c) ==
    /\ \/ Waiting(c, "control", "post") /\ GoesOn(c, "status") /\ UNCHANGED busyUsers
       \/ \E ok \in BOOLEAN : /\ c \in calls /\ c.what = "control" /\ (ok => c.stage = "status")
                              /\ Returns(c) /\ ControlEnds(c, ok)
    /\ UNCHANGED <<editor, logs, saving, wizard, onServer, clicks>>

-----------------------------------------------------------------------------
(* The pages of users and logs: a late answer is shown whatever is selected.*)

\* loadUserConfig.
ClickEdit(u) ==
    /\ Click /\ editor' = [editor EXCEPT !.selected = u] /\ Waits("load", "get", u)
    /\ UNCHANGED <<logs, saving, busyUsers, wizard, onServer>>
CloseUserEditor ==
    /\ Click /\ editor' = [selected |-> NoUser, shown |-> NoUser]
    /\ UNCHANGED <<calls, logs, saving, busyUsers, wizard, onServer>>
LoadAnswered(c) ==
    /\ Waiting(c, "load", "get") /\ Returns(c)
    /\ \/ editor' = [editor EXCEPT !.shown = c.of] \/ UNCHANGED editor
    /\ UNCHANGED <<logs, saving, busyUsers, wizard, onServer, clicks>>

\* setLogsUser and the poll of two seconds.
AskLogs(u) ==
    /\ Click /\ logs' = [logs EXCEPT !.user = u] /\ Waits("logs", "get", u)
    /\ UNCHANGED <<editor, saving, busyUsers, wizard, onServer>>
LogsAnswered(c) ==
    /\ Waiting(c, "logs", "get") /\ Returns(c)
    /\ \/ logs' = [logs EXCEPT !.of = c.of] \/ UNCHANGED logs
    /\ UNCHANGED <<editor, saving, busyUsers, wizard, onServer, clicks>>

-----------------------------------------------------------------------------
(* Saving.                                                                  *)

\* saveRunnerConfig, saveAgentConfig, saveUserConfig: validated first.
ClickSave(file) ==
    /\ Click /\ ~saving /\ (file = "user" => editor.selected # NoUser /\ editor.shown # NoUser)
    /\ saving' = TRUE /\ Waits("save", "validate", file)
    /\ UNCHANGED <<editor, logs, busyUsers, wizard, onServer>>

\* "No effective changes", and `finally`.
SaveUnchanged(c) == saving' = FALSE

SaveAnswered(c) ==
    /\ \/ Waiting(c, "save", "validate") /\ GoesOn(c, "patch") /\ UNCHANGED <<saving, onServer>>
       \/ Waiting(c, "save", "validate") /\ Returns(c) /\ SaveUnchanged(c) /\ UNCHANGED onServer
       \/ /\ Waiting(c, "save", "patch") /\ GoesOn(c, "reload")
          /\ onServer' = [onServer EXCEPT !.saved = @ \union {c.of}] /\ UNCHANGED saving
       \/ c \in calls /\ c.what = "save" /\ Returns(c) /\ saving' = FALSE /\ UNCHANGED onServer
    /\ UNCHANGED <<editor, logs, busyUsers, wizard, clicks>>

\* addUser, also by Enter while something is being saved, and deleteUser.
ClickAddUser(u) ==
    /\ Click /\ saving' = TRUE /\ Waits("add", "post", u)
    /\ UNCHANGED <<editor, logs, busyUsers, wizard, onServer>>
ClickDeleteUser(u) ==
    /\ Click /\ ~saving /\ saving' = TRUE /\ Waits("delete", "post", u)
    /\ UNCHANGED <<editor, logs, busyUsers, wizard, onServer>>

\* loadUsersPage: a user that is selected and gone is no longer edited.
UsersPageLoaded ==
    IF editor.selected \in onServer.users THEN UNCHANGED editor
    ELSE editor' = [selected |-> NoUser, shown |-> NoUser]

UserAnswered(c) ==
    /\ c.what \in {"add", "delete"}
    /\ \/ /\ Waiting(c, c.what, "post") /\ GoesOn(c, "reload") /\ UNCHANGED <<saving, editor>>
          /\ onServer' = [onServer EXCEPT !.users = IF c.what = "add" THEN @ \union {c.of} ELSE @ \ {c.of}]
       \/ Waiting(c, c.what, "reload") /\ Returns(c) /\ saving' = FALSE /\ UsersPageLoaded /\ UNCHANGED onServer
       \/ c \in calls /\ Returns(c) /\ saving' = FALSE /\ UNCHANGED <<editor, onServer>>
    /\ UNCHANGED <<logs, busyUsers, wizard, clicks>>

-----------------------------------------------------------------------------
(* The setup wizard.                                                        *)

\* The page is opened: a new wizard, filled in when the answers are there.
OpenWizard ==
    /\ ClickWizard /\ wizard' = FreshWizard /\ Waits("seed", "get", NoUser)
    /\ UNCHANGED <<editor, logs, saving, busyUsers, onServer>>
SeedWizard(c) ==
    /\ Waiting(c, "seed", "get") /\ Returns(c)
    /\ \/ \E u \in onServer.users :
            wizard' = [wizard EXCEPT !.user = u, !.existing = u, !.canRename = (onServer.users = {"alice"})]
       \/ onServer.users = {} /\ wizard' = [wizard EXCEPT !.existing = NoUser, !.canRename = FALSE]
       \/ UNCHANGED wizard
    /\ UNCHANGED <<editor, logs, saving, busyUsers, onServer, clicks>>

TypeUserId(u) ==
    /\ ClickWizard /\ wizard.step = 3 /\ wizard' = [wizard EXCEPT !.user = u]
    /\ UNCHANGED <<calls, editor, logs, saving, busyUsers, onServer>>
PreviousStep ==
    /\ ClickWizard /\ ~wizard.busy /\ ~wizard.done /\ wizard.step > 1 /\ wizard' = [wizard EXCEPT !.step = @ - 1]
    /\ UNCHANGED <<calls, editor, logs, saving, busyUsers, onServer>>

\* What step 3 will ask for, by what the wizard was filled in with.
RegisterPlan ==
    IF wizard.existing = wizard.user THEN "skip" ELSE IF wizard.canRename THEN "rename" ELSE "create"

\* onboardingNextStep.
NextStep ==
    /\ ClickWizard /\ ~wizard.busy /\ ~wizard.done
    /\ IF wizard.step = 1 THEN wizard' = [wizard EXCEPT !.step = 2] /\ UNCHANGED calls
       ELSE /\ wizard' = [wizard EXCEPT !.busy = TRUE]
            /\ calls' = calls \union
                 {[id |-> clicks, what |-> "wizard", step |-> wizard.step, plan |-> RegisterPlan,
                   stage |-> "validate", of |-> wizard.user]}
    /\ UNCHANGED <<editor, logs, saving, busyUsers, onServer>>

\* What each step saves.
StepFiles == <<"nothing", "runner", "user", "provider", "tools">>
WizardFile(c) == StepFiles[c.step]

\* Step 3: the default user is renamed or the user created, unless the server
\* has one of that name; nothing is asked for the user the wizard was filled in
\* with, which was registered then.
RegisterUser(c) ==
    /\ c.plan # "skip" => c.of \notin onServer.users
    /\ c.plan = "rename" => "alice" \in onServer.users
    /\ onServer' = [users |-> IF c.plan = "skip" THEN onServer.users
                              ELSE (onServer.users \ IF c.plan = "rename" THEN {"alice"} ELSE {}) \union {c.of},
                    saved |-> onServer.saved \union {"user"}]
    /\ wizard' = [wizard EXCEPT !.user = c.of, !.existing = IF c.plan = "skip" THEN @ ELSE c.of,
                                !.canRename = @ /\ c.plan # "rename"]

\* The other steps' PATCH; step 5 patches the user's file after the agent's.
WizardPatches(c) ==
    /\ onServer' = [onServer EXCEPT !.saved = @ \union {WizardFile(c)}] /\ UNCHANGED wizard
WizardSends(c) ==
    /\ c.what = "wizard"
    /\ \/ Waiting(c, c.what, "validate") /\ c.step < 6 /\ GoesOn(c, "patch") /\ UNCHANGED <<onServer, wizard>>
       \/ /\ Waiting(c, c.what, "patch") /\ GoesOn(c, IF c.step = 5 THEN "channels" ELSE "reload")
          /\ IF c.step = 3 THEN RegisterUser(c) ELSE WizardPatches(c)
       \/ /\ Waiting(c, c.what, "channels") /\ GoesOn(c, "reload") /\ UNCHANGED wizard
          /\ onServer' = [onServer EXCEPT !.saved = @ \union {"channels"}]
    /\ UNCHANGED <<editor, logs, saving, busyUsers, clicks>>

\* The step that was carried out decides.
StepAfter(c) == c.step + 1

WizardReturns(c) ==
    /\ c.what = "wizard" /\ c \in calls /\ Returns(c)
    /\ \/ c.stage = "reload" /\ wizard' = [wizard EXCEPT !.step = StepAfter(c), !.busy = FALSE]
       \/ c.step = 6 /\ wizard' = [wizard EXCEPT !.done = TRUE, !.busy = FALSE]
       \/ wizard' = [wizard EXCEPT !.busy = FALSE]
    /\ UNCHANGED <<editor, logs, saving, busyUsers, onServer, clicks>>

-----------------------------------------------------------------------------
RequestAnswered(c) ==
    \/ ControlAnswered(c) \/ LoadAnswered(c) \/ LogsAnswered(c) \/ SaveAnswered(c) \/ UserAnswered(c)
    \/ SeedWizard(c) \/ WizardSends(c) \/ WizardReturns(c)

WebAppNext ==
    \/ \E u \in WebUsers : ClickControl(u) \/ ClickEdit(u) \/ AskLogs(u) \/ ClickAddUser(u) \/ ClickDeleteUser(u)
                           \/ TypeUserId(u)
    \/ \E file \in {"runner", "provider", "user"} : ClickSave(file)
    \/ CloseUserEditor \/ OpenWizard \/ PreviousStep \/ NextStep
    \/ \E c \in calls : RequestAnswered(c)

WebAppSpec == WebAppInit /\ [][WebAppNext]_webAppVars

-----------------------------------------------------------------------------
(* Properties.                                                              *)

\* A user's daemon is asked for one thing at a time, though clicks and
\* answers interleave.
OneControlAtATime ==
    \A c, d \in calls : c.what = "control" /\ d.what = "control" /\ c.of = d.of => c = d

StepSaved(n) == StepFiles[n] \in onServer.saved /\ (n = 5 => "channels" \in onServer.saved)

\* The setup wizard is at a step only when what the steps before it save has
\* been saved at some time (a user, registered), though it may have been opened anew, gone back and filled in
\* from old answers while a step was being carried out.
WizardStepsSaved == \A n \in 2..5 : wizard.step > n => StepSaved(n)

\* The buttons come back: whatever fails and in whatever order the answers
\* come, while a user is busy, the page saving or the wizard busy, a handler
\* is under way that clears the flag when it ends.
ButtonsComeBack ==
    /\ saving => \E c \in calls : c.what \in {"save", "add", "delete"}
    /\ \A u \in busyUsers : \E c \in calls : c.what = "control" /\ c.of = u
    /\ wizard.busy => \E c \in calls : c.what = "wizard"

\* Answers that come late or never do not make the page start a second control
\* command, leave a step of the wizard unsaved or lock its buttons.
PageConsistent == OneControlAtATime /\ WizardStepsSaved /\ ButtonsComeBack

\* The inductive invariant behind it: the types, ...
Names == WebUsers \union {NoUser, "alice", "nothing", "runner", "user", "provider", "tools", "channels"}
Requests == [id : [page : Nat, wizard : Nat], step : 0..6, of : Names,
             plan : {"none", "skip", "rename", "create"},
             what : {"control", "load", "logs", "save", "add", "delete", "seed", "wizard"},
             stage : {"post", "status", "get", "validate", "patch", "channels", "reload"}]
WebAppTypeOK ==
    /\ calls \subseteq Requests /\ clicks \in [page : Nat, wizard : Nat]
    /\ wizard \in [step : 1..6, busy : BOOLEAN, done : BOOLEAN, user : Names,
                   existing : Names, canRename : BOOLEAN]
    /\ onServer \in [users : SUBSET Names, saved : SUBSET Names]

\* ... a control command is under way for busy users only, ...
ControlIsBusy == \A c \in calls : c.what = "control" => c.of \in busyUsers

\* ... and a step that is being carried out is one the wizard was at, whatever
\* it has shown since: the steps before are saved, and its own file once the
\* answer to its PATCH has come.
WizardCallSaved(c) ==
    c.what = "wizard" =>
        /\ c.step \in 2..6
        /\ \A n \in 2..5 : c.step > n => StepSaved(n)
        /\ c.stage = "patch" => c.step < 6
        /\ c.stage = "channels" => c.step = 5 /\ StepFiles[5] \in onServer.saved
        /\ c.stage = "reload" => c.step < 6 /\ StepSaved(c.step)
PageInv == WebAppTypeOK /\ ControlIsBusy /\ PageConsistent /\ \A c \in calls : WizardCallSaved(c)
=============================================================================
