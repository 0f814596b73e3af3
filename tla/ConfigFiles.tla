------------------------------ MODULE ConfigFiles -----------------------------
(***************************************************************************)
(* The runner's configuration file and the users' files as the web         *)
(* configurator and the runner change them: patches, creation, renaming    *)
(* and deletion of users with their backups                                *)
(* (crates/runner/src/web/config_write.rs) and the migration that loading  *)
(* an old file sets off (crates/runner/src/config_migration.rs).           *)
(*                                                                         *)
(* The requests of several threads interleave, every step may fail, and    *)
(* the server may be stopped between any two.  `clean` is true from the    *)
(* beginning of a request that finds the users' files in order and no      *)
(* other request under way, until another one begins, the server is        *)
(* stopped, or one of the two failures happens that leave a user without   *)
(* its file: that of pruning, which makes create_user and rename_user undo *)
(* their part of a change that is written, and that of moving a renamed    *)
(* file back.                                                              *)
(***************************************************************************)
EXTENDS Naturals, Sequences, FiniteSets

CONSTANTS
    ConfRequests,   \* requests
    ConfUsers,      \* user ids
    ConfPaths,      \* paths of user files
    KeepBackups     \* BACKUP_KEEP_COUNT

ASSUME ConfBounds == KeepBackups \in Nat \ {0} /\ "no_path" \notin ConfPaths

VARIABLES
    conf,           \* the runner's file: version, a field and the users
    userFiles,      \* path -> a file is there
    backups,        \* backups of the runner's file, oldest first
    requests,       \* what each request is doing
    clean

confVars == <<conf, userFiles, backups, requests, clean>>

NoPath == "no_path"
Partial == [version |-> "partial"]   \* what a copy that fails leaves
Readable == conf # Partial
Waiting == [at |-> "new"]

ConfInit ==
    /\ \E u \in ConfUsers, p \in ConfPaths, version \in {"1.0.0", "1.0.1"} :
         /\ conf = [version |-> version, field |-> 0,
                    users |-> [v \in ConfUsers |-> IF v = u THEN p ELSE NoPath]]
         /\ userFiles = [q \in ConfPaths |-> q = p]
    /\ backups = <<>>
    /\ requests = [r \in ConfRequests |-> Waiting]
    /\ clean = TRUE

\* The registered users have their files, each one of its own.
Fits(c, files) ==
    c # Partial =>
      /\ \A u \in ConfUsers : c.users[u] # NoPath => files[c.users[u]]
      /\ \A u, v \in ConfUsers : c.users[u] = c.users[v] /\ c.users[u] # NoPath => u = v

\* Where a request goes on; the others are as they were.
Goes(r, step) == requests' = [requests EXCEPT ![r].at = step]
Busy(r) == requests[r].at \notin {"new", "done", "failed"}

\* A request: the users it sets, the user file it moves or drops, and from
\* prepare_patch on what to write, whether that changes anything, the backup.
Request(op, at, set, from, to) ==
    [op |-> op, at |-> at, set |-> set, from |-> from, to |-> to,
     new |-> conf, changed |-> FALSE, bak |-> Partial, moved |-> FALSE]

Begin(r, request) ==
    /\ requests[r].at = "new"
    /\ requests' = [requests EXCEPT ![r] = request]
    /\ clean' = (Fits(conf, userFiles) /\ \A q \in ConfRequests : ~Busy(q))
    /\ UNCHANGED <<conf, userFiles, backups>>

NoUser == [u \in {} |-> NoPath]
Current == Readable /\ conf.version = "1.0.1"

-----------------------------------------------------------------------------
\* create_user: the user is unknown and the path is free.
CreateUser(r) ==
    /\ Current
    /\ \E u \in ConfUsers, p \in ConfPaths :
         /\ conf.users[u] = NoPath /\ ~userFiles[p]
         /\ Begin(r, Request("create", "write_user_file", [v \in {u} |-> p], NoPath, p))

WriteUserFile(r) ==
    /\ requests[r].at = "write_user_file"
    /\ \/ userFiles' = [userFiles EXCEPT ![requests[r].to] = TRUE] /\ Goes(r, "prepare")
       \/ Goes(r, "failed") /\ UNCHANGED userFiles
    /\ UNCHANGED <<conf, backups, clean>>

\* rename_user: another id, another path, or both.
RenameUser(r) ==
    /\ Current
    /\ \E u, v \in ConfUsers, p \in ConfPaths :
         /\ conf.users[u] # NoPath
         /\ v # u => conf.users[v] = NoPath
         /\ p # conf.users[u] => ~userFiles[p]
         /\ Begin(r, Request("rename", "prepare", [w \in {u, v} |-> IF w = v THEN p ELSE NoPath],
                             conf.users[u], p))

\* delete_user, with the user's file.
DeleteUser(r) ==
    /\ Current
    /\ \E u \in ConfUsers :
         /\ conf.users[u] # NoPath
         /\ Begin(r, Request("delete", "prepare", [v \in {u} |-> NoPath], conf.users[u], NoPath))

\* patch_runner_config.
PatchConfig(r) == Begin(r, Request("patch", "prepare", NoUser, NoPath, NoPath))

\* The file with a request's change.
Patched(c, request) ==
    [c EXCEPT !.field = IF request.op = "patch" THEN 1 - @ ELSE @,
              !.users = [u \in ConfUsers |-> IF u \in DOMAIN request.set THEN request.set[u] ELSE @[u]]]

\* prepare_patch: the merge into the file as it is now, which may be unreadable
\* or make it invalid.
PreparePatch(r) ==
    /\ requests[r].at = "prepare"
    /\ \/ /\ Readable
          /\ LET new == Patched(conf, requests[r])
             IN requests' = [requests EXCEPT
                    ![r].at = IF requests[r].op = "rename" THEN "move" ELSE "back_up",
                    ![r].new = new, ![r].changed = (new # conf)]
       \/ Goes(r, "undo")
    /\ UNCHANGED <<conf, userFiles, backups, clean>>

\* The renamed user's file is moved before the file is written.
Moves(request, files) == files[request.from] /\ request.from # request.to
FilesMoved(files, from, to) == [files EXCEPT ![from] = FALSE, ![to] = TRUE]
MoveUserFile(r) ==
    LET from == requests[r].from to == requests[r].to moves == Moves(requests[r], userFiles)
    IN /\ requests[r].at = "move"
       /\ \/ /\ userFiles' = IF moves THEN FilesMoved(userFiles, from, to) ELSE userFiles
             /\ requests' = [requests EXCEPT ![r].at = "back_up", ![r].moved = moves]
          \/ moves /\ Goes(r, "failed") /\ UNCHANGED userFiles
       /\ UNCHANGED <<conf, backups, clean>>

-----------------------------------------------------------------------------
\* persist_patch: nothing to do, or backup_file first.
BackUp(r) ==
    /\ requests[r].at = "back_up"
    /\ \/ ~requests[r].changed /\ Goes(r, "persisted") /\ UNCHANGED backups
       \/ /\ requests[r].changed
          /\ backups' = Append(backups, conf)
          /\ requests' = [requests EXCEPT ![r].at = "write", ![r].bak = conf]
       \/ requests[r].changed /\ Goes(r, "undo") /\ UNCHANGED backups
    /\ UNCHANGED <<conf, userFiles, clean>>

\* atomic_write.
WriteConfig(r) ==
    /\ requests[r].at = "write"
    /\ conf' = requests[r].new
    /\ Goes(r, "prune")
    /\ UNCHANGED <<userFiles, backups, clean>>

\* A failed write is answered by copying the backup over the file, which may
\* fail as well and then leaves part of it.
WriteConfigFails(r) ==
    /\ requests[r].at = "write"
    /\ conf' \in {requests[r].bak, Partial}
    /\ Goes(r, "undo")
    /\ UNCHANGED <<userFiles, backups, clean>>

\* Mutant: sorted the other way round, the newest are removed.
LatestBackupsOldest(baks) == SubSeq(baks, 1, KeepBackups)

\* prune_backups: sorted by name, all but the first of them are removed.
LatestBackups(baks) ==
    IF Len(baks) <= KeepBackups THEN baks ELSE SubSeq(baks, Len(baks) - KeepBackups + 1, Len(baks))

\* What pruning that fails leaves, which begins with the newest of the stale ones.
PartlyPruned(baks) ==
    {SubSeq(baks, 1, stale) \o LatestBackups(baks) : stale \in 0..(Len(baks) - KeepBackups)}

PruneBackups(r) ==
    /\ requests[r].at = "prune"
    /\ backups' = LatestBackups(backups)
    /\ Goes(r, "persisted")
    /\ UNCHANGED <<conf, userFiles, clean>>

\* The directory cannot be read or a file not be removed, which another request
\* may have removed: an error, though the change is written.
PruneFails(r) ==
    /\ requests[r].at = "prune"
    /\ backups' \in {backups} \cup PartlyPruned(backups)
    /\ Goes(r, "undo")
    /\ clean' = (clean /\ requests[r].op \notin {"create", "rename"})
    /\ UNCHANGED <<conf, userFiles>>

\* The end; a deletion drops the file now, or takes the backup back.
FilesFinished(request, files) ==
    IF request.op = "delete" THEN [files EXCEPT ![request.from] = FALSE] ELSE files
FinishRequest(r) ==
    /\ requests[r].at = "persisted"
    /\ \/ /\ userFiles' = FilesFinished(requests[r], userFiles)
          /\ Goes(r, "done")
          /\ UNCHANGED conf
       \/ /\ requests[r].op = "delete" /\ userFiles[requests[r].from]
          /\ conf' \in IF requests[r].changed THEN {requests[r].bak, Partial} ELSE {conf}
          /\ Goes(r, "failed")
          /\ UNCHANGED userFiles
    /\ UNCHANGED <<backups, clean>>

\* A request that failed removes the new user's file or moves the renamed one
\* back; whether that fails as well is not looked at.
FilesUndone(request, files) ==
    IF request.op = "create" THEN [files EXCEPT ![request.to] = FALSE]
    ELSE IF request.moved /\ files[request.to] THEN FilesMoved(files, request.to, request.from)
    ELSE files
UndoRequest(r) ==
    /\ requests[r].at = "undo"
    /\ \/ userFiles' = FilesUndone(requests[r], userFiles) /\ UNCHANGED clean
       \/ clean' = (clean /\ ~requests[r].moved) /\ UNCHANGED userFiles
    /\ Goes(r, "failed")
    /\ UNCHANGED <<conf, backups>>

-----------------------------------------------------------------------------
\* Loading an old file: read it, and write what was read with the new version.
ReadToMigrate(r) ==
    /\ Readable /\ conf.version = "1.0.0"
    /\ Begin(r, [Request("migrate", "migrate", NoUser, NoPath, NoPath) EXCEPT
                     !.new = [conf EXCEPT !.version = "1.0.1"]])

\* migrate_config_file_if_needed copies the file to a backup.
BackUpToMigrate(r) ==
    /\ requests[r].at = "migrate"
    /\ \/ /\ backups' = Append(backups, conf)
          /\ requests' = [requests EXCEPT ![r].at = "migrate_write", ![r].bak = conf]
       \/ backups' \in {backups, Append(backups, Partial)} /\ Goes(r, "failed")
    /\ UNCHANGED <<conf, userFiles, clean>>

\* It writes a file with the name of another backup and renames it.
MigrateConfig(r) ==
    /\ requests[r].at = "migrate_write"
    /\ \/ conf' = requests[r].new /\ Goes(r, "done") /\ UNCHANGED backups
       \/ /\ backups' \in {backups, Append(backups, Partial), Append(backups, requests[r].new)}
          /\ Goes(r, "failed") /\ UNCHANGED conf
    /\ UNCHANGED <<userFiles, clean>>

\* The process of one request ends where it is.
StopServer ==
    /\ \E r \in ConfRequests : Busy(r)
    /\ requests' = [r \in ConfRequests |-> IF Busy(r) THEN [requests[r] EXCEPT !.at = "failed"] ELSE requests[r]]
    /\ clean' = FALSE
    /\ UNCHANGED <<conf, userFiles, backups>>

ConfNext ==
    \/ \E r \in ConfRequests :
         \/ CreateUser(r) \/ WriteUserFile(r) \/ RenameUser(r) \/ DeleteUser(r) \/ PatchConfig(r)
         \/ PreparePatch(r) \/ MoveUserFile(r) \/ BackUp(r) \/ WriteConfig(r) \/ WriteConfigFails(r)
         \/ PruneBackups(r) \/ PruneFails(r) \/ FinishRequest(r) \/ UndoRequest(r)
         \/ ReadToMigrate(r) \/ BackUpToMigrate(r) \/ MigrateConfig(r)
    \/ StopServer

ConfSpec == ConfInit /\ [][ConfNext]_confVars

-----------------------------------------------------------------------------
\* A request that begins alone, when every registered user has a file of its own,
\* leaves it so, whichever step fails but the two that `clean` excepts: the user's
\* file is made before the registration and dropped after it, and what was moved
\* is moved back.
RegisteredUsersHaveFiles ==
    (clean /\ Readable /\ \A r \in ConfRequests : ~Busy(r))
    => \A u \in ConfUsers : conf.users[u] # NoPath => userFiles[conf.users[u]]

\* The text of the runner's file that a change or a migration replaces, alone at
\* it, is in a backup when the request goes on or ends, however many there have
\* been and whether pruning them fails or not.
ReplacedConfigBackedUp ==
    [][clean => \A r \in ConfRequests :
           (requests[r].at \in {"prune", "migrate_write"} /\ requests'[r].at # requests[r].at)
           => \E i \in DOMAIN backups' : backups'[i] = requests[r].bak]_confVars

-----------------------------------------------------------------------------
(* The inductive invariant of RegisteredUsersHaveFiles and of               *)
(* ReplacedConfigBackedUp.                                                  *)

ConfPathOrNone == ConfPaths \cup {NoPath}
ConfRecs ==
    [version : {"1.0.0", "1.0.1"}, field : {0, 1}, users : [ConfUsers -> ConfPathOrNone]]
Settings == UNION {[D -> ConfPathOrNone] : D \in SUBSET ConfUsers}
RequestRecs ==
    [op : {"create", "rename", "delete", "patch", "migrate"},
     at : {"write_user_file", "prepare", "move", "back_up", "write", "prune", "persisted", "undo",
           "migrate", "migrate_write", "done", "failed"},
     set : Settings, from : ConfPathOrNone, to : ConfPathOrNone, new : ConfRecs \cup {Partial},
     changed : BOOLEAN, bak : ConfRecs \cup {Partial}, moved : BOOLEAN]

ConfTypes ==
    /\ conf \in ConfRecs \cup {Partial} /\ userFiles \in [ConfPaths -> BOOLEAN]
    /\ backups \in Seq(ConfRecs \cup {Partial})
    /\ requests \in [ConfRequests -> RequestRecs \cup {Waiting}] /\ clean \in BOOLEAN

\* A request that is ready to write `new` over c may fail and be undone, or
\* succeed and be finished; only create_user and rename_user undo something.
ReadyToWrite(q, c, new, files) ==
    /\ Fits(c, FilesUndone(q, files)) /\ Fits(new, FilesFinished(q, files))
    /\ q.op \notin {"create", "rename"} => Fits(new, FilesUndone(q, files))
    /\ q.op = "delete" => Fits(c, files) /\ Fits(new, files)
ReadyToMove(q, c, new, files) ==
    /\ Fits(c, files)
    /\ ReadyToWrite([q EXCEPT !.moved = Moves(q, files)], c, new,
                    IF Moves(q, files) THEN FilesMoved(files, q.from, q.to) ELSE files)
ReadyToPrepare(q, c, files) ==
    c # Partial => IF q.op = "rename" THEN ReadyToMove(q, c, Patched(c, q), files)
                   ELSE ReadyToWrite(q, c, Patched(c, q), files)

\* Where the only request stands that is under way.
Underway(q, c, files, baks) ==
    /\ q.at = "write_user_file" => Fits(c, files) /\ ReadyToPrepare(q, c, [files EXCEPT ![q.to] = TRUE])
    /\ q.at \in {"write_user_file", "prepare"} => ~q.moved
    /\ q.at = "prepare" => ReadyToPrepare(q, c, files)
    /\ q.at = "move" => ReadyToMove(q, c, q.new, files)
    /\ q.at = "move" \/ q.op = "rename" => q.from \in ConfPaths
    /\ q.at \in {"move", "back_up"} => (q.changed \/ q.new = c)
    /\ q.at \in {"back_up", "write"} => ReadyToWrite(q, c, q.new, files)
    /\ q.at = "write" => q.bak = c /\ q.changed
    /\ q.at \in {"write", "prune", "migrate_write"} => baks # <<>> /\ baks[Len(baks)] = q.bak
    /\ q.at = "prune" => q.changed /\ (q.op \notin {"create", "rename"} => Fits(c, FilesUndone(q, files)))
    /\ q.at \in {"prune", "persisted"} =>
         /\ Fits(c, FilesFinished(q, files))
         /\ q.op = "delete" => Fits(c, files) /\ (q.changed => Fits(q.bak, files))
    /\ q.at = "undo" => Fits(c, FilesUndone(q, files))
    /\ q.at \in {"migrate", "migrate_write"} => Fits(c, files) /\ Fits(q.new, files)

ConfInv ==
    /\ ConfTypes
    /\ clean => /\ \A r, q \in ConfRequests : Busy(r) /\ Busy(q) => r = q
                /\ \A r \in ConfRequests : Busy(r) => Underway(requests[r], conf, userFiles, backups)
                /\ (\A r \in ConfRequests : ~Busy(r)) => Fits(conf, userFiles)
=============================================================================
