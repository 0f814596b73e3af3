------------------------------ MODULE FileTools ------------------------------
(***************************************************************************)
(* The file tools: the security policy                                     *)
(* (crates/tools/src/sandbox/policy.rs), the runners that carry an         *)
(* invocation out (sandbox/wasm_runner.rs, sandbox/wasm_wasi_runner.rs)    *)
(* and the operations themselves (crates/wasm-guest/src/main.rs, which the *)
(* host runner repeats).                                                   *)
(*                                                                         *)
(* The invocations of all turns of a user work on one workspace.  One that *)
(* has timed out goes on in its blocking thread, so nothing tells it from  *)
(* one that still has a reader.  Writing a file truncates it first.        *)
(***************************************************************************)
EXTENDS Naturals, Sequences, FiniteSets

CONSTANT Ops   \* invocations, also the contents they write

ASSUME OpsAssumption == "missing" \notin Ops

VARIABLES
    files,     \* canonical path -> content, or Missing
    ops,       \* what each invocation is doing
    answers,   \* what each invocation returned
    guarded    \* whether the registry has a security policy

fileVars == <<files, ops, answers, guarded>>

\* A workspace with a file in each mount, a link from shared into the vault,
\* and the internal directory.
Missing == <<"missing">>
RootOf == [a |-> "shared", n |-> "shared", ln |-> "shared", b |-> "tmp", v |-> "vault", i |-> "internal"]
Content0 == [a |-> <<"x", "y">>, n |-> Missing, b |-> <<"x">>, v |-> <<"s">>, i |-> <<"k">>]
FileNames == DOMAIN RootOf

\* fs::canonicalize: links are followed.
Canonical(p) == IF p = "ln" THEN "v" ELSE p

Tools == {"read", "search", "write", "replace", "create", "edit", "delete", "copy"}
NotStarted == [tool |-> "none", path |-> "none", text |-> <<>>, at |-> "new"]

FileInit ==
    /\ files = Content0
    /\ ops = [o \in Ops |-> NotStarted]
    /\ answers = [o \in Ops |-> "none"]
    /\ guarded \in BOOLEAN

-----------------------------------------------------------------------------
\* WorkspaceSecurityPolicy::enforce_file_path: internal files are denied
\* first; a path to read has to exist, the last part of one to write not.
EnforceFilePath(p, write) ==
    /\ write \/ files[Canonical(p)] # Missing
    /\ RootOf[Canonical(p)] # "internal"
    /\ RootOf[Canonical(p)] \in IF write THEN {"shared", "tmp"} ELSE {"shared", "tmp", "vault"}

\* expected_capability_profile.
Profile(tool) ==
    CASE tool \in {"read", "search"} -> "read_only"
      [] tool = "vault_read" -> "vault_read"
      [] tool = "vault_write" -> "vault_write"
      [] OTHER -> "read_write"

\* mount_profile: what an invocation may see, and how.
MountProfile(profile) ==
    CASE profile = "read_only" -> [shared |-> "r", tmp |-> "r", vault |-> "r"]
      [] profile = "vault_read" -> [vault |-> "r"]
      [] OTHER -> [shared |-> "w", tmp |-> "w"]

\* enforce_mounted_path, and the preopened directories of the guest.
EnforceMountedPath(tool, p, write) ==
    LET mounts == MountProfile(Profile(tool)) root == RootOf[Canonical(p)]
    IN root \in DOMAIN mounts /\ (write => mounts[root] = "w")

Writes(tool) == tool \notin {"read", "search"}

Fails(o) ==
    /\ answers' = [answers EXCEPT ![o] = "failed"]
    /\ ops' = [ops EXCEPT ![o].at = "done"]
    /\ UNCHANGED files

\* A tool call: the policy, then the runner's own test of the path.
Invoke(o, tool, p, text) ==
    /\ ops[o] = NotStarted /\ tool # "copy"
    /\ IF (guarded => EnforceFilePath(p, Writes(tool))) /\ EnforceMountedPath(tool, p, Writes(tool))
       THEN /\ ops' = [ops EXCEPT ![o] = [tool |-> tool, path |-> Canonical(p), text |-> text, at |-> "run"]]
            /\ UNCHANGED answers
       ELSE /\ ops' = [ops EXCEPT ![o] = [tool |-> tool, path |-> Canonical(p), text |-> text, at |-> "done"]]
            /\ answers' = [answers EXCEPT ![o] = "failed"]
    /\ UNCHANGED files

\* vault_copyto, its first invocation: read the file.
VaultRead(o, from, to) ==
    /\ ops[o] = NotStarted
    /\ guarded => EnforceFilePath(from, FALSE) /\ EnforceFilePath(to, TRUE)
    /\ EnforceMountedPath("vault_read", from, FALSE)
    /\ files[Canonical(from)] # Missing
    /\ ops' = [ops EXCEPT ![o] = [tool |-> "copy", path |-> to, text |-> files[Canonical(from)], at |-> "copy"]]
    /\ UNCHANGED <<files, answers>>

\* vault_copyto, its second invocation: write what was read.
VaultWrite(o) ==
    /\ ops[o].at = "copy"
    /\ IF EnforceMountedPath("vault_write", ops[o].path, TRUE)
       THEN /\ files' = [files EXCEPT ![Canonical(ops[o].path)] = <<>>]
            /\ ops' = [ops EXCEPT ![o].at = "fill", ![o].path = Canonical(@)]
            /\ UNCHANGED answers
       ELSE Fails(o)

\* file_read, file_read_bytes, file_search: one look at the file.
Read(o) ==
    /\ ops[o].at = "run" /\ ops[o].tool \in {"read", "search"}
    /\ IF files[ops[o].path] = Missing THEN Fails(o)
       ELSE /\ ops' = [ops EXCEPT ![o].at = "done", ![o].text = files[ops[o].path]]
            /\ answers' = [answers EXCEPT ![o] = "ok"]
            /\ UNCHANGED files

\* fs::write of file_write: the file is there and empty.
Truncate(o) ==
    /\ ops[o].at = "run" /\ ops[o].tool = "write"
    /\ files' = [files EXCEPT ![ops[o].path] = <<>>]
    /\ ops' = [ops EXCEPT ![o].at = "fill"]
    /\ UNCHANGED answers

\* The rest of a write.
Fill(o) ==
    /\ ops[o].at = "fill"
    /\ files' = [files EXCEPT ![ops[o].path] = IF @ = Missing THEN @ ELSE ops[o].text]
    /\ ops' = [ops EXCEPT ![o].at = "done"]
    /\ answers' = [answers EXCEPT ![o] = "ok"]

\* file_write_bytes without overwrite: create_new is one system call.
CreateNew(o) ==
    /\ ops[o].at = "run" /\ ops[o].tool = "create"
    /\ IF files[ops[o].path] # Missing THEN Fails(o)
       ELSE /\ files' = [files EXCEPT ![ops[o].path] = <<>>]
            /\ ops' = [ops EXCEPT ![o].at = "fill"]
            /\ UNCHANGED answers

\* Mutant: overwriting writes the file itself.
ReplaceInPlace(o) ==
    /\ ops[o].at = "run" /\ ops[o].tool = "replace"
    /\ files' = [files EXCEPT ![ops[o].path] = <<>>]
    /\ ops' = [ops EXCEPT ![o].at = "fill"]
    /\ UNCHANGED answers

\* write_bytes_atomic_replace: a temporary file is written and renamed.
Replace(o) ==
    /\ ops[o].at = "run" /\ ops[o].tool = "replace"
    /\ files' = [files EXCEPT ![ops[o].path] = ops[o].text]
    /\ ops' = [ops EXCEPT ![o].at = "done"]
    /\ answers' = [answers EXCEPT ![o] = "ok"]

Occurrences(text, old) == {k \in DOMAIN text : text[k] = old}

\* file_edit: the old text has to be in the file exactly once; what is
\* written is the file as read with that place replaced.
EditFile(o) ==
    /\ ops[o].at = "run" /\ ops[o].tool = "edit"
    /\ IF Cardinality(Occurrences(files[ops[o].path], "x")) # 1 THEN Fails(o)
       ELSE LET text == files[ops[o].path] IN \E k \in Occurrences(text, "x") :
            /\ ops' = [ops EXCEPT ![o].at = "edited", ![o].text =
                  SubSeq(text, 1, k - 1) \o ops[o].text \o SubSeq(text, k + 1, Len(text))]
            /\ UNCHANGED <<files, answers>>

\* file_edit writes what it has made of what it read.
WriteEdited(o) ==
    /\ ops[o].at = "edited"
    /\ files' = [files EXCEPT ![ops[o].path] = <<>>]
    /\ ops' = [ops EXCEPT ![o].at = "fill"]
    /\ UNCHANGED answers

\* file_delete.
DeleteFile(o) ==
    /\ ops[o].at = "run" /\ ops[o].tool = "delete"
    /\ IF files[ops[o].path] = Missing THEN Fails(o)
       ELSE /\ files' = [files EXCEPT ![ops[o].path] = Missing]
            /\ ops' = [ops EXCEPT ![o].at = "done"]
            /\ answers' = [answers EXCEPT ![o] = "ok"]

\* The guest carries an allowed invocation out, a system call at a time.
GuestStep(o) ==
    \/ Read(o) \/ Truncate(o) \/ Fill(o) \/ CreateNew(o)
    \/ Replace(o) \/ EditFile(o) \/ WriteEdited(o) \/ DeleteFile(o)

FileNext ==
    /\ UNCHANGED guarded
    /\ \E o \in Ops :
       \/ \E tool \in Tools, p \in FileNames : Invoke(o, tool, p, <<o>>)
       \/ \E from \in {"v", "ln", "a"}, to \in {"a", "b", "ln"} : VaultRead(o, from, to)
       \/ VaultWrite(o) \/ GuestStep(o)

FileSpec == FileInit /\ [][FileNext]_fileVars

-----------------------------------------------------------------------------
\* No invocation, whatever it is given, by link or by name, changes a file
\* of the vault or an internal one, with the security policy or with the
\* mounts of the runner alone.
VaultAndInternalKept == files["v"] = Content0["v"] /\ files["i"] = Content0["i"]

Writers(p) == {o \in Ops : ops[o].tool \in Tools \ {"read", "search"} /\ ops[o].path = p
                            /\ answers[o] # "failed"}

\* A file that is only replaced (file_write_bytes with overwrite) is read as
\* it was or as one of the invocations wrote it, never half written.
ReplacedFilesReadWhole ==
    \A r \in Ops :
       /\ ops[r].tool = "read" /\ answers[r] = "ok"
       /\ \A w \in Writers(ops[r].path) : ops[w].tool = "replace"
       => ops[r].text \in {Content0[ops[r].path]} \cup {<<o>> : o \in Writers(ops[r].path)}

\* Of several invocations that create one file without overwriting, one at
\* most is told that it did, unless the file has been deleted.
CreatedOnce ==
    \A p \in DOMAIN Content0 :
       (\A w \in Writers(p) : ops[w].tool \in {"create", "read", "search"})
       => Cardinality({w \in Writers(p) : answers[w] = "ok"}) <= 1

\* A vault copy that succeeds has written what is in the vault, although it
\* was read and written by two invocations.
CopiesAreVaultFiles ==
    \A o \in Ops : ops[o].tool = "copy" /\ answers[o] = "ok" => ops[o].text = files["v"]

\* File tools keep to their mounts, and no interleaving of two invocations
\* shows a file half replaced or creates one twice.
FilesSafe ==
    VaultAndInternalKept /\ ReplacedFilesReadWhole /\ CreatedOnce /\ CopiesAreVaultFiles

\* The inductive invariant behind it: the types, ...
Places == DOMAIN Content0
Chars == Ops \cup {"x", "y", "s", "k"}
OpRecords == [tool : Tools \cup {"none"}, path : FileNames \cup {"none"}, text : Seq(Chars),
              at : {"new", "run", "copy", "edited", "fill", "done"}]
FileTypeOK ==
    /\ files \in [Places -> Seq(Chars) \cup {Missing}]
    /\ ops \in [Ops -> OpRecords]
    /\ answers \in [Ops -> {"none", "ok", "failed"}]

\* ... where an invocation stands: one that may still write has passed the
\* tests with the path it writes to, which follows no link any more, ...
OpOK(o) ==
    LET op == ops[o] writes == op.tool \notin {"read", "search"} IN
    /\ op.tool = "none" <=> op.at = "new"
    /\ answers[o] = "none" <=> op.at # "done"
    /\ op.at \in {"run", "edited", "fill"} \/ answers[o] = "ok" => op.path \in Places
    /\ op.at \in {"run", "edited", "fill"} /\ writes => op.path \notin {"v", "i"}
    /\ op.at = "copy" => op.tool = "copy" /\ op.path \in FileNames
    /\ op.at = "edited" => op.tool = "edit"
    /\ op.at = "fill" => op.tool \in {"write", "create", "edit", "copy"}
    /\ op.tool = "copy" => op.text = Content0["v"] /\ op.at \in {"copy", "fill", "done"}
    /\ op.tool = "replace" => op.text = <<o>>

\* ... and where a content comes from: it was there, or some invocation wrote
\* it, which has not failed and never will.
Wrote(o, p) ==
    /\ ops[o].tool \in Tools \ {"read", "search"} /\ ops[o].path = p
    /\ ops[o].at = "fill" \/ answers[o] = "ok"
ContentFrom(p, text) ==
    \/ text = Content0[p]
    \/ \E o \in Ops : Wrote(o, p) /\ (ops[o].tool = "replace" => text = <<o>>)
FilesFrom == \A p \in Places : ContentFrom(p, files[p])
ReadsFrom == \A r \in Ops : ops[r].tool = "read" /\ answers[r] = "ok" => ContentFrom(ops[r].path, ops[r].text)

\* Whoever creates a file finds none, so the one before was deleted.
Creates(o, p) == Wrote(o, p) /\ ops[o].tool = "create"
Deleted(p) == \E o \in Ops : Wrote(o, p) /\ ops[o].tool = "delete"
CreatorsApart ==
    \A p \in Places : \A o \in Ops : Creates(o, p) =>
        /\ files[p] # Missing \/ Deleted(p)
        /\ \A q \in Ops : Creates(q, p) => q = o \/ Deleted(p)

FileInv ==
    /\ FileTypeOK /\ VaultAndInternalKept /\ (\A o \in Ops : OpOK(o))
    /\ FilesFrom /\ ReadsFrom /\ CreatorsApart
=============================================================================
