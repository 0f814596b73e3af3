----------------------------- MODULE ConfigEditor -----------------------------
(***************************************************************************)
(* Editing a configuration in the browser: the values a page loads, with   *)
(* secrets masked (crates/runner/src/web/masking.rs, config_read.rs), the  *)
(* page's editors and the patch they build (crates/runner/static/js), and  *)
(* the merge into the file (crates/runner/src/web/config_write.rs).        *)
(*                                                                         *)
(* Each kind of file has a plain field and a secret of its own, and a      *)
(* collection: the agent's providers are tables with a secret in each, the *)
(* user's credentials are plain strings, the runner has none.  Several     *)
(* pages may be open on one file.                                          *)
(***************************************************************************)
EXTENDS Naturals, FiniteSets

CONSTANTS
    EditorKinds,   \* which files are edited: "runner", "agent", "user"
    Pages,         \* open pages
    EntryKeys      \* names in the collection

VARIABLES
    kind,          \* the kind of the file
    doc,           \* the file: field, token and the entries of the collection
    pages          \* what each page has loaded and changed

editorVars == <<kind, doc, pages>>

Mask == "********"
Sentinel == "__UNCHANGED__"
NoValue == "null"
Blank == ""
Secrets == {"secret0", "secret1", Blank}

\* A provider is a table; a credential is its secret alone.
Table(plain, secret) == [plain |-> plain, secret |-> secret]
Credential(secret) == [secret |-> secret]
NoEntry == [gone |-> TRUE]
IsTable(e) == "plain" \in DOMAIN e

Entries0 ==
    CASE kind = "agent" -> [k \in EntryKeys |-> Table("p0", "secret0")]
      [] kind = "user" -> [k \in EntryKeys |-> Credential("secret0")]
      [] OTHER -> [k \in EntryKeys |-> NoEntry]

Closed == [open |-> FALSE, changes |-> [field |-> NoValue, token |-> NoValue],
           entries |-> [k \in EntryKeys |-> NoEntry], deleted |-> {}, fired |-> FALSE]

EditorInit ==
    /\ kind \in EditorKinds
    /\ doc = [field |-> "v0", token |-> "secret0", entries |-> Entries0]
    /\ pages = [p \in Pages |-> Closed]

-----------------------------------------------------------------------------
\* mask_secrets: a secret that is set is shown as the mask.
MaskSecret(s) == IF s = Blank THEN s ELSE Mask
MaskEntry(e) == IF e = NoEntry THEN e ELSE [e EXCEPT !.secret = MaskSecret(e.secret)]

\* addEntryCard: in the fields of a table the mask becomes the sentinel.
EntryCard(e) ==
    IF e # NoEntry /\ IsTable(e) /\ e.secret = Mask THEN [e EXCEPT !.secret = Sentinel] ELSE e

\* GET, and the render of the editor.  The widget of the file's own secret
\* shows nothing and reports the sentinel until it is touched.
LoadPage(p) ==
    /\ pages' = [pages EXCEPT ![p] =
           [Closed EXCEPT !.open = TRUE,
                          !.entries = [k \in EntryKeys |-> EntryCard(MaskEntry(doc.entries[k]))]]]
    /\ UNCHANGED <<kind, doc>>

\* onChange of a field, typed or cleared, and of the secret.
ChangeField(p) ==
    /\ pages[p].open
    /\ \/ pages' = [pages EXCEPT ![p].changes.field = "v1"]
       \/ \E s \in {"secret1", Blank} : pages' = [pages EXCEPT ![p].changes.token = s]
    /\ UNCHANGED <<kind, doc>>

\* onChange of an entry: every entry goes into the patch.  For a credential
\* the value is replaced, and the collection's own callback gets nothing, so
\* what was collected so far is forgotten.
ChangeEntry(p, k) ==
    /\ pages[p].open /\ pages[p].entries[k] # NoEntry
    /\ \/ /\ IsTable(pages[p].entries[k])
          /\ \/ pages' = [pages EXCEPT ![p].entries[k].plain = "p1", ![p].fired = TRUE]
             \/ pages' = [pages EXCEPT ![p].entries[k].secret = "secret1", ![p].fired = TRUE]
       \/ /\ ~IsTable(pages[p].entries[k])
          /\ pages' = [pages EXCEPT ![p].entries[k].secret = "secret1", ![p].fired = FALSE]
    /\ UNCHANGED <<kind, doc>>

\* removeEntryCard.
DeleteEntry(p, k) ==
    /\ pages[p].open /\ pages[p].entries[k] # NoEntry
    /\ pages' = [pages EXCEPT ![p].entries[k] = NoEntry, ![p].deleted = @ \cup {k}, ![p].fired = TRUE]
    /\ UNCHANGED <<kind, doc>>

\* buildPatch: the fields changed, all entries and the deleted names once the
\* collection has reported a change, and the sentinel for an untouched secret.
BuildPatch(p) ==
    [field |-> pages[p].changes.field,
     token |-> IF pages[p].changes.token = NoValue THEN Sentinel ELSE pages[p].changes.token,
     deleted |-> IF pages[p].fired THEN pages[p].deleted ELSE {},
     entries |-> IF pages[p].fired THEN pages[p].entries ELSE [k \in EntryKeys |-> NoEntry]]

HasChanges(p) == pages[p].changes # Closed.changes \/ pages[p].fired

-----------------------------------------------------------------------------
\* apply_patch_to_table: the sentinel leaves a value alone.
Merged(old, new) == IF new = Sentinel THEN old ELSE new

\* A table is merged field by field into the old one, or into a new one.
MergeEntry(old, new, gone) ==
    LET secret == Merged(IF old = NoEntry THEN Blank ELSE old.secret, new.secret)
    IN IF new # NoEntry THEN IF IsTable(new) THEN Table(new.plain, secret) ELSE Credential(secret)
       ELSE IF gone THEN NoEntry ELSE old

ApplyPatch(d, patch) ==
    [field |-> IF patch.field = NoValue THEN d.field ELSE patch.field,
     token |-> Merged(d.token, patch.token),
     entries |-> [k \in EntryKeys |-> MergeEntry(d.entries[k], patch.entries[k], k \in patch.deleted)]]

\* Validate, PATCH, and load again; nothing is sent without a change.
SavePage(p) ==
    /\ pages[p].open /\ HasChanges(p)
    /\ doc' = ApplyPatch(doc, BuildPatch(p))
    /\ pages' = [pages EXCEPT ![p] =
           [Closed EXCEPT !.open = TRUE,
                          !.entries = [k \in EntryKeys |-> EntryCard(MaskEntry(doc'.entries[k]))]]]
    /\ UNCHANGED kind

EditorNext ==
    \E p \in Pages : \/ LoadPage(p) \/ ChangeField(p) \/ SavePage(p)
                     \/ \E k \in EntryKeys : ChangeEntry(p, k) \/ DeleteEntry(p, k)

EditorSpec == EditorInit /\ [][EditorNext]_editorVars

-----------------------------------------------------------------------------
\* Whatever pages are open and in whatever order they are saved, a secret in
\* the file is one that a user entered: neither the mask that a page was
\* shown nor the sentinel for "unchanged" is ever stored.
SecretsSurviveEditing ==
    /\ doc.token \in Secrets
    /\ \A k \in EntryKeys : doc.entries[k] # NoEntry => doc.entries[k].secret \in Secrets

-----------------------------------------------------------------------------
(* The inductive invariant of SecretsSurviveEditing where all collections  *)
(* are of tables, as in the files of the runner and of the agent.          *)

Tables(secrets) == [plain : {"p0", "p1"}, secret : secrets]
EntriesOf(secrets) == [EntryKeys -> Tables(secrets) \cup {NoEntry}]

\* In a page the secrets are those that were entered, and the sentinel.
PageRecs ==
    [open : BOOLEAN, changes : [field : {"v1", NoValue}, token : Secrets \cup {NoValue}],
     entries : EntriesOf(Secrets \cup {Sentinel}), deleted : SUBSET EntryKeys, fired : BOOLEAN]

EditorInv ==
    /\ doc \in [field : {"v0", "v1"}, token : Secrets, entries : EntriesOf(Secrets)]
    /\ pages \in [Pages -> PageRecs]
===============================================================================
