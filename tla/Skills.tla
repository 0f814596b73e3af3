-------------------------------- MODULE Skills --------------------------------
(***************************************************************************)
(* Skills: the tools that write them (crates/tools/src/skill_tools.rs),    *)
(* their discovery and activation when a guest starts                      *)
(* (crates/runner/src/skills.rs, called by bootstrap.rs) and the sessions  *)
(* that get the prompt.                                                    *)
(*                                                                         *)
(* One skill name is followed through all tiers.  In the workspace it is a *)
(* folder with SKILL.md or a legacy bare file of that name, or any other   *)
(* file whose front matter has the name: files are found by their front    *)
(* matter, new ones made by the name.  The tools run on several threads    *)
(* and write in place: the file is truncated first, and of two overlapping *)
(* writes the longer may leave its tail.                                   *)
(***************************************************************************)
EXTENDS Naturals, Sequences, FiniteSets

CONSTANTS
    SkillCalls,   \* calls of the two tools
    MaxStarts     \* bound on guest starts

VARIABLES
    skillFile,    \* the workspace's places for the skill
    lowerTiers,   \* embedded, system, user and home definitions, lowest first
    skillCall,    \* what each tool call is doing
    prompt,       \* the skill in the system prompt of the running guest
    session,      \* the prompt of the newest session, and what was on disk
    starts

skillVars == <<skillFile, lowerTiers, skillCall, prompt, session, starts>>

NoSkill == [text |-> "none"]
Folder == [text |-> "folder"]      \* the directory without SKILL.md
Truncated == [text |-> "empty"]
SkillText(meta, body) == [text |-> "skill", meta |-> meta, body |-> body]
Metas == {"always", "manual", "shell"}

\* types::validate_skill_content: front matter, and the token cap.
ValidateSkill(s) == s.text = "skill" /\ s.body # "huge"

SkillPlaces == {"folder", "bare", "other"}

NotCalled == [at |-> "new", place |-> "folder", write |-> NoSkill]

SkillsInit ==
    /\ \E q \in {"none", "bare", "other"} :
         skillFile = [p \in SkillPlaces |-> IF p = q THEN SkillText("always", "old") ELSE NoSkill]
    /\ lowerTiers \in {<<NoSkill, NoSkill, NoSkill, NoSkill>>,
                       <<SkillText("always", "builtin"), NoSkill, SkillText("shell", "user"), NoSkill>>}
    /\ skillCall = [c \in SkillCalls |-> NotCalled]
    /\ prompt = NoSkill /\ session = [saw |-> NoSkill, disk |-> NoSkill]
    /\ starts = 0

-----------------------------------------------------------------------------
\* resolve_skill_path_by_metadata: the places that hold a valid file with the
\* name; the call gets the first of them in the order of the directory.
ResolveSkill == {p \in DOMAIN skillFile : ValidateSkill(skillFile[p])}

\* ensure_target_path_absent: the two places that follow from the name.
EnsureTargetAbsent == skillFile["folder"] = NoSkill /\ skillFile["bare"] = NoSkill

\* SkillUpdateTool: the fields given replace those of the file found.
MergeSkill(old, meta, body) ==
    SkillText(IF meta = "keep" THEN old.meta ELSE meta, IF body = "keep" THEN old.body ELSE body)

\* skill_create up to the check that no skill of the name is known.
CreateSkill(c) ==
    /\ skillCall[c].at = "new"
    /\ \E meta \in Metas, body \in {c, "huge"} :
         skillCall' = [skillCall EXCEPT ![c] =
             [at |-> IF ResolveSkill # {} THEN "refused" ELSE "check",
              place |-> "folder", write |-> SkillText(meta, body)]]
    /\ UNCHANGED <<skillFile, lowerTiers, prompt, session, starts>>

\* The target may not exist and the assembled file has to be valid.
CheckNewSkill(c) ==
    /\ skillCall[c].at = "check"
    /\ skillCall' = [skillCall EXCEPT ![c].at =
           IF EnsureTargetAbsent /\ ValidateSkill(skillCall[c].write) THEN "make" ELSE "refused"]
    /\ UNCHANGED <<skillFile, lowerTiers, prompt, session, starts>>

MakeFolder(c) ==
    /\ skillCall[c].at = "make"
    /\ skillFile' = [skillFile EXCEPT !["folder"] = IF @ = NoSkill THEN Folder ELSE @]
    /\ skillCall' = [skillCall EXCEPT ![c].at = "truncate"]
    /\ UNCHANGED <<lowerTiers, prompt, session, starts>>

\* skill_update up to the write: read, merge, validate.
UpdateSkill(c) ==
    /\ skillCall[c].at = "new"
    /\ \/ /\ ResolveSkill = {}
          /\ skillCall' = [skillCall EXCEPT ![c].at = "refused"]
       \/ \E p \in ResolveSkill, meta \in {"keep", "manual"}, body \in {"keep", c, "huge"} :
            /\ <<meta, body>> # <<"keep", "keep">>
            /\ LET new == MergeSkill(skillFile[p], meta, body)
               IN skillCall' = [skillCall EXCEPT ![c] =
                      [at |-> IF ValidateSkill(new) THEN "truncate" ELSE "refused",
                       place |-> p, write |-> new]]
    /\ UNCHANGED <<skillFile, lowerTiers, prompt, session, starts>>

TruncateSkill(c) ==
    /\ skillCall[c].at = "truncate"
    /\ skillFile' = [skillFile EXCEPT ![skillCall[c].place] = Truncated]
    /\ skillCall' = [skillCall EXCEPT ![c].at = "fill"]
    /\ UNCHANGED <<lowerTiers, prompt, session, starts>>

\* Over a longer text of another call this one leaves the tail of it.
FillSkill(c) ==
    /\ skillCall[c].at = "fill"
    /\ LET p == skillCall[c].place new == skillCall[c].write
       IN skillFile' \in {[skillFile EXCEPT ![p] = s] :
              s \in {new} \cup IF skillFile[p] = Truncated THEN {} ELSE {[new EXCEPT !.body = "mixed"]}}
    /\ skillCall' = [skillCall EXCEPT ![c].at = "done"]
    /\ UNCHANGED <<lowerTiers, prompt, session, starts>>

\* A call that ends before it has written: "cut" where the file was truncated
\* already.
Unwritten(k) == [k EXCEPT !.at = IF @ = "fill" THEN "cut" ELSE "killed"]

\* create_dir_all or write fails, and the call with it.
SkillWriteFails(c) ==
    /\ skillCall[c].at \in {"make", "truncate", "fill"}
    /\ skillCall' = [skillCall EXCEPT ![c] = Unwritten(@)]
    /\ UNCHANGED <<skillFile, lowerTiers, prompt, session, starts>>

-----------------------------------------------------------------------------
\* Mutant: a tier does not replace a definition found before it.
DiscoverSkillFirst ==
    {s \in {lowerTiers[i] : i \in 1..4} : ValidateSkill(s)} \cup {skillFile[p] : p \in ResolveSkill}

\* What a tier below the workspace adds: an invalid file is skipped.
TierSkill(i) == IF ValidateSkill(lowerTiers[i]) THEN {lowerTiers[i]} ELSE {}

\* discover_skills: valid definitions, a later tier replacing an earlier one.
DiscoverSkill ==
    IF ResolveSkill # {} THEN {skillFile[p] : p \in ResolveSkill}
    ELSE LET found == {i \in 1..4 : TierSkill(i) # {}}
         IN IF found = {} THEN {} ELSE TierSkill(CHOOSE i \in found : \A j \in found : j <= i)

\* is_tool_ready: of the tools a skill may require, the shell.
IsToolReady(s, shellReady) == s.meta = "shell" => shellReady

\* evaluate_activation.
ActivateSkill(s, shellReady) == s.meta # "manual" /\ IsToolReady(s, shellReady)

\* load_and_render_skills.
LoadSkills(shellReady) ==
    IF DiscoverSkill = {} THEN {NoSkill}
    ELSE {IF ActivateSkill(s, shellReady) THEN s ELSE NoSkill : s \in DiscoverSkill}

\* The guest ends, wherever its calls are, and a new one builds its prompt.
StartGuest ==
    /\ starts < MaxStarts /\ starts' = starts + 1
    /\ skillCall' = [c \in SkillCalls |->
           IF skillCall[c].at \in {"new", "refused", "done", "killed", "cut"} THEN skillCall[c]
           ELSE Unwritten(skillCall[c])]
    /\ \E shellReady \in BOOLEAN : prompt' \in LoadSkills(shellReady)
    /\ UNCHANGED <<skillFile, lowerTiers, session>>

\* A new session of the gateway gets the prompt of the guest.
StartSession ==
    /\ starts > 0
    /\ session' \in {[saw |-> prompt, disk |-> d] : d \in DiscoverSkill \cup {NoSkill}}
    /\ session'.disk = NoSkill <=> DiscoverSkill = {}
    /\ UNCHANGED <<skillFile, lowerTiers, skillCall, prompt, starts>>

SkillsNext ==
    \/ \E c \in SkillCalls : \/ CreateSkill(c) \/ CheckNewSkill(c) \/ MakeFolder(c) \/ UpdateSkill(c)
                             \/ TruncateSkill(c) \/ FillSkill(c) \/ SkillWriteFails(c)
    \/ StartGuest \/ StartSession

SkillsSpec == SkillsInit /\ [][SkillsNext]_skillVars

-----------------------------------------------------------------------------
\* Whatever creations and updates overlap, and wherever they fail or a guest is
\* killed, the skill has one of the two files that follow from its name: one
\* that another call is just rewriting, and so cannot be parsed, still stops
\* its creation.  Next to a file with another name it gets a second one only
\* when an update wrote that file meanwhile or left it cut.
SkillHasOneFile ==
    /\ skillFile["folder"] = NoSkill \/ skillFile["bare"] = NoSkill
    /\ skillFile["other"] # NoSkill /\ skillFile["folder"] # NoSkill =>
         \E c \in SkillCalls : skillCall[c].place = "other"

\* skill_tools.rs:348-357, "a skill named '{}' already exists in the workspace.
\* Use skill_update to modify it."  Not kept beside a file with another name.
OneFilePerName == \A p, q \in SkillPlaces : skillFile[p] # NoSkill /\ skillFile[q] # NoSkill => p = q

\* A guest that starts while no call has the file truncated, and after none
\* that failed or was killed there, takes a definition of the workspace: a
\* reported skill is loaded, with one call's fields or a mixture of two
\* overlapping ones, also when other calls failed or were killed before and
\* after their writes, and lower tiers and invalid text never show through.
LoadsReported ==
    (/\ starts' # starts
     /\ \A c \in SkillCalls : skillCall[c].at \notin {"fill", "cut"}
     /\ \E c \in SkillCalls : skillCall[c].at = "done")
    => ResolveSkill # {} /\ prompt' \in {NoSkill} \cup {skillFile[p] : p \in ResolveSkill}
ReportedSkillLoads == [][LoadsReported]_skillVars

\* What the tools tell: a skill is active in the next session.  The prompt
\* is built when the guest starts and a session gets the guest's.
NextSessionHasSkill ==
    (session.disk # NoSkill /\ session.disk.meta = "always") => session.saw = session.disk

\* A skill has one file of its name, up to an update of a file with another, and
\* once one was reported to be stored a guest that starts loads the workspace's
\* definition, up to a write that was cut.
SkillsStored == []SkillHasOneFile /\ ReportedSkillLoads

-----------------------------------------------------------------------------
(* The inductive invariant of SkillsStored.                                 *)

SkillsTypes ==
    /\ skillFile = [p \in SkillPlaces |-> skillFile[p]]
    /\ skillCall = [c \in SkillCalls |-> skillCall[c]]
    /\ \A c \in SkillCalls :
         /\ skillCall[c] = [at |-> skillCall[c].at, place |-> skillCall[c].place,
                            write |-> skillCall[c].write]
         /\ skillCall[c].place \in SkillPlaces
         /\ skillCall[c].at \in {"check", "make", "truncate", "fill"} =>
              skillCall[c].write = SkillText(skillCall[c].write.meta, skillCall[c].write.body)

\* A call that got past the checks writes valid text, to a file that is there
\* already or to the folder where no bare file is.
WritersChecked ==
    \A c \in SkillCalls :
        /\ skillCall[c].at \in {"make", "truncate", "fill"} => ValidateSkill(skillCall[c].write)
        /\ skillCall[c].at \in {"new", "check", "make"} => skillCall[c].place = "folder"
        /\ skillCall[c].at = "make" => skillFile["bare"] = NoSkill
        /\ skillCall[c].at \in {"truncate", "fill"} => skillFile[skillCall[c].place] # NoSkill

\* The file with another name cannot be read, and a creation beside it goes on,
\* only when a call has been writing it.
OtherKept ==
    skillFile["other"] # NoSkill /\ (\A c \in SkillCalls : skillCall[c].place # "other") =>
        /\ ValidateSkill(skillFile["other"])
        /\ skillFile["folder"] = NoSkill /\ skillFile["bare"] = NoSkill
        /\ \A c \in SkillCalls : skillCall[c].at \in {"new", "refused"}

\* Once a skill was reported, its file is valid unless a call is just
\* rewriting it or was killed while it did.
DoneOrRewriting ==
    (\E c \in SkillCalls : skillCall[c].at = "done") =>
        ResolveSkill # {} \/ \E c \in SkillCalls : skillCall[c].at \in {"fill", "cut"}

SkillsInv == SkillsTypes /\ SkillHasOneFile /\ WritersChecked /\ OtherKept /\ DoneOrRewriting
=============================================================================
