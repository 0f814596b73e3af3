------------------------------ MODULE MCTools -------------------------------
\* The memory store, the scheduler and the tools, by parts that share no
\* state, in one model: `part` says which of them runs.
EXTENDS MemoryStore, FileTools, WebTools, Skills, Browser,
        Scheduler, ScheduleQueries

VARIABLE part

MCTexts == {<<"x">>, <<"x", "y">>}

MCVars == <<schemaVars, memoryVars, fileVars, webVars, skillVars, browserVars, vars, queryVars, part>>

\* The parts that do not run are in one of their initial states.
MCInit ==
    /\ part \in {"schema", "memory", "file", "web", "skills", "browser", "scheduler", "queries"}
    /\ SchemaInit /\ MemoryInit /\ Init
    /\ FileInit /\ (part # "file" => guarded)
    /\ WebInit /\ (part # "web" => webCall = CHOOSE s \in Settings : ~s.strict)
    /\ SkillsInit /\ (part # "skills" => (\A p \in SkillPlaces : skillFile[p] = NoSkill) /\ lowerTiers[1] = NoSkill)
    /\ BrowserInit /\ (part # "browser" => tabs = <<>> /\ \A s \in Scripts : tabbed[s].owner = "s1")
    /\ QueryInit /\ (part # "queries" => stored = {} /\ output = <<>> /\ reading.by = "bytes")

\* The parts that do not run.
MCRest ==
    /\ UNCHANGED part
    /\ IF part = "schema" THEN TRUE ELSE UNCHANGED schemaVars
    /\ IF part = "memory" THEN TRUE ELSE UNCHANGED memoryVars
    /\ IF part = "file" THEN TRUE ELSE UNCHANGED fileVars
    /\ IF part = "web" THEN TRUE ELSE UNCHANGED webVars
    /\ IF part = "skills" THEN TRUE ELSE UNCHANGED skillVars
    /\ IF part = "browser" THEN TRUE ELSE UNCHANGED browserVars
    /\ IF part = "scheduler" THEN TRUE ELSE UNCHANGED vars
    /\ IF part = "queries" THEN TRUE ELSE UNCHANGED queryVars

MCNext ==
    /\ MCRest
    /\ \/ part = "schema" /\ SchemaNext
       \/ part = "memory" /\ MemoryNext
       \/ part = "file" /\ FileNext
       \/ part = "web" /\ WebNext
       \/ part = "skills" /\ SkillsNext
       \/ part = "browser" /\ BrowserNext
       \/ part = "scheduler" /\ Next
       \/ part = "queries" /\ QueryNext

\* The fairness of FairSpec, where the scheduler runs.
MCSpec ==
    /\ MCInit /\ [][MCNext]_MCVars
    /\ WF_vars(part = "scheduler" /\ Tick)
    /\ \A id \in Ids : WF_vars(part = "scheduler" /\ RunStep(id))

\* What the users of a schedule rely on: when it is due it is run, as long as
\* the executor lives, a search whose pages nothing shifts lists every match,
\* and reading an output from chunk to chunk, counted in bytes, gets on
\* and yields the output.
SchedulesServed == DueIsRun /\ []QueriesExact /\ ReadingAdvances
=============================================================================
