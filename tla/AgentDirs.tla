----------------------------- MODULE AgentDirs -----------------------------
(***************************************************************************)
(* Package agentdir: an application described by files.  A directory is    *)
(* loaded into a bundle of contributions, a manifest names several of      *)
(* them, and Validate reports what would go wrong.                         *)
(*                                                                         *)
(* A file system is a function from directories (sequences of names) to    *)
(* the sequence of their entries, [name, ext, doc]; an entry with ext      *)
(* "dir" is a directory with a SKILL.md, whose doc it has.  A doc is      *)
(* [ok |-> FALSE] when it cannot be parsed, and its fields otherwise, as   *)
(* values of Apps (a frontmatter that is missing has no fields).           *)
(***************************************************************************)
EXTENDS Apps
LOCAL INSTANCE SequencesExt
LOCAL INSTANCE FiniteSetsExt

mapFromAny(raw) == IF raw.is = "map" THEN raw.v ELSE <<>>
sliceFromAny(raw) == IF raw.is = "list" THEN raw.v ELSE <<>>
Text(s) == [is |-> "text", v |-> s]
Map(m) == [is |-> "map", v |-> m]
With(m, key, x) == [k \in DOMAIN m \cup {key} |-> IF k = key THEN x ELSE m[k]]
Or(s, default) == IF s = "" THEN default ELSE s

Entries(fs, dir) == IF dir \in DOMAIN fs THEN fs[dir] ELSE <<>>
WithExt(entries, ext) == SelectSeq(entries, LAMBDA e : e.ext = ext)

\* One(entry) for every entry of a directory; the first failure ends it.
LoadEach(entries, One(_)) ==
  LET out == [i \in DOMAIN entries |-> IF entries[i].doc.ok THEN One(entries[i]) ELSE Err("parse")]
  IN IF \E i \in DOMAIN out : ~out[i].ok THEN Err("parse")
     ELSE Ok([i \in DOMAIN out |-> out[i].value])
\* Op(dir) for every directory of a list, the results in one sequence.
LoadDirs(dirs, Op(_)) ==
  LET out == [i \in DOMAIN dirs |-> Op(dirs[i])]
  IN IF \E i \in DOMAIN out : ~out[i].ok THEN Err("parse")
     ELSE Ok(FlattenSeq([i \in DOMAIN out |-> out[i].value]))

----------------------------------------------------------------------------
(* Agents *)

\* stringList: a list of names, or one text with commas, given by its parts.
stringList(raw) ==
  CASE raw.is = "nil" -> Ok(<<>>)
    [] raw.is \in {"list", "csv"} ->
         Ok(SelectSeq([i \in DOMAIN raw.v |-> stringFromAny(raw.v[i])], LAMBDA s : s # ""))
    [] raw.is = "text" -> Ok(SelectSeq(<<raw.v>>, LAMBDA s : s # ""))
    [] OTHER -> Err("list")

capabilityEntry(raw) ==
  IF raw.is = "map"
  THEN [capability |-> stringFromAny(At(raw.v, "name")),
        instance |-> Or(stringFromAny(At(raw.v, "instance-id")), "default")]
  ELSE [capability |-> stringFromAny(raw), instance |-> "default"]
capabilityList(raw) ==
  LET items == IF raw.is = "text" THEN <<raw>>
               ELSE IF raw.is \in {"list", "csv"} THEN raw.v ELSE <<>>
  IN IF raw.is \in {"int", "bool", "map"} THEN Err("list")
     ELSE Ok(SelectSeq([i \in DOMAIN items |-> capabilityEntry(items[i])],
                       LAMBDA c : c.capability # ""))

\* AutoCompactionFrontmatter.validate and config; the ratio is in percent.
validateCompaction(m) ==
  /\ intFromAny(At(m, "token-threshold")) = 0
  /\ intFromAny(At(m, "context-window-ratio")) \in 0..100
  /\ intFromAny(At(m, "keep-window")) >= 0
compactionConfig(m) ==
  [enabled |-> At(m, "enabled").is = "nil" \/ boolFromAny(At(m, "enabled")),
   ratio |-> intFromAny(At(m, "context-window-ratio")), keep |-> intFromAny(At(m, "keep-window"))]

\* DefaultInferenceOptions; the other options are treated like these.
DefaultInference == [model |-> "default", effort |-> "medium"]

parseAgentSpec(entry) ==
  LET doc    == entry.doc.fields
      tools  == stringList(At(doc, "tools"))
      skills == stringList(At(doc, "skills"))
      cmds   == stringList(At(doc, "commands"))
      roots  == stringList(At(doc, "skill-sources"))
      caps   == capabilityList(At(doc, "capabilities"))
      auto   == mapFromAny(At(doc, "auto-compaction"))
  IN IF ~(tools.ok /\ skills.ok /\ cmds.ok /\ roots.ok /\ caps.ok) \/ ~validateCompaction(auto)
     THEN Err("parse")
     ELSE Ok([name |-> Or(stringFromAny(At(doc, "name")), entry.name),
              inference |-> [model |-> Or(stringFromAny(At(doc, "model")), DefaultInference.model),
                             effort |-> Or(stringFromAny(At(doc, "effort")), DefaultInference.effort)],
              maxSteps |-> intFromAny(At(doc, "max-steps")),
              tools |-> tools.value, skills |-> skills.value, commands |-> cmds.value,
              capabilities |-> caps.value, roots |-> roots.value,
              autoSet |-> At(doc, "auto-compaction").is # "nil", auto |-> compactionConfig(auto),
              hasFrontmatter |-> DOMAIN doc # {}, system |-> entry.doc.body])

\* AGENTS.md beside the agent's file and in every directory above it.
instructionPathsForAgentFile(dir) ==
  [i \in 1..(Len(dir) + 1) |-> SubSeq(dir, 1, Len(dir) + 1 - i)]

loadSkillContributions(fs, dir) ==
  LoadEach(WithExt(Entries(fs, dir), "dir"),
           LAMBDA e : Ok([name |-> Or(stringFromAny(At(e.doc.fields, "name")), e.name),
                          path |-> Append(dir, e.name)]))

\* The root "." is skipped; any other one lies below the agent's directory.
skillSourcesFromFrontmatter(fs, dir, roots) ==
  LET below  == SelectSeq(roots, LAMBDA r : r # ".")
      loaded == LoadDirs(below, LAMBDA r : loadSkillContributions(fs, Append(dir, r)))
  IN IF ~loaded.ok THEN loaded
     ELSE Ok([sources |-> [i \in DOMAIN below |-> Append(dir, below[i])], skills |-> loaded.value])

loadAgentSpecs(fs, dir, by) ==
  LET One(e) ==
        LET spec  == parseAgentSpec(e)
            skill == skillSourcesFromFrontmatter(fs, dir, spec.value.roots)
        IN IF ~spec.ok THEN spec
           ELSE IF ~skill.ok THEN skill
           ELSE Ok([spec |-> [name |-> spec.value.name, by |-> by, from |-> <<by>>,
                              tools |-> spec.value.tools, skills |-> spec.value.skills, commands |-> spec.value.commands,
                              skillSources |-> skill.value.sources,
                              inference |-> spec.value.inference, maxSteps |-> spec.value.maxSteps,
                              system |-> spec.value.system,
                              hasFrontmatter |-> spec.value.hasFrontmatter,
                              instructions |-> instructionPathsForAgentFile(dir)],
                    skills |-> skill.value.skills])
  IN LoadEach(WithExt(Entries(fs, dir), "md"), One)

----------------------------------------------------------------------------
(* Commands, workflows, triggers, actions, data sources *)

\* markdown.New and LoadFS; the command's template is not modelled.
markdownCommands(fs, dir, by) ==
  LoadEach(WithExt(Entries(fs, dir), "md"),
    LAMBDA e : LET doc == e.doc.fields
      IN Ok([name |-> Or(stringFromAny(At(doc, "name")), e.name),
             aliases |-> Range(stringSliceFromAny(At(doc, "aliases"))), by |-> by,
             policy |-> [user |-> boolFromAny(At(doc, "user-callable")),
                         agent |-> boolFromAny(At(doc, "agent-callable")),
                         internal |-> boolFromAny(At(doc, "internal"))]]))

BoolOr(m, key, default) == IF At(m, key).is = "bool" THEN At(m, key).v ELSE default
commandPolicy(m) ==
  [user |-> BoolOr(m, "user_callable", TRUE), agent |-> BoolOr(m, "agent_callable", FALSE),
   internal |-> BoolOr(m, "internal", FALSE)]

workflowContributionFromDefinition(name, definition, by) ==
  [name |-> name, by |-> by, definition |-> definition]

\* commandTargetFromMap: a workflow by name or inline, an action or a prompt.
commandTargetFromMap(target, owner, by) ==
  LET w    == At(target, "workflow")
      name == Or(stringFromAny(At(mapFromAny(w), "name")), owner \o "_workflow")
      T(kind, n, inline) == Ok([kind |-> kind, name |-> n, inline |-> inline])
  IN IF "workflow" \in DOMAIN target
     THEN IF w.is = "map"
          THEN T("workflow", name,
                 <<workflowContributionFromDefinition(name, With(w.v, "name", Text(name)), by)>>)
          ELSE IF stringFromAny(w) = "" THEN Err("target") ELSE T("workflow", stringFromAny(w), <<>>)
     ELSE IF stringFromAny(At(target, "action")) # ""
          THEN T("action", stringFromAny(At(target, "action")), <<>>)
     ELSE IF stringFromAny(At(target, "prompt")) # "" THEN T("prompt", "", <<>>)
     ELSE Err("target")

loadCommandContributions(fs, dir, by) ==
  LET One(e) ==
        LET doc    == e.doc.fields
            name   == Or(stringFromAny(At(doc, "name")), e.name)
            path   == stringSliceFromAny(At(doc, "path"))
            target == commandTargetFromMap(mapFromAny(At(doc, "target")), name, by)
        IN IF ~target.ok THEN target
           ELSE Ok([command |-> [name |-> name, path |-> IF path = <<>> THEN <<name>> ELSE path,
                                 policy |-> commandPolicy(mapFromAny(At(doc, "policy"))),
                                 kind |-> target.value.kind, target |-> target.value.name],
                    workflows |-> target.value.inline])
  IN LoadEach(WithExt(Entries(fs, dir), "yaml"), One)

\* The commands and triggers a workflow's file asks for ("expose").
workflowExposures(w) ==
  LET expose == mapFromAny(At(w.definition, "expose"))
      Maps(key) == SelectSeq(sliceFromAny(At(expose, key)),
                             LAMBDA x : x.is = "map" /\ DOMAIN x.v # {})
      cmds  == Maps("commands")
      trigs == Maps("triggers")
  IN [commands |-> [i \in DOMAIN cmds |->
        LET m    == cmds[i].v
            name == Or(stringFromAny(At(m, "name")), w.name)
            path == stringSliceFromAny(At(m, "path"))
        IN [name |-> name, path |-> IF path = <<>> THEN <<name>> ELSE path,
            policy |-> commandPolicy(mapFromAny(At(m, "policy"))),
            kind |-> "workflow", target |-> w.name]],
      triggers |-> [i \in DOMAIN trigs |->
        LET m == trigs[i].v
        IN [name |-> Or(stringFromAny(At(m, "id")), w.name \o "-trigger"),
            target |-> With(mapFromAny(At(m, "target")), "workflow", Text(w.name)),
            definition |-> m]]]

loadWorkflowContributions(fs, dir, by) ==
  LET One(e) ==
        LET w == [name |-> Or(stringFromAny(At(e.doc.fields, "name")), e.name), by |-> by,
                  definition |-> e.doc.fields]
        IN Ok([workflow |-> w, commands |-> workflowExposures(w).commands,
               triggers |-> workflowExposures(w).triggers])
  IN LoadEach(WithExt(Entries(fs, dir), "yaml"), One)

\* Mutant: the trigger keeps the workflow as it was written.
normalizeInlineWorkflowTargetKept(doc, owner, by) ==
  LET target == mapFromAny(At(doc, "target"))
      w      == At(target, "workflow")
      name   == Or(stringFromAny(At(mapFromAny(w), "name")), owner \o "_workflow")
  IN [target |-> target,
      workflows |-> IF w.is # "map" THEN <<>>
                    ELSE <<workflowContributionFromDefinition(name, With(w.v, "name", Text(name)), by)>>]

\* normalizeInlineWorkflowTarget: an inline workflow becomes a contribution
\* and the trigger refers to it by name.
normalizeInlineWorkflowTarget(doc, owner, by) ==
  LET target == mapFromAny(At(doc, "target"))
      w      == At(target, "workflow")
      name   == Or(stringFromAny(At(mapFromAny(w), "name")), owner \o "_workflow")
  IN IF w.is # "map" THEN [target |-> target, workflows |-> <<>>]
     ELSE [target |-> With(target, "workflow", Text(name)),
           workflows |-> <<workflowContributionFromDefinition(name,
                             With(w.v, "name", Text(name)), by)>>]

loadTriggerContributions(fs, dir, by) ==
  LET One(e) ==
        LET doc    == e.doc.fields
            name   == Or(stringFromAny(At(doc, "id")), Or(stringFromAny(At(doc, "name")), e.name))
            inline == normalizeInlineWorkflowTarget(doc, name, by)
        IN Ok([trigger |-> [name |-> name, target |-> inline.target, definition |-> doc],
               workflows |-> inline.workflows])
  IN LoadEach(WithExt(Entries(fs, dir), "yaml"), One)

KindedOne(e) ==
  Ok([name |-> Or(stringFromAny(At(e.doc.fields, "name")), e.name),
      kind |-> Or(stringFromAny(At(e.doc.fields, "kind")), stringFromAny(At(e.doc.fields, "type")))])
loadActionContributions(fs, dir) == LoadEach(WithExt(Entries(fs, dir), "yaml"), KindedOne)
loadDataSourceContributions(fs, dir) == LoadEach(WithExt(Entries(fs, dir), "yaml"), KindedOne)

----------------------------------------------------------------------------
(* A directory *)

EmptyBundle(source) ==
  [source |-> source, commands |-> <<>>, commandResources |-> <<>>, agentSpecs |-> <<>>,
   skills |-> <<>>, skillSources |-> <<>>, dataSources |-> <<>>, workflows |-> <<>>,
   actions |-> <<>>, triggers |-> <<>>, tools |-> <<>>, diagnostics |-> <<>>]

\* stampResourceIDs
stampResourceIDs(b, source) ==
  LET Stamp(kind, seq) ==
        [i \in DOMAIN seq |-> With(seq[i], "rid", DeriveResourceID(source, kind, seq[i].name, <<>>))]
  IN [b EXCEPT !.commandResources = Stamp("command", @), !.skills = Stamp("skill", @),
               !.dataSources = Stamp("datasource", @), !.workflows = Stamp("workflow", @),
               !.actions = Stamp("action", @), !.triggers = Stamp("trigger", @),
               !.tools = Stamp("tool", @)]

Roots3(name) == <<<<".agents", name>>, <<".claude", name>>, <<name>>>>
Roots2(name) == <<<<".agents", name>>, <<name>>>>
Pluck(seq, field) == [i \in DOMAIN seq |-> seq[i][field]]
Flat(seq, field) == FlattenSeq(Pluck(seq, field))

LoadFSWithSource(fs, source, by) ==
  LET md     == LoadDirs(Roots3("commands"), LAMBDA d : markdownCommands(fs, d, by))
      cmds   == LoadDirs(Roots3("commands"), LAMBDA d : loadCommandContributions(fs, d, by))
      agents == LoadDirs(Roots3("agents"), LAMBDA d : loadAgentSpecs(fs, d, by))
      data   == LoadDirs(Roots2("datasources"), LAMBDA d : loadDataSourceContributions(fs, d))
      flows  == LoadDirs(Roots2("workflows"), LAMBDA d : loadWorkflowContributions(fs, d, by))
      acts   == LoadDirs(Roots2("actions"), LAMBDA d : loadActionContributions(fs, d))
      trigs  == LoadDirs(Roots2("triggers"), LAMBDA d : loadTriggerContributions(fs, d, by))
      skillDirs == SelectSeq(Roots3("skills"), LAMBDA d : d \in DOMAIN fs)
      skills == LoadDirs(skillDirs, LAMBDA d : loadSkillContributions(fs, d))
  IN IF ~(md.ok /\ cmds.ok /\ agents.ok /\ data.ok /\ flows.ok /\ acts.ok /\ trigs.ok /\ skills.ok)
     THEN Err("load")
     ELSE Ok(stampResourceIDs([EmptyBundle(source) EXCEPT
            !.commands = md.value,
            !.commandResources = Pluck(cmds.value, "command") \o Flat(flows.value, "commands"),
            !.workflows = Flat(cmds.value, "workflows") \o Pluck(flows.value, "workflow")
                          \o Flat(trigs.value, "workflows"),
            !.agentSpecs = Pluck(agents.value, "spec"),
            !.skills = Flat(agents.value, "skills") \o skills.value,
            !.skillSources = skillDirs, !.dataSources = data.value, !.actions = acts.value,
            !.triggers = Flat(flows.value, "triggers") \o Pluck(trigs.value, "trigger")], source))
=============================================================================
