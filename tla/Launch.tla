------------------------------- MODULE Launch -------------------------------
(***************************************************************************)
(* From a command line to a running agent: the flags (terminal/cli), the   *)
(* resources of several directories, the choice and the overrides of the   *)
(* agent, the plugins, the model policy and its route (harness/load.go,    *)
(* agent/model_route.go), and the triggers of "serve" (cmd/agentsdk).      *)
(*                                                                         *)
(* A flag is the set of its value, empty when it was not given.  The       *)
(* environment, env, is [plugins, client, route, sessions]: the plugins by *)
(* name, whether the host brings its own model client, what compatibility  *)
(* the route of every model has, and the session files.                    *)
(***************************************************************************)
EXTENDS AppConfig
LOCAL INSTANCE SequencesExt
LOCAL INSTANCE FiniteSets

Given(flag) == flag # {}

----------------------------------------------------------------------------
(* Flags: the RunE function of NewCommand *)

\* The model policy of the flags and the profile: none, or one.
flagModelPolicy(flags, profile) ==
  LET p       == profile.modelPolicy
      changed == Given(flags.useCase) \/ Given(flags.approvedOnly) \/ Given(flags.allowDegraded)
                 \/ Given(flags.allowUntested) \/ Given(flags.evidence)
      useCase == ParseModelUseCase(Override(flags.useCase, p.useCase))
      api     == ParseSourceAPI(Override(flags.sourceAPI, "auto"))
      only    == Override(flags.approvedOnly, p.approvedOnly)
  IN IF ~(Configured(p) \/ changed) THEN Ok({})
     ELSE IF ~useCase.ok THEN useCase
     ELSE IF ~api.ok THEN api
     ELSE Ok({[useCase |-> IF only /\ useCase.value = "" THEN "agentic_coding" ELSE useCase.value,
               sourceAPI |-> IF Given(flags.sourceAPI) THEN api.value ELSE p.sourceAPI,
               approvedOnly |-> only,
               allowDegraded |-> Override(flags.allowDegraded, p.allowDegraded),
               allowUntested |-> Override(flags.allowUntested, p.allowUntested),
               evidence |-> Override(flags.evidence, p.evidence)]})

\* One flag for the inference replaces all its options.
flagInference(flags, profile) ==
  IF ~(Given(flags.model) \/ Given(flags.effort)) THEN {}
  ELSE {[model |-> Override(flags.model, profile.inference.model),
         effort |-> Override(flags.effort, profile.inference.effort)]}

----------------------------------------------------------------------------
(* Resources: terminal/cli/resources.go *)

\* The first is the primary one: its manifest and default agent win.
MergeResolutions(results) ==
  IF \E i \in DOMAIN results : ~results[i].ok THEN Err("resolve")
  ELSE Ok(FoldLeft(LAMBDA r, other : [r EXCEPT !.bundle = BundleAppend(@, other.value.bundle),
                                               !.sources = @ \o other.value.sources],
                   results[1].value, Tail(results)))

ResolveDirs(worlds, policy) ==
  [i \in DOMAIN worlds |-> ResolveDirWithOptions(worlds[i], [policy |-> policy, localOnly |-> FALSE])]
MultiDirResources(worlds, policy) == MergeResolutions(ResolveDirs(worlds, policy))

ResolveFS(fs) ==
  LET b == LoadFSWithSource(fs, [scope |-> "embedded", ecosystem |-> "agents", root |-> <<"root">>], "embedded")
  IN IF b.ok THEN Ok([EmptyResolution EXCEPT !.bundle = b.value, !.sources = <<<<"root">>>>]) ELSE b
ResolveAllFS(embedded) == [i \in DOMAIN embedded |-> ResolveFS(embedded[i])]
MultiEmbeddedResources(embedded) == MergeResolutions(ResolveAllFS(embedded))
MultiEmbeddedWithDirResources(embedded, worlds, policy) ==
  MergeResolutions(ResolveAllFS(embedded) \o ResolveDirs(worlds, policy))

\* Which of them a command line uses.
chooseResources(hints, worlds, policy) ==
  IF hints.embedded # <<>> /\ hints.embeddedOnly THEN MultiEmbeddedResources(hints.embedded)
  ELSE IF hints.embedded # <<>> THEN MultiEmbeddedWithDirResources(hints.embedded, worlds, policy)
  ELSE MultiDirResources(worlds, policy)

----------------------------------------------------------------------------
(* harness/load.go *)

FallbackSpec == [name |-> "default", by |-> "local_cli", from |-> <<>>, tools |-> <<>>, skills |-> <<>>,
                 commands |-> <<>>, skillSources |-> <<>>, hasFrontmatter |-> FALSE,
                 instructions |-> <<>>, inference |-> [model |-> "", effort |-> ""],
                 maxSteps |-> 0, system |-> "fallback"]
EnsureFallbackAgent(r, requested, enabled) ==
  IF ~enabled \/ requested # "" \/ r.bundle.agentSpecs # <<>> THEN r
  ELSE [r EXCEPT !.bundle.agentSpecs = <<FallbackSpec>>, !.defaultAgent = FallbackSpec.name]

\* ResolvePlugins: defaults, the manifest's, then the flags'; each name once.
ResolvePlugins(defaults, manifest, explicit, factory) ==
  LET names == FoldLeft(LAMBDA seen, n : IF n = "" \/ n \in Range(seen) THEN seen ELSE Append(seen, n),
                        <<>>, defaults \o manifest \o explicit)
  IN IF ~(Range(names) \subseteq DOMAIN factory) THEN Err("plugin")
     ELSE Ok([i \in DOMAIN names |-> factory[names[i]]])

\* Mutant: what the command line says about approval replaces the manifest's.
overlayModelPolicyReplace(base, override) ==
  [useCase |-> Or(override.useCase, base.useCase), sourceAPI |-> Or(override.sourceAPI, base.sourceAPI),
   approvedOnly |-> override.approvedOnly,
   allowDegraded |-> base.allowDegraded \/ override.allowDegraded,
   allowUntested |-> base.allowUntested \/ override.allowUntested,
   evidence |-> IF override.evidence = <<>> THEN base.evidence ELSE override.evidence]

\* overlayModelPolicy: a switch that is on stays on.
overlayModelPolicy(base, override) ==
  [useCase |-> Or(override.useCase, base.useCase), sourceAPI |-> Or(override.sourceAPI, base.sourceAPI),
   approvedOnly |-> base.approvedOnly \/ override.approvedOnly,
   allowDegraded |-> base.allowDegraded \/ override.allowDegraded,
   allowUntested |-> base.allowUntested \/ override.allowUntested,
   evidence |-> IF override.evidence = <<>> THEN base.evidence ELSE override.evidence]

ResolveAgentLoadConfig(r, policy, sourceAPI) ==
  LET base   == Override(r.modelPolicy, NoPolicy)
      over   == Override(policy, NoPolicy)
      merged == IF r.modelPolicy = {} THEN over
                ELSE IF policy = {} THEN base
                ELSE overlayModelPolicy(base, over)
  IN [sourceAPI |-> sourceAPI,
      modelPolicy |-> IF r.modelPolicy = {} /\ policy = {} THEN {}
                      ELSE {[merged EXCEPT !.sourceAPI = Override(sourceAPI, @)]}]

\* PrepareResolvedAgent: the agent's name and the resolution with its overrides.
PrepareResolvedAgent(r, requested, over) ==
  LET name == ResolveDefaultAgent(AgentNames(r), requested, r.defaultAgent)
      updated == UpdateAgentSpec(r, name.value, [spec \in Range(r.bundle.agentSpecs) |->
                   [spec EXCEPT !.inference = Override(over.inference, @),
                                !.maxSteps = Override(over.maxSteps, @),
                                !.system = Or(over.system, @)]])
  IN IF ~name.ok THEN name
     ELSE IF ~updated.ok THEN updated
     ELSE Ok([name |-> name.value, resolution |-> updated.value])

hasResourceBundle(b) ==
  b.source # NoSource \/ b.commands # <<>> \/ b.agentSpecs # <<>> \/ b.dataSources # <<>>
  \/ b.workflows # <<>> \/ b.skillSources # <<>> \/ b.diagnostics # <<>>

\* sessionAppOptions, as a configuration of Apps.
sessionAppOptions(bundle, name, plugins) ==
  [defaultAgent |-> name, catalogTools |-> <<>>, middlewares |-> <<"risk">>, defaultTools |-> <<>>,
   commands |-> <<>>, actions |-> <<>>, dataSources |-> <<>>, workflows |-> <<>>, specs |-> <<>>,
   bundles |-> IF hasResourceBundle(bundle) THEN <<bundle>> ELSE <<>>, plugins |-> plugins]

----------------------------------------------------------------------------
(* The agent: WithSpec and the route of its model *)

\* New and WithSpec: what the spec leaves out has a default.
newAgent(spec) ==
  [name |-> spec.name, by |-> spec.by,
   inference |-> IF spec.inference = [model |-> "", effort |-> ""] THEN DefaultInference ELSE spec.inference,
   maxSteps |-> IF spec.maxSteps > 0 THEN spec.maxSteps ELSE 30,
   system |-> spec.system]

\* ModelPolicy.LLMUseCase
LLMUseCase(policy) ==
  IF policy.useCase = "" /\ policy.approvedOnly THEN "agentic_coding" ELSE policy.useCase

\* autoMuxSourceAPI: the API the router is made for; "" lets it choose.
autoMuxSourceAPI(policy, sourceAPI) ==
  IF Configured(policy) /\ policy.sourceAPI # "" THEN policy.sourceAPI
  ELSE IF Configured(policy) /\ ~Given(sourceAPI) THEN ""
  ELSE Override(sourceAPI, "responses")

\* LoadCompatibilityEvidence: a file, or what is built in for one use case.
LoadCompatibilityEvidence(policy) ==
  policy.evidence # <<>> \/ LLMUseCase(policy) \in {"", "agentic_coding"}

\* SelectModelForUseCase of the model router (external): the compatibility of
\* the model's route decides.
SelectModelForUseCase(compatibility, allowDegraded, allowUntested) ==
  \/ compatibility = "approved"
  \/ compatibility = "degraded" /\ allowDegraded
  \/ compatibility = "untested" /\ allowUntested

\* applyApprovedOnlyModelPolicy: the selected route is the only one.
applyApprovedOnlyModelPolicy(policy, env, model) ==
  IF /\ LoadCompatibilityEvidence(policy)
     /\ SelectModelForUseCase(env.route[model], policy.allowDegraded, policy.allowUntested)
  THEN Ok([pinned |-> TRUE, compatibility |-> env.route[model]])
  ELSE Err("not approved")

\* applyEvaluationModelPolicy: only tells; it never fails.
applyEvaluationModelPolicy(policy, env, model) ==
  Ok([pinned |-> FALSE,
      compatibility |-> IF env.route[model] = "none" THEN "unavailable" ELSE env.route[model]])

applyModelPolicy(policy, env, model) ==
  IF ~Configured(policy) \/ LLMUseCase(policy) = "" THEN Ok([pinned |-> FALSE, compatibility |-> ""])
  ELSE IF policy.approvedOnly THEN applyApprovedOnlyModelPolicy(policy, env, model)
  ELSE applyEvaluationModelPolicy(policy, env, model)

\* applyModelPolicyWithoutAutoResult
applyModelPolicyWithoutAutoResult(policy) ==
  IF LLMUseCase(policy) # "" /\ policy.approvedOnly THEN Err("needs routing")
  ELSE Ok([pinned |-> FALSE, compatibility |-> IF LLMUseCase(policy) = "" THEN "" ELSE "unavailable"])

\* initRuntime, up to the session.
initRoute(agentCfg, env, model) ==
  LET policy == Override(agentCfg.modelPolicy, NoPolicy)
      api    == autoMuxSourceAPI(policy, agentCfg.sourceAPI)
      route  == IF ~env.client THEN applyModelPolicy(policy, env, model)
                ELSE IF Configured(policy) THEN applyModelPolicyWithoutAutoResult(policy)
                ELSE Ok([pinned |-> FALSE, compatibility |-> ""])
  IN IF route.ok THEN Ok([pinned |-> route.value.pinned, compatibility |-> route.value.compatibility,
                          muxAPI |-> api])
     ELSE route

----------------------------------------------------------------------------
(* Sessions to resume: terminal/cli/session.go.  A session file is         *)
(* [id, prefix, mod]: its name is the id, perhaps with a prefix, and mod    *)
(* the time it was changed.                                                 *)

\* Mutant: the last of the files.
NewestPathLast(files) == files[Len(files)]

NewestPath(files) ==
  FoldLeft(LAMBDA newest, f : IF f.mod > newest.mod THEN f ELSE newest, files[1], files)

\* ResolveSessionPath; session is "" or an id; none or one file.
ResolveSessionPath(files, session, continueLast) ==
  LET matches == SelectSeq(files, LAMBDA f : f.id = session /\ f.prefix = "")
                 \o SelectSeq(files, LAMBDA f : f.id = session /\ f.prefix # "")
      Newest(seq) == IF seq = <<>> THEN Err("no session") ELSE Ok({NewestPath(seq)})
  IN IF session # "" /\ continueLast THEN Err("flags")
     ELSE IF continueLast THEN Newest(files)
     ELSE IF session = "" THEN Ok({})
     ELSE Newest(matches)

----------------------------------------------------------------------------
(* terminal/cli/load.go: Load, and LoadSession behind it *)

Launched(flags, profile, hints, worlds, env) ==
  LET policy   == flagModelPolicy(flags, profile)
      defaults == ~(flags.noDefaultPlugins \/ hints.noDefaultPlugins)
      resume   == ResolveSessionPath(env.sessions, flags.session, flags.continueLast)
      found    == chooseResources(hints, worlds, [DefaultPolicy EXCEPT !.global = flags.includeGlobal])
      resolved == EnsureFallbackAgent(found.value, flags.agent, defaults)
      prepared == PrepareResolvedAgent(resolved, flags.agent,
                    [inference |-> flagInference(flags, profile), maxSteps |-> flags.maxSteps,
                     system |-> flags.system])
      api      == ParseSourceAPI(Override(flags.sourceAPI, "auto"))
      plugins  == ResolvePlugins(IF defaults THEN <<"local_cli">> ELSE <<>>, resolved.plugins,
                                 flags.plugins, env.plugins)
      agentCfg == ResolveAgentLoadConfig(prepared.value.resolution, policy.value,
                                         IF Given(flags.sourceAPI) THEN {api.value} ELSE {})
      app      == New(sessionAppOptions(prepared.value.resolution.bundle, prepared.value.name, plugins.value))
      made     == InstantiateDefaultAgent(app)
      agent    == newAgent(CHOOSE spec \in Range(app.specs) : spec.name = app.defaultAgent)
      route    == initRoute(agentCfg, env, agent.inference.model)
  IN IF ~policy.ok THEN policy
     ELSE IF ~resume.ok THEN resume
     ELSE IF ~found.ok THEN found
     ELSE IF ~prepared.ok THEN prepared
     ELSE IF ~api.ok THEN api
     ELSE IF ~plugins.ok THEN plugins
     ELSE IF app.err # "" THEN Err(app.err)
     ELSE IF ~made.agent.ok THEN made.agent
     ELSE IF ~route.ok THEN route
     ELSE Ok([app |-> made.app, agent |-> agent, route |-> route.value, resume |-> resume.value])

----------------------------------------------------------------------------
(* cmd/agentsdk: the triggers of "serve" *)

stringFromMap(m, key) == IF At(m, key).is = "text" THEN At(m, key).v ELSE ""
boolFromMap(m, key) == At(m, key).is = "bool" /\ At(m, key).v
\* What is no duration is none: its error is dropped.
durationFromMap(m, key) == IF stringFromMap(m, key) \in Durations THEN stringFromMap(m, key) ELSE ""

\* serveTriggerRule
serveTriggerRule(workflow, prompt, agentName) ==
  IF (workflow = "") = (prompt = "") THEN Err("flags")
  ELSE Ok([id |-> "cli-interval", every |-> "1s", immediate |-> TRUE,
           kind |-> IF workflow # "" THEN "workflow" ELSE "agent_prompt", target |-> Or(workflow, prompt),
           agent |-> agentName, mode |-> "trigger_owned", session |-> "", sessionAgent |-> agentName,
           overlap |-> "skip_if_running", timeout |-> ""])

\* triggerRuleFromContribution
triggerRuleFromContribution(t, agentName) ==
  LET source  == mapFromAny(At(t.definition, "source"))
      every   == stringFromMap(source, "interval")
      session == mapFromAny(At(t.definition, "session"))
      policy  == mapFromAny(At(t.definition, "policy"))
      Target(key) == stringFromMap(t.target, key)
      kinds   == SelectSeq(<<"workflow", "prompt", "action">>, LAMBDA k : Target(k) # "")
      agent   == Or(Target("agent"), agentName)
  IN IF every \notin Durations THEN Err("interval")
     ELSE IF kinds = <<>> THEN Err("target")
     ELSE Ok([id |-> t.name, every |-> every, immediate |-> boolFromMap(source, "immediate"),
              kind |-> IF kinds[1] = "prompt" THEN "agent_prompt" ELSE kinds[1],
              target |-> Target(kinds[1]), agent |-> agent,
              mode |-> Or(stringFromMap(session, "mode"), "trigger_owned"),
              session |-> stringFromMap(session, "name"),
              sessionAgent |-> Or(stringFromMap(session, "agent"), agent),
              overlap |-> Or(stringFromMap(policy, "overlap"), "skip_if_running"),
              timeout |-> durationFromMap(policy, "timeout")])

\* AddTrigger on a host that has just started: a rule's id is used once.
AddTrigger(r, rule) ==
  IF ~r.ok THEN r
  ELSE IF ~rule.ok THEN rule
  ELSE IF \E i \in DOMAIN r.value : r.value[i].id = rule.value.id THEN Err("exists")
  ELSE Ok(Append(r.value, rule.value))
addResourceTriggers(triggers, agentName) ==
  FoldLeft(LAMBDA r, t : AddTrigger(r, triggerRuleFromContribution(t, agentName)), Ok(<<>>), triggers)

\* RunE of serveCmd: the jobs of the directory, then that of the flags, if any.
Serve(bundle, agentName, flagRule) ==
  LET jobs == addResourceTriggers(bundle.triggers, agentName)
  IN IF flagRule = {} THEN jobs
     ELSE AddTrigger(jobs, Override(flagRule, Err("none")))

----------------------------------------------------------------------------
(* Properties *)

First(specs, name) == SelectSeq(specs, LAMBDA s : s.name = name)[1]

\* What was asked for is what runs.  If the launch succeeds, the agent is the
\* one of the flag or of the primary directory's manifest, or the built-in one
\* if there is none at all; an option given by a flag is the agent's; the
\* others are those of the first file with its name, except that one flag for
\* the inference replaces all of the file's inference: "--effort" alone also
\* replaces the file's model by the one of the command line's profile; no other
\* agent is changed; and the session that is resumed is the newest one asked
\* for (NewCommand, PrepareResolvedAgent, UpdateAgentSpec, WithSpec,
\* registerAgentSpec, ResolveSessionPath).
AgentIsAsAsked(flags, profile, hints, worlds, env) ==
  LET run   == Launched(flags, profile, hints, worlds, env)
      a     == run.value.agent
      found == chooseResources(hints, worlds, [DefaultPolicy EXCEPT !.global = flags.includeGlobal]).value
      was   == First(found.bundle.agentSpecs \o <<FallbackSpec>>, a.name)
  IN run.ok =>
       /\ flags.agent # "" => a.name = flags.agent
       /\ flags.agent = "" /\ found.defaultAgent # "" =>
            a.name = IF found.bundle.agentSpecs = <<>> THEN FallbackSpec.name ELSE found.defaultAgent
       /\ a.by = was.by
       /\ \A option \in {"model", "effort"} :
            a.inference[option] =
              IF Given(flags[option]) THEN Override(flags[option], "")
              ELSE IF Given(flags.model) \/ Given(flags.effort) THEN profile.inference[option]
              ELSE newAgent(was).inference[option]
       /\ a.maxSteps = newAgent([was EXCEPT !.maxSteps = Override(flags.maxSteps, @)]).maxSteps
       /\ a.system = Or(flags.system, was.system)
       /\ \A s \in Range(run.value.app.specs) : s.name # a.name =>
            s = First(found.bundle.agentSpecs, s.name)
       /\ \A f \in run.value.resume :
            /\ flags.session # "" => f.id = flags.session
            /\ \A other \in Range(env.sessions) :
                 flags.session \in {"", other.id} => other.mod <= f.mod

\* What Validate's word is worth.  A directory without an error is discovered,
\* and the agent its manifest names is there.  It then starts (run, a launch
\* without flags) if and only if what Validate does not look at is right: there
\* is one agent to choose where the manifest names none, the plugins of the
\* manifest exist, no two workflows and no two data sources have one name, the
\* workflows' steps are valid, and the agent's tools are in the catalog
\* (Validate, app.New, registerWorkflows, Catalog.Select).
ValidStarts(world, env, run) ==
  LET r      == ResolveDirWithOptions(world, [policy |-> DefaultPolicy, localOnly |-> FALSE])
      b      == r.value.bundle
      chosen == IF r.value.defaultAgent # "" THEN {r.value.defaultAgent}
                ELSE IF Cardinality(AgentNames(r.value)) = 1 THEN AgentNames(r.value)
                ELSE IF "main" \in AgentNames(r.value) THEN {"main"}
                ELSE AgentNames(r.value) \cap {"default"}
      used   == {env.plugins[n] : n \in (Range(r.value.plugins) \cup {"local_cli"}) \cap DOMAIN env.plugins}
      catalog == UNION {Keys(p.catalogTools \o p.tools) : p \in used}
      Distinct(seq) == \A i, j \in DOMAIN seq : seq[i].name = seq[j].name => i = j
      Tools(name) == Range(First(b.agentSpecs, name).tools)
  IN Valid(world) =>
       /\ r.ok
       /\ r.value.defaultAgent # "" => r.value.defaultAgent \in AgentNames(r.value)
       /\ run.ok <=> /\ chosen # {}
                     /\ Range(r.value.plugins) \subseteq DOMAIN env.plugins
                     /\ Distinct(b.workflows) /\ Distinct(b.dataSources)
                     /\ \A w \in Range(b.workflows) : ValidSteps(workflowFromContribution(w).steps)
                     /\ \A name \in chosen : Tools(name) \subseteq catalog

\* An agent whose models must be approved, by the manifest, by the profile or
\* by a flag that is not switched off, talks only to the route that was
\* selected for it, and to a degraded or untested one only if that is allowed
\* somewhere; and the API named on the command line is the one the router is
\* made for (flagModelPolicy, ResolveAgentLoadConfig, overlayModelPolicy,
\* initRuntime and the model route).
ApprovalIsKept(flags, profile, hints, worlds, env) ==
  LET run      == Launched(flags, profile, hints, worlds, env)
      manifest == Override(chooseResources(hints, worlds, DefaultPolicy).value.modelPolicy, NoPolicy)
      Permitted(field, flag) == manifest[field] \/ Override(flag, profile.modelPolicy[field])
  IN run.ok =>
       /\ Permitted("approvedOnly", flags.approvedOnly) =>
            /\ run.value.route.pinned
            /\ run.value.route.compatibility \in
                 {"approved"} \cup (IF Permitted("allowDegraded", flags.allowDegraded) THEN {"degraded"} ELSE {})
                             \cup (IF Permitted("allowUntested", flags.allowUntested) THEN {"untested"} ELSE {})
       /\ Given(flags.sourceAPI) /\ ~env.client =>
            run.value.route.muxAPI = ParseSourceAPI(Override(flags.sourceAPI, "")).value

\* "serve" starts with one job for each trigger of the directory, under an id
\* of its own, and the job of a trigger with an inline workflow runs a workflow
\* that the application has (loadTriggerContributions, registerWorkflows,
\* triggerRuleFromContribution, addResourceTriggers).
TriggersRun(fs, source, flagRule) ==
  LET b    == LoadFSWithSource(fs, source, "dir")
      app  == New(sessionAppOptions(b.value, "main", <<>>))
      jobs == Serve(b.value, "main", flagRule)
      Inline(t) == At(mapFromAny(At(t.definition, "target")), "workflow").is = "map"
  IN b.ok /\ app.err = "" /\ jobs.ok =>
       \A i \in DOMAIN b.value.triggers :
         LET t == b.value.triggers[i]
         IN /\ \E j \in DOMAIN jobs.value : jobs.value[j].id = t.name
            /\ \A j \in DOMAIN jobs.value : jobs.value[j].id = t.name =>
                 /\ j = i
                 /\ Inline(t) => jobs.value[j].kind = "workflow" /\ jobs.value[j].target \in Keys(app.workflows)
=============================================================================
