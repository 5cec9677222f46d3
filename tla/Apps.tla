-------------------------------- MODULE Apps --------------------------------
(***************************************************************************)
(* app.App: the registries an application is composed of, filled in a      *)
(* fixed order from the options, the resource bundles and the plugins, and *)
(* the tools and commands an agent gets when it is instantiated.           *)
(*                                                                         *)
(* A contribution carries the place it comes from ("by"), so that it can   *)
(* be told which of two with one name was kept.  An agent's spec also has  *)
(* the label the code keeps of that place ("from", its ResourceFrom):      *)
(* <<by>> when it was loaded from a directory, <<>> otherwise.  A tool is  *)
(* [name, wraps], where wraps lists its middlewares, innermost first.      *)
(***************************************************************************)
EXTENDS Commands, Resources
LOCAL INSTANCE SequencesExt

\* The values YAML decoding leaves in a definition: [is, v] with is one of
\* "nil", "text", "int", "bool", "list" and "map".
Nil == [is |-> "nil", v |-> ""]
At(m, key) == IF key \in DOMAIN m THEN m[key] ELSE Nil
FirstOf(m, key1, key2) == IF At(m, key1).is # "nil" THEN At(m, key1) ELSE At(m, key2)

stringFromAny(raw) == IF raw.is = "text" THEN raw.v ELSE ""
boolFromAny(raw) == raw.is = "bool" /\ raw.v
intFromAny(raw) == IF raw.is = "int" THEN raw.v ELSE 0
stringSliceFromAny(raw) ==
  CASE raw.is = "text" -> IF raw.v = "" THEN <<>> ELSE <<raw.v>>
    [] raw.is = "list" -> SelectSeq([i \in DOMAIN raw.v |-> stringFromAny(raw.v[i])],
                                    LAMBDA s : s # "")
    [] OTHER -> <<>>
stringMapFromAny(raw) ==
  IF raw.is # "map" THEN <<>>
  ELSE [k \in {key \in DOMAIN raw.v : stringFromAny(raw.v[key]) # ""} |-> raw.v[k].v]
workflowActionRefFromAny(raw) ==
  CASE raw.is = "text" -> raw.v
    [] raw.is = "map" -> stringFromAny(At(raw.v, "name"))
    [] OTHER -> ""
\* time.ParseDuration; a text that is no duration counts as none.
Durations == {"1s"}
durationFromAny(raw) == IF stringFromAny(raw) \in Durations THEN stringFromAny(raw) ELSE ""
workflowConditionFromAny(raw) ==
  LET m == IF raw.is = "map" THEN raw.v ELSE <<>>
  IN [step |-> stringFromAny(IF At(m, "step_id").is # "nil" THEN At(m, "step_id")
                             ELSE FirstOf(m, "stepID", "step")),
      equals |-> At(m, "equals"), exists |-> boolFromAny(At(m, "exists")),
      not |-> boolFromAny(At(m, "not"))]
workflowRetryFromAny(raw) ==
  LET m == IF raw.is = "map" THEN raw.v ELSE <<>>
  IN [max |-> intFromAny(FirstOf(m, "max_attempts", "maxAttempts")),
      backoff |-> durationFromAny(At(m, "backoff"))]

\* workflowStepsFromContribution: entries that are no maps are skipped.
workflowStepsFromContribution(raw) ==
  IF raw.is # "list" THEN <<>>
  ELSE LET maps == SelectSeq(raw.v, LAMBDA item : item.is = "map")
       IN [i \in DOMAIN maps |->
            LET m == maps[i].v
            IN [id |-> stringFromAny(At(m, "id")),
                action |-> workflowActionRefFromAny(At(m, "action")),
                deps |-> stringSliceFromAny(FirstOf(m, "depends_on", "dependsOn")),
                inputMap |-> stringMapFromAny(FirstOf(m, "input_map", "inputMap")),
                when |-> workflowConditionFromAny(At(m, "when")),
                retry |-> workflowRetryFromAny(At(m, "retry")),
                timeout |-> durationFromAny(At(m, "timeout")),
                policy |-> stringFromAny(FirstOf(m, "error_policy", "errorPolicy"))]]

workflowFromContribution(c) ==
  [name |-> c.name, by |-> c.by, steps |-> workflowStepsFromContribution(At(c.definition, "steps"))]

----------------------------------------------------------------------------
(* Registration.  An app that failed carries its error and stays as it is. *)

NewApp(defaultAgent) ==
  [err |-> "", commands |-> <<>>, actions |-> <<>>, datasources |-> <<>>, workflows |-> <<>>,
   specs |-> <<>>, diagnostics |-> <<>>, defaultAgent |-> defaultAgent, plugins |-> <<>>,
   catalog |-> <<>>, defaultTools |-> <<>>, index |-> <<>>, commandResources |-> <<>>,
   skillSources |-> <<>>, factories |-> <<>>,
   mwPlugins |-> <<>>, targetedPlugins |-> <<>>, mwApplied |-> FALSE]

Fail(a, err) == [a EXCEPT !.err = err]
Each(a, Op(_, _), seq) ==
  FoldLeft(LAMBDA acc, x : IF acc.err # "" THEN acc ELSE Op(acc, x), a, seq)
Keys(seq) == {seq[i].name : i \in DOMAIN seq}

\* The registries that refuse a name twice: actions, data sources, tools.
RegisterIn(a, field, x) ==
  IF x.name = "" \/ x.name \in Keys(a[field]) THEN Fail(a, field)
  ELSE [a EXCEPT ![field] = Append(@, x)]
RegisterActions(a, x) == RegisterIn(a, "actions", x)
registerDataSources(a, x) == RegisterIn(a, "datasources", x)
CatalogRegister(a, t) == RegisterIn(a, "catalog", t)

\* workflow.Validate, for definitions whose steps do not depend on later ones.
ValidSteps(steps) ==
  \A i \in DOMAIN steps :
    /\ steps[i].id # "" /\ steps[i].action # ""
    /\ \A j \in DOMAIN steps : steps[i].id = steps[j].id => i = j
    /\ \A k \in DOMAIN steps[i].deps : \E j \in 1..(i - 1) : steps[j].id = steps[i].deps[k]
registerWorkflows(a, def) ==
  IF def.name = "" \/ ~ValidSteps(def.steps) THEN Fail(a, "workflows")
  ELSE RegisterIn(a, "workflows", def)

\* Mutant: the last agent of a name replaces the first one.
registerAgentSpecLast(a, spec) ==
  IF spec.name = "" THEN Fail(a, "specs")
  ELSE [a EXCEPT !.specs = Append(SelectSeq(@, LAMBDA s : s.name # spec.name), spec),
                 !.defaultAgent = IF @ = "" THEN spec.name ELSE @]

\* registerAgentSpec: the first agent of a name stays, with a warning that has
\* the label of the other one, if it has any.
registerAgentSpec(a, spec) ==
  IF spec.name = "" THEN Fail(a, "specs")
  ELSE IF spec.name \in Keys(a.specs)
    THEN [a EXCEPT !.diagnostics = Append(@, <<"agent", spec.name, spec.from>>)]
    ELSE [a EXCEPT !.specs = Append(@, spec),
                   !.defaultAgent = IF @ = "" THEN spec.name ELSE @]

registerCommands(a, cmd) ==
  LET r == Register(a.commands, cmd)
  IN IF r.ok THEN [a EXCEPT !.commands = r.value] ELSE Fail(a, r.code)

\* The name ErrDuplicate carries: the command's own, else one of its aliases.
DuplicateName(reg, cmd) ==
  IF cmd.name \in NamesIn(reg) THEN cmd.name
  ELSE CHOOSE n \in NamesOf(cmd) : n \in NamesIn(reg)

\* registerCommandFromSource: a duplicate is a warning.
registerCommandFromSource(a, cmd) ==
  LET r == registerCommands(a, cmd)
  IN IF r.err # "duplicate" THEN r
     ELSE [a EXCEPT !.diagnostics =
             Append(@, <<"command", DuplicateName(a.commands, cmd), <<cmd.by>>>>)]

Index(a, id) == IF id.origin = "" /\ id.name = "" THEN a
                ELSE [a EXCEPT !.index = Add(@, id)]
ID(bundle, kind, name) == DeriveResourceID(bundle.source, kind, name, <<>>)

\* registerResourceBundle: commands and agents are indexed under the source of
\* the whole bundle, the others under the id they carry.
registerResourceBundle(a, bundle) ==
  LET WithCommand(x, cmd) ==
        LET r == registerCommandFromSource(x, cmd)
        IN IF r.err # "" THEN r ELSE Index(r, ID(bundle, "command", cmd.name))
      WithSpec(x, spec) ==
        LET r == registerAgentSpec(x, spec)
        IN IF r.err # "" THEN r ELSE Index(r, ID(bundle, "agent", spec.name))
      WithData(x, c) ==
        LET r == registerDataSources(x, c) IN IF r.err # "" THEN r ELSE Index(r, c.rid)
      WithWorkflow(x, c) ==
        LET r == registerWorkflows(x, workflowFromContribution(c))
        IN IF r.err # "" THEN r ELSE Index(r, c.rid)
      WithCommandResource(x, c) ==
        Index([x EXCEPT !.commandResources = Append(@, c)], c.rid)
      a1 == Each(a, WithCommand, bundle.commands)
      a2 == Each(a1, WithSpec, bundle.agentSpecs)
      a3 == Each(a2, WithData, bundle.dataSources)
      a4 == Each(a3, WithWorkflow, bundle.workflows)
      a5 == Each(a4, WithCommandResource, bundle.commandResources)
      a6 == Each(a5, LAMBDA x, c : Index(x, c.rid),
                 bundle.skills \o bundle.actions \o bundle.triggers \o bundle.tools)
  IN IF a6.err # "" THEN a6
     ELSE [a6 EXCEPT !.skillSources = @ \o bundle.skillSources,
                     !.diagnostics = @ \o bundle.diagnostics]

\* registerPlugin: what a plugin does not implement is empty here.
registerPlugin(a, p) ==
  IF p.name = "" \/ p.name \in Keys(a.plugins) THEN Fail(a, "plugins")
  ELSE LET a1 == Each([a EXCEPT !.plugins = Append(@, p)], RegisterActions, p.actions)
           a2 == Each(a1, registerDataSources, p.dataSources)
           a3 == Each(a2, registerWorkflows, p.workflows)
           a4 == Each(a3, registerCommandFromSource, p.commands)
           a5 == Each(a4, registerAgentSpec, p.agentSpecs)
           a6 == IF a5.err # "" THEN a5
                 ELSE [a5 EXCEPT !.skillSources = @ \o p.skillSources,
                                 !.defaultTools = @ \o p.defaultTools]
           a7 == Each(a6, CatalogRegister, p.catalogTools \o p.tools)
       IN IF a7.err # "" THEN a7
          ELSE [a7 EXCEPT !.factories = @ \o p.factories,
                          !.mwPlugins = IF p.middlewares = <<>> THEN @ ELSE Append(@, p),
                          !.targetedPlugins = IF DOMAIN p.targeted = {} THEN @
                                              ELSE Append(@, p)]

\* tool.Apply, Catalog.ApplyAll and Catalog.ApplyTo with an exact name.
Apply(t, mws) == [t EXCEPT !.wraps = @ \o mws]
ApplyAll(tools, mws) == [i \in DOMAIN tools |-> Apply(tools[i], mws)]
ApplyTo(tools, name, mws) ==
  [i \in DOMAIN tools |-> IF tools[i].name = name THEN Apply(tools[i], mws) ELSE tools[i]]

\* New: catalog tools, wrapped at once; then everything else in this order.
New(cfg) ==
  LET a0 == Each(NewApp(cfg.defaultAgent), CatalogRegister, cfg.catalogTools)
      a1 == [a0 EXCEPT !.catalog = ApplyAll(@, cfg.middlewares),
                       !.defaultTools = ApplyAll(cfg.defaultTools, cfg.middlewares)]
      a2 == Each(a1, registerCommands, cfg.commands)
      a3 == Each(a2, RegisterActions, cfg.actions)
      a4 == Each(a3, registerDataSources, cfg.dataSources)
      a5 == Each(a4, registerWorkflows, cfg.workflows)
      a6 == Each(a5, registerAgentSpec, cfg.specs)
      a7 == Each(a6, registerResourceBundle, cfg.bundles)
  IN Each(a7, registerPlugin, cfg.plugins)

----------------------------------------------------------------------------
(* Agents *)

\* Mutant: each instantiation wraps the tools again.
applyToolMiddlewaresAgain(a) ==
  LET Targeted(tools, p) ==
        FoldLeft(LAMBDA ts, n : ApplyTo(ts, n, p.targeted[n]), tools,
                 SetToSeq(DOMAIN p.targeted \cap Keys(tools)))
      Global(tools, p) == ApplyAll(tools, p.middlewares)
  IN [a EXCEPT !.catalog = FoldLeft(Global, FoldLeft(Targeted, @, a.targetedPlugins), a.mwPlugins)]

\* applyToolMiddlewares: once; targeted ones inside the global ones.
applyToolMiddlewares(a) ==
  LET Targeted(tools, p) ==
        FoldLeft(LAMBDA ts, n : ApplyTo(ts, n, p.targeted[n]), tools,
                 SetToSeq(DOMAIN p.targeted \cap Keys(tools)))
      Global(tools, p) == ApplyAll(tools, p.middlewares)
  IN IF a.mwApplied THEN a
     ELSE [a EXCEPT !.mwApplied = TRUE,
                    !.catalog = FoldLeft(Global, FoldLeft(Targeted, @, a.targetedPlugins),
                                         a.mwPlugins)]

\* Catalog.Select for exact names and the pattern "*".
RECURSIVE SelectTools(_, _, _)
SelectTools(tools, names, out) ==
  IF names = <<>> THEN Ok(out)
  ELSE LET wanted == IF Head(names) = "*" THEN tools
                     ELSE SelectSeq(tools, LAMBDA t : t.name = Head(names))
           fresh  == SelectSeq(wanted, LAMBDA t : t.name \notin Keys(out))
       IN IF wanted = <<>> THEN Err("tool not found")
          ELSE SelectTools(tools, Tail(names), out \o fresh)

\* agentCommandView: the commands the spec names, if an agent may call them.
agentCommandView(a, spec) ==
  SelectSeq(a.commands, LAMBDA c : c.name \in Range(spec.commands) /\ AgentCallable(c))

CommandTool == [name |-> "command_run", wraps |-> <<>>]

\* InstantiateAgent: the app afterwards, and the agent's tools, commands and
\* skill sources.  The tool that runs commands is made here, and not wrapped.
InstantiateAgent(a, name) ==
  LET wrapped == applyToolMiddlewares(a)
      spec    == CHOOSE s \in Range(a.specs) : s.name = name
      tools   == IF spec.tools = <<>> THEN Ok(wrapped.defaultTools)
                 ELSE SelectTools(wrapped.catalog, spec.tools, <<>>)
  IN [app |-> wrapped,
      agent |-> IF name \notin Keys(a.specs) THEN Err("agent not found")
                ELSE IF ~tools.ok THEN tools
                ELSE IF \E i, j \in DOMAIN a.factories : i < j /\ a.factories[i] = a.factories[j]
                     THEN Err("duplicate capability")
                ELSE LET view == agentCommandView(wrapped, spec)
                     IN Ok([tools |-> tools.value \o (IF view = <<>> THEN <<>> ELSE <<CommandTool>>),
                            commands |-> view,
                            skillSources |-> a.skillSources \o spec.skillSources])]

InstantiateDefaultAgent(a) ==
  IF a.defaultAgent = "" THEN [app |-> a, agent |-> Err("no default agent")]
  ELSE InstantiateAgent(a, a.defaultAgent)

----------------------------------------------------------------------------
(* Properties of one configuration *)

Contributed(cfg, Of(_)) ==
  FlattenSeq([i \in DOMAIN cfg.bundles |-> Of(cfg.bundles[i])]
             \o [i \in DOMAIN cfg.plugins |-> Of(cfg.plugins[i])])

\* No contribution disappears: a command or an agent of a bundle or plugin is
\* in use, or a diagnostic names it, and then the one in use was registered
\* before it.  The diagnostic tells the bundle or plugin of a command; that of
\* an agent tells its origin only if the agent was loaded from a directory, and
\* nothing for one of a plugin, of a configuration file or of the application
\* (registerCommandFromSource, registerAgentSpec).
NothingDropped(cfg) ==
  LET a     == New(cfg)
      cmds  == Contributed(cfg, LAMBDA c : c.commands)
      specs == cfg.specs \o Contributed(cfg, LAMBDA c : c.agentSpecs)
      Said(kind, names, from) == \E n \in names : <<kind, n, from>> \in Range(a.diagnostics)
  IN a.err = "" =>
       /\ \A i \in DOMAIN cmds : \/ cmds[i] \in Range(a.commands)
                                 \/ Said("command", NamesOf(cmds[i]), <<cmds[i].by>>)
       /\ \A i \in DOMAIN specs : \/ specs[i] \in Range(a.specs)
                                  \/ Said("agent", {specs[i].name}, specs[i].from)
       /\ \A i, j \in DOMAIN specs :
            specs[i].name = specs[j].name /\ i < j => specs[j] \notin Range(a.specs)

\* However often agents are instantiated, a tool has each of its middlewares
\* once and in order: a tool chosen from the catalog those of the options, if
\* it is a tool of the options, inside those a plugin has for it, inside those
\* of all plugins; a default tool only those of the options, if it is one of
\* theirs.  So a plugin's tool never has the middlewares of the options, which
\* WithToolMiddlewares says are "applied to all tools in the catalog", and a
\* default tool never has those of a plugin, which ToolMiddlewarePlugin says
\* are "applied to all tools" (New, registerPlugin, applyToolMiddlewares).
WrappedOnce(cfg, name) ==
  LET a      == New(cfg)
      spec   == CHOOSE s \in Range(a.specs) : s.name = name
      second == InstantiateAgent(InstantiateAgent(a, name).app, name)
      OfOptions(t, tools) == IF t.name \in Keys(tools) THEN cfg.middlewares ELSE <<>>
      OfPlugins(Mws(_)) == FlattenSeq([i \in DOMAIN cfg.plugins |-> Mws(cfg.plugins[i])])
  IN a.err = "" /\ second.agent.ok =>
       \A t \in Range(second.agent.value.tools) \ {CommandTool} :
         t.wraps =
           IF spec.tools = <<>> THEN OfOptions(t, cfg.defaultTools)
           ELSE OfOptions(t, cfg.catalogTools)
                \o OfPlugins(LAMBDA p : IF t.name \in DOMAIN p.targeted THEN p.targeted[t.name] ELSE <<>>)
                \o OfPlugins(LAMBDA p : p.middlewares)
=============================================================================
