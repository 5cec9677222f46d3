---------------------------- MODULE MCAlgorithms ----------------------------
(***************************************************************************)
(* The pure parts of the system on all inputs of small families.  A state  *)
(* is one input, [of, ...] where "of" names the family, reached in one     *)
(* step and left in the next; a property says of every step what holds of  *)
(* the input it leaves.                                                    *)
(***************************************************************************)
EXTENDS Edits, FileViews, Launch
LOCAL INSTANCE SequencesExt

VARIABLE input

SeqsUpTo(S, n) == UNION {[1..k -> S] : k \in 0..n}

-----------------------------------------------------------------------------
(* file_edit: four contents, and up to three operations of every kind.      *)

Contents == {<<"a", NL, "b", NL>>, <<Space, "a", NL, "a">>, <<"a", "b", "a", NL, NL>>, <<>>}
Rep(old, new, all, ifMissing) ==
  [kind |-> "replace", old |-> old, new |-> new, all |-> all, ifMissing |-> ifMissing]
Operations ==
  {Rep(<<"a">>, <<"x", "y">>, TRUE, <<>>), Rep(<<"a", NL>>, <<>>, FALSE, <<"z">>),
   Rep(<<"b">>, <<"b">>, FALSE, <<>>),
   [kind |-> "insert", line |-> 1, text |-> <<"i">>, auto |-> FALSE],
   [kind |-> "insert", line |-> 2, text |-> <<"j", NL>>, auto |-> TRUE],
   [kind |-> "insert", line |-> 9, text |-> <<"k">>, auto |-> TRUE],
   [kind |-> "removeString", old |-> <<"a">>],
   [kind |-> "removeLines", from |-> 1, to |-> 1],
   [kind |-> "removeLines", from |-> 2, to |-> 2],
   [kind |-> "removeLines", from |-> 1, to |-> 2],
   [kind |-> "append", text |-> <<"e">>],
   [kind |-> "patch", patch |-> <<[mark |-> "@", start |-> 1, count |-> 1],
                                  [mark |-> "-", text |-> <<"a">>],
                                  [mark |-> "+", text |-> <<"p">>]>>]}
PickEdit == \E s \in Contents : \E ops \in SeqsUpTo(Operations, 3) \ {<<>>} :
              input' = [of |-> "edit", s |-> s, ops |-> ops]

Added == {<<>>, <<<<"x">>>>, <<<<"x">>, <<"y">>>>}
PickPatch ==
  \E s \in {<<"a", NL>>, <<"a", NL, "b", NL>>, <<"a", NL, "b">>, <<"a">>, <<"a", NL, NL, "b">>} :
    LET n == Len(PatchLines(s))
    IN \E kept \in [1..n -> BOOLEAN], added \in [1..(n + 1) -> Added], cut \in 1..n :
         input' = [of |-> "patch", s |-> s,
                   script |-> [kept |-> kept, added |-> added, cut |-> cut]]

EditsAreComposed == input.of = "edit" => EditsCompose(input.s, input.ops)
PatchesApply == input.of = "patch" => PatchApplies(input.s, input.script)

-----------------------------------------------------------------------------
(* file_read, dir_tree, glob, grep *)

PickRanges == \E total \in 0..5 :
  \E ranges \in SeqsUpTo([start : {0, 1, 2, 4}, end : {0, 2, 3, 6}], 3) \ {<<>>} :
    input' = [of |-> "ranges", total |-> total, ranges |-> ranges]

File(name, hidden, match) == [name |-> name, dir |-> FALSE, hidden |-> hidden,
                              ignored |-> FALSE, match |-> match, kids |-> <<>>]
Dir(name, ignored, kids) == [name |-> name, dir |-> TRUE, hidden |-> FALSE,
                             ignored |-> ignored, match |-> FALSE, kids |-> kids]
Leaves == SeqsUpTo({File("f", TRUE, TRUE), File("g", FALSE, FALSE)}, 1)
Trees == {<<Dir("d", ig, <<Dir("e", FALSE, <<Dir("k", FALSE, k1)>> \o k1)>> \o k2), File("x", FALSE, TRUE)>> :
            ig \in BOOLEAN, k1 \in Leaves, k2 \in Leaves}
PickTree == \E kids \in Trees, flat \in BOOLEAN :
  \E opts \in [hidden : BOOLEAN, noIgnore : BOOLEAN, pattern : BOOLEAN,
               depth : 1..4, max : {2, 4, 9}] :
    input' = [of |-> "tree", kids |-> kids, opts |-> opts, flat |-> flat]

Sources == [path : {"p", "q", "r"}, binary : {FALSE}, hits : {2}]
           \cup {[path |-> "n", binary |-> FALSE, hits |-> 0], [path |-> "b", binary |-> TRUE, hits |-> 2]}
PickSearch == \E args \in SeqsUpTo(SeqsUpTo(Sources, 2), 2) :
    input' = [of |-> "search", args |-> args]

PickGlob == \E dirs, ignored \in [1..4 -> BOOLEAN], n \in 0..4, noIgnore \in BOOLEAN :
    input' = [of |-> "glob", noIgnore |-> noIgnore,
              matches |-> [i \in 1..n |-> [path |-> i, dir |-> dirs[i], ignored |-> ignored[i]]]]

ReadsAreExact == input.of = "ranges" => ReadShowsRequestedLines(input.total, input.ranges)
ListingsComplete ==
  /\ input.of = "tree" => ListingsAreComplete(input.kids, input.opts, input.flat)
  /\ input.of = "glob" => GlobBelowLimitIsComplete(input.matches, input.noIgnore)
  /\ input.of = "search" => SearchBelowLimitsIsComplete(input.args)

-----------------------------------------------------------------------------
(* Command lines and command trees *)

WordsUpTo2 == UNION {[1..k -> {"a", " ", "'", "\"", "\\", "=", "-"}] : k \in 0..2}
PickLine ==
  \E q \in {"'", "\""}, args \in SeqsUpTo(WordsUpTo2, 1), value \in WordsUpTo2, joined \in BOOLEAN :
    \E flag \in {<<>>, <<[key |-> <<"k">>, value |-> value, joined |-> joined]>>} :
      input' = [of |-> "line", args |-> args, flag |-> flag, q |-> q]

TextValue(t) == [kind |-> "text", text |-> t]
Values == {TextValue(t) : t \in {"", "x", "1", "true"}}
          \cup {[kind |-> "nil"], [kind |-> "number", n |-> 7], [kind |-> "number", n |-> 2000000],
                [kind |-> "bool", b |-> TRUE],
                [kind |-> "list", items |-> <<TextValue("x")>>], [kind |-> "list", items |-> <<TextValue("")>>],
                [kind |-> "list", items |-> <<TextValue("x"), TextValue("1")>>]}
Arg(name, required, variadic, type) ==
  [name |-> name, required |-> required, variadic |-> variadic, type |-> type]
Flag(required, enum, type) == [name |-> "f", required |-> required, enum |-> enum, type |-> type]
Node(name, handler, args, flags, children) ==
  [name |-> name, aliases |-> {}, handler |-> handler, args |-> args, flags |-> flags,
   children |-> children, policy |-> [internal |-> FALSE, user |-> TRUE, agent |-> FALSE]]
ArgLists == {<<>>, <<Arg("a", TRUE, FALSE, "string")>>,
             <<Arg("a", FALSE, FALSE, "integer"), Arg("r", FALSE, TRUE, "array")>>,
             <<Arg("r", TRUE, TRUE, "array")>>}
FlagLists == {<<>>, <<Flag(TRUE, {}, "string")>>, <<Flag(FALSE, {"x"}, "string")>>,
              <<Flag(FALSE, {}, "boolean")>>, <<Flag(TRUE, {}, "integer")>>}
Subcommands == {Node("s", h, args, flags, <<>>) : h \in BOOLEAN, args \in ArgLists, flags \in FlagLists}
PickCall ==
  \E sub \in Subcommands, onRoot \in BOOLEAN :
    LET root == IF onRoot THEN [sub EXCEPT !.name = "c"]
                ELSE BuildTree(Node("c", FALSE, <<>>, <<>>, <<>>), <<sub>>).value
    IN \E path \in {IF onRoot THEN <<"c">> ELSE <<"c", "s">>},
          A \in SUBSET {"a", "r"}, F \in SUBSET {"f"} :
         \E args \in [A -> Values], flags \in [F -> Values] :
           input' = [of |-> "call", root |-> root, path |-> path, args |-> args, flags |-> flags]

LinesAreRead == input.of = "line" => ParsedAsSaid(<<"n">>, input.args, input.flag, input.q)
CommandRoutesAgree ==
  input.of = "call" =>
    RoutesAgree(input.root, input.path, [args |-> input.args, flags |-> input.flags])
SchemaDescribesInput ==
  input.of = "call" =>
    SchemaSuffices(input.root, [k \in DOMAIN input.args \cup DOMAIN input.flags |->
                                  IF k = "f" THEN input.flags[k] ELSE input.args[k]])

-----------------------------------------------------------------------------
(* References to resources *)

Identities == {[kind |-> k, origin |-> o, namespace |-> ns, name |-> "n"] :
          k \in {"command", "workflow"}, o \in {"local", "user", "git"}, ns \in {<<>>, <<"p">>}}
Refs == {<<"n">>, <<"p", "n">>, <<"local", "n">>, <<"git", "n">>, <<"local", "p", "n">>}
PickIndex ==
  \E ids \in SeqsUpTo(Identities, 3), ref1, ref2 \in Refs, kind2 \in {"command", "workflow"} :
    input' = [of |-> "index", index |-> FoldLeft(Add, <<>>, ids), ref1 |-> ref1, ref2 |-> ref2,
              kind2 |-> kind2]

CachedResolutionAgrees ==
  input.of = "index" => CacheIsTransparent(input.index, "command", input.ref1, input.kind2, input.ref2)

-----------------------------------------------------------------------------
(* Applications: who contributes a command or an agent twice, and who wraps *)
(* the tools.                                                               *)

Command(name, aliases, by) ==
  [name |-> name, aliases |-> aliases, by |-> by,
   policy |-> [internal |-> FALSE, user |-> TRUE, agent |-> FALSE]]
Commands2(by) == SeqsUpTo({Command("a", {}, by), Command("b", {"a"}, by)}, 1)
AgentSpec(name, by, from, tools) ==
  [name |-> name, by |-> by, from |-> from, tools |-> tools, commands |-> <<>>, skillSources |-> <<>>]
Specs2(by, from) == SeqsUpTo({AgentSpec("m", by, from, <<>>), AgentSpec("n", by, from, <<>>)}, 1)
BundleOf(by, cmds, specs) ==
  [EmptyBundle(sourceForCandidate(<<by, ".agents">>, "project")) EXCEPT
     !.commands = cmds, !.agentSpecs = specs]
Plugin(name, cmds, specs, catalog, mws, targeted) ==
  [name |-> name, actions |-> <<>>, dataSources |-> <<>>, workflows |-> <<>>, commands |-> cmds,
   agentSpecs |-> specs, skillSources |-> <<>>, defaultTools |-> <<>>, catalogTools |-> catalog,
   tools |-> <<>>, factories |-> <<>>, middlewares |-> mws, targeted |-> targeted]
Bare(name) == [name |-> name, wraps |-> <<>>]
Config(cmds, specs, bundles, plugins) ==
  [defaultAgent |-> "", catalogTools |-> <<Bare("t1")>>,
   middlewares |-> <<"m0">>, defaultTools |-> <<>>, commands |-> cmds, actions |-> <<>>,
   dataSources |-> <<>>, workflows |-> <<>>, specs |-> specs, bundles |-> bundles,
   plugins |-> plugins]
PickApp ==
  \E cmds \in Commands2("app"), specs \in Specs2("app", <<>>), c1 \in Commands2("b1"),
     s1 \in Specs2("b1", <<"b1">>), c2 \in Commands2("b2"), s2 \in Specs2("b2", <<"b2">>),
     c3 \in Commands2("p"), s3 \in Specs2("p", <<>>) :
    input' = [of |-> "app", cfg |-> Config(cmds, specs,
                <<BundleOf("b1", c1, s1), BundleOf("b2", c2, s2)>>, <<Plugin("p", c3, s3, <<>>, <<>>, <<>>)>>)]

Targeted(n, mw) == [t \in {n} |-> <<mw>>]
PickTools ==
  \E tools \in {<<>>, <<"t1">>, <<"*">>, <<"t2", "*">>}, g1, g2 \in BOOLEAN,
     x1 \in {<<>>, Targeted("t1", "x1"), Targeted("t2", "x1")},
     x2 \in {<<>>, Targeted("t1", "x2"), Targeted("t2", "x2")} :
    input' = [of |-> "tools", cfg |->
      [Config(<<>>, <<AgentSpec("m", "app", <<>>, tools)>>, <<>>,
              <<[Plugin("p", <<>>, <<>>, <<>>, IF g1 THEN <<"g1">> ELSE <<>>, x1) EXCEPT
                   !.defaultTools = <<Bare("t3")>>],
                Plugin("q", <<>>, <<>>, <<Bare("t2")>>, IF g2 THEN <<"g2">> ELSE <<>>, x2)>>)
       EXCEPT !.defaultTools = <<Bare("t4")>>]]

ContributionsAccountedFor == input.of = "app" => NothingDropped(input.cfg)
ToolsWrappedOnce == input.of = "tools" => WrappedOnce(input.cfg, "m")

-----------------------------------------------------------------------------
(* Directories of an application *)

List(names) == [is |-> "list", v |-> [i \in DOMAIN names |-> Text(names[i])]]
Doc(fields) == [ok |-> TRUE, fields |-> fields, body |-> ""]
BadDoc == [ok |-> FALSE, fields |-> <<>>, body |-> ""]
Entry(name, ext, doc) == [name |-> name, ext |-> ext, doc |-> doc]
AgentDocs == {Doc(<<>>), Doc([skills |-> List(<<"k">>)]), Doc([tools |-> List(<<"t">>)]), BadDoc}
Workspaces ==
  {[d \in {at \o <<"agents">>, at \o <<"skills">>} |->
      IF d = at \o <<"agents">>
      THEN <<Entry("main", "md", doc1)>> \o (IF two THEN <<Entry("other", "md", Doc([tools |-> List(<<"t">>)]))>> ELSE <<>>)
      ELSE IF skill THEN <<Entry("k", "dir", Doc(<<>>))>> ELSE <<>>] :
     at \in {<<>>, <<".agents">>}, doc1 \in AgentDocs, two \in BOOLEAN, skill \in BOOLEAN}
Home == [d \in {<<".agents", "skills">>, <<".claude", "agents">>} |->
           IF d = <<".agents", "skills">> THEN <<Entry("k", "dir", Doc(<<>>))>>
           ELSE <<Entry("mine", "md", Doc(<<>>))>>]
Repositories == [r \in {<<"repo", <<"v1">>>>} |-> [d \in {<<"agents">>} |-> <<Entry("far", "md", Doc(<<>>))>>]]
LocalEntry == [remote |-> FALSE, path |-> <<>>]
RemoteEntry(ref) == [remote |-> TRUE, name |-> "repo", ref |-> ref]
Manifests ==
  {<<>>} \cup {<<[parses |-> p, plugins |-> <<>>, defaultAgent |-> d, sources |-> s, global |-> g,
                 external |-> {TRUE}, remote |-> r, modelPolicy |-> UnsetPolicy]>> :
     p \in BOOLEAN, d \in {"", "main", "far"}, g \in {{}, {TRUE}, {FALSE}}, r \in {{}, {TRUE}},
     s \in {<<>>, <<LocalEntry>>, <<LocalEntry, RemoteEntry(<<"v1">>)>>, <<RemoteEntry(<<"v2">>)>>}}
PickWorld ==
  \E w \in Workspaces, m \in Manifests, policy \in [global : BOOLEAN, external : BOOLEAN, remote : BOOLEAN] :
    input' = [of |-> "world", policy |-> policy,
              world |-> [workspace |-> w, home |-> Home, external |-> <<"ext">>, manifest |-> m,
                         remotes |-> Repositories]]

Inline(name) == Map([steps |-> [is |-> "list", v |-> <<>>], name |-> Text(name)])
TargetDocs == {[target |-> Map([workflow |-> w])] : w \in {Text("w"), Inline(""), Inline("w")}}
           \cup {[target |-> Map([prompt |-> Text("p")])], <<>>}
Sourced(fields, every) ==
  [k \in DOMAIN fields \cup {"source"} |-> IF k = "source" THEN Map([interval |-> Text(every)]) ELSE fields[k]]
TriggerDocs == {Doc(Sourced(t, every)) : t \in TargetDocs, every \in {"1s", "often"}}
FlowDocs == {Doc(<<>>),
             Doc([expose |-> Map([commands |-> [is |-> "list", v |-> <<Map([name |-> Text("c")])>>],
                                  triggers |-> [is |-> "list", v |->
                                    <<Map(Sourced([id |-> Text("t")], "1s"))>>]])])}
FlagRules == {{}} \cup {{serveTriggerRule(w, p, "")} : w \in {"", "w"}, p \in {"", "hello"}}
PickDir ==
  \E at \in {<<>>, <<".agents">>}, c1 \in TargetDocs, t1 \in TriggerDocs, f \in FlowDocs,
     second \in {"t", "cli-interval", "u"}, flagRule \in FlagRules :
    input' = [of |-> "dir", flagRule |-> flagRule, fs |->
      [d \in {at \o <<"commands">>, at \o <<"triggers">>, at \o <<"workflows">>} |->
         IF Last(d) = "commands" THEN <<Entry("e", "yaml", Doc(c1))>>
         ELSE IF Last(d) = "workflows" THEN <<Entry("e", "yaml", f)>>
         ELSE <<Entry("e", "yaml", t1),
                Entry(second, "yaml", Doc(Sourced([target |-> Map([action |-> Text("a")])], "1s")))>>]]

LocalDiscovery == input.of = "world" => LocalOnlyStaysLocal(input.world, input.policy)
InlineTargetsExist ==
  input.of = "dir" =>
    LET source == sourceForCandidate(<<"app", ".agents">>, "project")
    IN InlineTargetsLoaded(input.fs, source) /\ TriggersRun(input.fs, source, input.flagRule)

-----------------------------------------------------------------------------
(* Configuration files that name each other *)

Pattern(abs, path, all) == [abs |-> abs, path |-> path, glob |-> all]
Patterns == {Pattern(FALSE, <<"a.yaml">>, FALSE), Pattern(FALSE, <<"d", "b.yaml">>, FALSE),
             Pattern(TRUE, <<"w", "agentsdk.app.yaml">>, FALSE), Pattern(FALSE, <<"d">>, FALSE),
             Pattern(FALSE, <<"d">>, TRUE), Pattern(TRUE, <<"w", ".agents">>, FALSE)}
ConfigDoc(name, sources) ==
  [kind |-> "", decodes |-> TRUE, include |-> FALSE,
   config |-> [EmptyConfig EXCEPT !.name = name, !.sources = sources]]
AgentDoc(name, by) ==
  [kind |-> "agent", decodes |-> TRUE, include |-> FALSE, name |-> name, by |-> by, tools |-> <<>>,
   inference |-> DefaultInference, maxSteps |-> 0, system |-> ""]
ConfigPaths == {<<"w", "agentsdk.app.yaml">>, <<"w", "a.yaml">>, <<"w", "d", "a.yaml">>, <<"w", "d", "b.yaml">>}
PickConfig ==
  \E sources \in [ConfigPaths -> SeqsUpTo(Patterns, 1)], second \in SeqsUpTo(Patterns, 1),
     roots \in {<<>>, <<Pattern(FALSE, <<"d", "a.yaml">>, FALSE)>>, <<Pattern(FALSE, <<"x">>, FALSE)>>} :
    input' = [of |-> "config", opts |-> [defaults |-> EmptyConfig, roots |-> roots, workDir |-> <<"w">>, noUser |-> TRUE],
              disk |-> [dirs |-> [p \in {<<"w", "d">>, <<"w", ".agents">>} |-> [d \in {<<"agents">>} |-> <<>>]],
                        files |-> [p \in ConfigPaths |->
                          [parses |-> TRUE,
                           docs |-> <<ConfigDoc("n", sources[p] \o (IF p = <<"w", "agentsdk.app.yaml">> THEN second ELSE <<>>)),
                                      AgentDoc("m", p)>>]]]]

ConfigLoadedOnce == input.of = "config" => LoadsEachOnce(input.disk, input.opts)

-----------------------------------------------------------------------------
(* Command lines that start an agent *)

NoFlags == [useCase |-> {}, approvedOnly |-> {}, allowDegraded |-> {}, allowUntested |-> {}, evidence |-> {},
            sourceAPI |-> {}, model |-> {}, effort |-> {}, maxSteps |-> {}, system |-> "", agent |-> "",
            plugins |-> <<>>, noDefaultPlugins |-> FALSE, session |-> "", continueLast |-> FALSE,
            includeGlobal |-> FALSE]
NoProfile == [modelPolicy |-> NoPolicy, inference |-> DefaultInference]
NoHints == [embedded |-> <<>>, embeddedOnly |-> FALSE, noDefaultPlugins |-> FALSE]
Env == [plugins |-> [n \in {"local_cli"} |-> Plugin("local_cli", <<>>, <<>>, <<>>, <<>>, <<>>)],
        client |-> FALSE, route |-> [m \in {"default", "big", ""} |-> "approved"], sessions |-> <<>>]
ManifestWith(defaultAgent, policy) ==
  <<[parses |-> TRUE, plugins |-> <<>>, defaultAgent |-> defaultAgent, sources |-> <<>>, global |-> {},
     external |-> {}, remote |-> {}, modelPolicy |-> policy]>>
World(agents, defaultAgent, policy) ==
  [workspace |-> [d \in {<<".agents", "agents">>} |->
                    [i \in DOMAIN agents |-> Entry(agents[i].name, "md", Doc(agents[i].fields))]],
   home |-> Home, external |-> <<"ext">>, manifest |-> ManifestWith(defaultAgent, policy),
   remotes |-> Repositories]
AgentFiles == {[name |-> n, fields |-> f] : n \in {"main", "other"},
                 f \in {<<>>, [model |-> Text("big"), effort |-> Text("low")]}}

\* Who is started, with what: two directories with agents of the same names.
PickAgent ==
  \E first \in SeqsUpTo(AgentFiles, 2), second \in SeqsUpTo(AgentFiles, 1), default \in {"", "main"}, embedded \in BOOLEAN,
     asked \in {"", "main", "other"}, model \in {{}, {"big"}}, effort \in {{}, {"high"}},
     steps \in {{}, {5}} :
    input' = [of |-> "launch", profile |-> NoProfile, env |-> Env,
              flags |-> [NoFlags EXCEPT !.agent = asked, !.model = model, !.effort = effort,
                                        !.maxSteps = steps],
              hints |-> [NoHints EXCEPT !.embedded = IF embedded THEN <<World(second, "", UnsetPolicy).workspace>> ELSE <<>>],
              worlds |-> IF embedded THEN <<World(first, default, UnsetPolicy)>>
                         ELSE <<World(first, default, UnsetPolicy), World(second, "", UnsetPolicy)>>]

\* Which model it may use.
Policies == {[UnsetPolicy EXCEPT !.approvedOnly = a, !.allowDegraded = d] : a, d \in {{}, {TRUE}}}
PickPolicy ==
  \E manifest \in Policies, mine \in {NoPolicy} \cup {[NoPolicy EXCEPT !.approvedOnly = TRUE, !.allowUntested = u] : u \in BOOLEAN},
     only, degraded \in {{}, {TRUE}, {FALSE}}, api \in {{}, {"messages"}}, useCase \in {{}, {"summarization"}},
     client \in BOOLEAN, c \in {"approved", "degraded", "untested", "none"} :
    input' = [of |-> "launch", hints |-> NoHints, worlds |-> <<World(<<[name |-> "main", fields |-> <<>>]>>, "", manifest)>>,
              profile |-> [NoProfile EXCEPT !.modelPolicy = mine],
              flags |-> [NoFlags EXCEPT !.approvedOnly = only, !.allowDegraded = degraded, !.sourceAPI = api,
                                        !.useCase = useCase],
              env |-> [Env EXCEPT !.client = client, !.route = [m \in DOMAIN @ |-> c]]]

\* Which session it resumes.
SessionFiles == SeqsUpTo([id : {"s1", "s2"}, prefix : {"", "x-"}, mod : 1..2], 3)
PickResume ==
  \E files \in SessionFiles, session \in {"", "s1"}, last \in BOOLEAN :
    input' = [of |-> "launch", hints |-> NoHints, profile |-> NoProfile,
              worlds |-> <<World(<<[name |-> "main", fields |-> <<>>]>>, "", UnsetPolicy)>>,
              flags |-> [NoFlags EXCEPT !.session = session, !.continueLast = last],
              env |-> [Env EXCEPT !.sessions = files]]

\* What validates, and whether it starts.
Tooled(names) == Doc([tools |-> List(names)])
Skilled(names) == Doc([skills |-> List(names)])
Flow(name, steps) ==
  Doc([name |-> Text(name), steps |-> [is |-> "list", v |-> [i \in DOMAIN steps |->
         Map([id |-> Text(steps[i]), action |-> Text("a")])]]])
Manifested(default, plugins) ==
  [ManifestWith(default, UnsetPolicy)[1] EXCEPT !.sources = <<LocalEntry>>, !.plugins = plugins]
PickValid ==
  \E name \in {"main", "first"},
     agent \in {Doc(<<>>), Tooled(<<"t">>), Tooled(<<"u">>), Skilled(<<"k">>), Skilled(<<"none">>)},
     others \in SeqsUpTo({Entry("other", "md", Tooled(<<"t">>)), Entry("other", "md", Tooled(<<"u">>))}, 1),
     flows \in SeqsUpTo({Flow("w", <<"s">>), Flow("v", <<"s">>), Flow("v", <<"s", "s">>)}, 2), data \in 0..2,
     manifests \in {<<>>} \cup {<<Manifested(d, p)>> : d \in {"", "main", "other"},
                                                        p \in {<<>>, <<"more">>, <<"none">>}} :
    input' = [of |-> "valid",
      world |-> [home |-> Home, external |-> <<"ext">>, remotes |-> Repositories, manifest |-> manifests,
                 workspace |->
        [d \in {<<"agents">>, <<"workflows">>, <<"datasources">>} |->
           IF d = <<"agents">> THEN <<Entry(name, "md", agent)>> \o others
           ELSE IF d = <<"workflows">> THEN [i \in DOMAIN flows |-> Entry(<<"f", "g">>[i], "yaml", flows[i])]
           ELSE [i \in 1..data |-> Entry(<<"f", "g">>[i], "yaml", Doc([name |-> Text("d")]))]]]]
StartEnv ==
  [Env EXCEPT !.plugins = [n \in {"local_cli", "more"} |->
     Plugin(n, <<>>, <<>>, IF n = "more" THEN <<Bare("u")>> ELSE <<Bare("t")>>, <<>>, <<>>)]]
ValidAppsStart ==
  input.of = "valid" =>
    ValidStarts(input.world, StartEnv, Launched(NoFlags, NoProfile, NoHints, <<input.world>>, StartEnv))

AgentAsAsked ==
  input.of = "launch" => AgentIsAsAsked(input.flags, input.profile, input.hints, input.worlds, input.env)
ApprovedModelsOnly ==
  input.of = "launch" => ApprovalIsKept(input.flags, input.profile, input.hints, input.worlds, input.env)

-----------------------------------------------------------------------------
(* Tool calls: stacked timeouts, gates over intents, audited actions.        *)

TC == INSTANCE ToolCalls

Timeout(default, max) == [kind |-> "timeout", default |-> default, max |-> max]
Op(operation, locality) == [operation |-> operation, locality |-> locality]
Amend(op) == [kind |-> "amend", op |-> op]
Action(layers, untyped, tool) ==
  [layers |-> layers, untyped |-> untyped, declares |-> TRUE, ops |-> <<Op("write", "system")>>, tool |-> tool]
Typed(declares, ops, extra) ==
  [kind |-> "typed", declares |-> declares, ops |-> ops, extra |-> extra, summary |-> FALSE,
   action |-> Action(<<>>, TRUE, {})]
Summarized(base) == [base EXCEPT !.summary = TRUE]
Backed(action) == [Typed(FALSE, <<>>, {}) EXCEPT !.kind = "action", !.action = action]
Tool(base, layers) == [base |-> base, layers |-> layers]
Ctx(deadline, approver, done) == [deadline |-> deadline, tool |-> TRUE, approver |-> approver, done |-> done]
Input(object, timeout, args) == [object |-> object, timeout |-> timeout, args |-> args]
ToolInputs ==
  {Input(FALSE, {}, "none"), Input(FALSE, {}, "good")} \cup
  {Input(TRUE, timeout, args) : args \in {"good", "bad"},
     timeout \in {{}} \cup {{[parses |-> p, secs |-> secs]} : p \in BOOLEAN, secs \in {0, 1, 5}}}

PickTimed ==
  \E layers \in SeqsUpTo({Timeout(2, 3), Timeout(4, 3), Timeout(4, 0)}, 2) :
  \E base \in {Typed(TRUE, <<>>, {}), Backed(Action(<<>>, FALSE, {})), Backed(Action(<<Timeout(1, 2)>>, TRUE, {})),
               Backed(Action(<<>>, TRUE, {Tool(Typed(TRUE, <<>>, {}), <<Timeout(1, 0)>>)}))} :
  \E in \in ToolInputs, deadline \in {0, 2}, takes \in {1, 3}, partial \in BOOLEAN :
    input' = [of |-> "timed", tool |-> Tool(base, layers), ctx |-> Ctx(deadline, "none", FALSE), in |-> in,
              w |-> [takes |-> takes, partial |-> partial, verdict |-> "allow", summary |-> "allow"]]

Verdicts == {"allow", "requires_approval", "reject", "error", "fails", "unknown"}
Policy0 == [kind |-> "policy"]
Custom == [kind |-> "custom"]
Composite(accepts, default) ==
  [kind |-> "composite", assessors |-> <<[kind |-> "custom", accepts |-> accepts]>>, default |-> default]
Gate(kind, assessor, approver, failOpen) ==
  [kind |-> kind, assessor |-> assessor, approver |-> approver, failOpen |-> failOpen]
GateLayers ==
  {Gate("gate", Policy0, "none", FALSE), Gate("gate", Policy0, "yes", FALSE), Gate("gate", Custom, "no", TRUE),
   Gate("gate", [kind |-> "cmdrisk", analyzer |-> TRUE], "none", FALSE),
   Gate("gate", [kind |-> "cmdrisk", analyzer |-> FALSE], "error", FALSE),
   Gate("gate", Composite({TRUE}, <<Policy0>>), "none", FALSE), Gate("gate", Composite({FALSE}, <<>>), "none", FALSE),
   Gate("gate", [kind |-> "none"], "none", FALSE),
   Timeout(2, 3), Amend(Op("read", "workspace")), Amend(Op("persistence_modify", "unknown"))}
PickGated ==
  \E layers \in SeqsUpTo(GateLayers, 2) :
  \E base \in {Typed(FALSE, <<>>, {}), Typed(TRUE, <<>>, {"reject"}), Typed(TRUE, <<Op("read", "workspace")>>, {}),
               Summarized(Typed(TRUE, <<>>, {})), Summarized(Typed(TRUE, <<Op("write", "system")>>, {})),
               Typed(TRUE, <<Op("delete", "sensitive"), Op("read", "secret")>>, {}), Backed(Action(<<>>, TRUE, {}))} :
  \E in \in {Input(TRUE, {}, "good"), Input(TRUE, {[parses |-> TRUE, secs |-> 1]}, "bad"), Input(FALSE, {}, "none")},
     approver \in {"none", "yes", "no", "error"}, verdict \in Verdicts,
     summary \in IF base.summary THEN {"allow", "reject", "fails", "unknown"} ELSE {"fails"} :
    input' = [of |-> "gated", tool |-> Tool(base, layers), ctx |-> Ctx(0, approver, FALSE), in |-> in,
              w |-> [takes |-> 1, partial |-> FALSE, verdict |-> verdict, summary |-> summary]]

PickAudited ==
  \E layers \in SeqsUpTo({Gate("safety", assessor, approver, failOpen) :
                            assessor \in {Policy0, Custom, [kind |-> "none"]},
                            approver \in {"none", "yes", "no", "error"}, failOpen \in BOOLEAN}
                         \cup {Timeout(2, 3), Amend(Op("delete", "secret"))}, 2) :
  \E tool \in {{}, {Tool(Typed(TRUE, <<>>, {}), <<>>)}}, done \in BOOLEAN, takes \in {1, 3}, verdict \in Verdicts :
    input' = [of |-> "audited", action |-> Action(layers, TRUE, tool), ctx |-> Ctx(0, "none", done),
              in |-> Input(TRUE, {}, "good"),
              w |-> [takes |-> takes, partial |-> FALSE, verdict |-> verdict, summary |-> "fails"]]

\* Tool calls run no longer than any timeout around them allows, unless zero was
\* requested, and a late tool gives an error result (toolmw/timeout.go).
TimeoutsApply == input.of = "timed" => TC!TimeoutsHold(input.tool, input.ctx, input.in, input.w)
\* A tool runs only if every gate around it let it, which a gate also does for a
\* decision it does not know, and the audit of the gates of actions tells whether
\* it ran (toolmw/riskgate.go, safety/safety.go).
GatedCallsOnly ==
  /\ input.of = "gated" => TC!GatesHold(input.tool, input.ctx, input.in, input.w)
  /\ input.of = "audited" => TC!AuditTellsOutcome(input.action, input.ctx, input.in, input.w)

-----------------------------------------------------------------------------
(* What tools leave behind.                                                  *)

TD == INSTANCE ToolData

Block(type, fields) == [type |-> type, fields |-> fields]
FieldValues == {"", "v"}
TextBlocks ==
  {Block("text", [Content |-> v]) : v \in FieldValues} \cup
  {Block("code", [Lang |-> l, Content |-> v]) : l, v \in FieldValues} \cup
  {Block("table", [Headers |-> h, Rows |-> r]) : h, r \in FieldValues} \cup
  {Block("list", [Items |-> "v"]), Block("attrs", [Attrs |-> "v"])} \cup
  {Block("image", [Alt |-> a, MediaType |-> t, Data |-> d]) : a, t, d \in FieldValues}
DisplayBlocks ==
  {Block("diff", [Path |-> "v", UnifiedDiff |-> u, Added |-> n, Removed |-> "v"]) : u, n \in FieldValues} \cup
  {Block("command", [Command |-> "v", Workdir |-> d, Stdout |-> o, Stderr |-> "", ExitCode |-> "v",
                     Duration |-> "v", TimedOut |-> t]) : d, o, t \in FieldValues} \cup
  {Block("file", [Path |-> "v", Content |-> "v", StartLine |-> n, EndLine |-> "v", TotalLines |-> n,
                  Truncated |-> t]) : n, t \in FieldValues}
Calls1 == {[op |-> "error", block |-> Block("", <<>>)]} \cup {[op |-> "block", block |-> b] : b \in TextBlocks}
          \cup {[op |-> "display", block |-> b] : b \in DisplayBlocks}
Nested(calls) ==
  <<[op |-> "block", block |-> Block("section", [Title |-> "v", Content |-> TD!Build(calls)])],
    [op |-> "error", block |-> Block("", <<>>)]>>
PickResult ==
  \/ \E calls \in SeqsUpTo(Calls1, 2), nested \in BOOLEAN :
       input' = [of |-> "result", result |-> TD!Build(IF nested THEN Nested(calls) ELSE calls)]
  \/ \E content \in FieldValues, isError \in BOOLEAN :
       input' = [of |-> "result", result |-> [type |-> "text", content |-> content, isError |-> isError]]
  \/ \E type \in {"todo_item", "tools_list"} : input' = [of |-> "result", result |-> [type |-> type]]

GlobMatches == [a |-> {"a"}, b |-> {"b"}, all |-> {"a", "b", "c"}, none |-> {}]
PickManager ==
  \E history \in SeqsUpTo({[op |-> "register", names |-> <<"a", "b">>], [op |-> "register", names |-> <<"b", "c">>],
                           [op |-> "activate", names |-> <<"a">>], [op |-> "deactivate", names |-> <<"b", "none">>],
                           [op |-> "deactivate", names |-> <<"all">>]}, 2),
     between1, between2 \in SeqsUpTo({[op |-> "register", names |-> <<"b", "c">>], [op |-> "activate", names |-> <<"a">>],
                                      [op |-> "deactivate", names |-> <<"all">>]}, 1),
     patterns \in SeqsUpTo(DOMAIN GlobMatches, 2) \ {<<>>} :
    input' = [of |-> "manager", history |-> history, between1 |-> between1, between2 |-> between2,
              patterns |-> patterns]

TodoCalls ==
  {[session |-> s, action |-> "create", id |-> 0, title |-> "t", done |-> {}] : s \in {"", "x"}} \cup
  {[session |-> "x", action |-> "update", id |-> id, title |-> t, done |-> d] :
     id \in {1, 2}, t \in {"", " ", "u"}, d \in {{}, {TRUE}}} \cup
  {[session |-> "x", action |-> "delete", id |-> id, title |-> "", done |-> {}] : id \in {1, 2}}
PickTodo == \E calls \in SeqsUpTo(TodoCalls, 4) : input' = [of |-> "todo", calls |-> calls]

Usages ==
  {[estimate |-> e, request |-> q, turn |-> t, provider |-> "p", model |-> <<"m">>, tokens |-> u, costs |-> <<>>] :
     e \in BOOLEAN, q \in {"q1", "q2"}, t \in {"", "t1"}, u \in {[input |-> 0], [input |-> 2, output |-> 1], [input |-> 3]}} \cup
  {TD!FromRunnerEvent([identity |-> [provider |-> "", model |-> <<>>], model |-> <<"p", "m">>,
                       tokens |-> [input |-> 1], costs |-> [input |-> 5, output |-> 0]], [provider |-> p, model |-> <<>>], "t1") :
     p \in {"", "p", "r"}}
PickUsage ==
  \E records \in SeqsUpTo(Usages, 3), priced \in BOOLEAN :
    input' = [of |-> "usage",
              records |-> FoldLeft(LAMBDA acc, r : TD!RecordUsage(acc, r, priced), <<>>, records)]

\* What of a tool's result survives being written and read (tool/result.go).
ResultsSurvive == input.of = "result" => TD!ResultSurvives(input.result)
\* The books of the tools agree with the calls made: activation reports, todo
\* lists and usage totals (toolactivation, tools/toolmgmt, tools/todo, usage).
BooksAgree ==
  /\ input.of = "manager" => TD!ActivationReported(input.history, input.between1, input.between2,
                                                    input.patterns, GlobMatches)
  /\ input.of = "todo" => TD!TodosAreTheCalls(input.calls)
  /\ input.of = "usage" => TD!UsageAddsUp(input.records)

-----------------------------------------------------------------------------
NoInput == [of |-> "none"]
Init == input = NoInput
Pick == input = NoInput /\ (PickEdit \/ PickPatch \/ PickRanges \/ PickTree \/ PickGlob \/ PickSearch
                          \/ PickLine \/ PickCall \/ PickIndex
                          \/ PickApp \/ PickTools \/ PickWorld \/ PickDir \/ PickConfig
                          \/ PickValid \/ PickAgent \/ PickPolicy \/ PickResume
                          \/ PickTimed \/ PickGated \/ PickAudited
                          \/ PickResult \/ PickManager \/ PickTodo \/ PickUsage)
Leave == input # NoInput /\ input' = NoInput
Next == Pick \/ Leave

-----------------------------------------------------------------------------
(* Edits that do not conflict compose, a patch made from a content changes   *)
(* it as the diff says, a read shows exactly the requested lines, a listing  *)
(* is complete or says that it is cut, and glob and grep, which are cut      *)
(* silently, are complete below their limits (edit_impl.go, patches,         *)
(* file_read, dir_tree, glob and grep).                                      *)
FileToolsAreExact == [][EditsAreComposed /\ PatchesApply /\ ReadsAreExact /\ ListingsComplete]_input

(* A command line is read as it was said, a structured call and a command    *)
(* line reach the same handler with the same values, and what conforms to    *)
(* the schema shown to a model runs, but for empty values and numbers of a   *)
(* million or more (command/parse.go, tree.go, typed.go, schema.go).         *)
CommandsAreRead == [][LinesAreRead /\ CommandRoutesAgree /\ SchemaDescribesInput]_input

(* Registering contributions loses none silently; each tool has exactly the  *)
(* middlewares of the places that are applied to it, once and in order,      *)
(* which are not all that WithToolMiddlewares and ToolMiddlewarePlugin say;  *)
(* and a resolution does not depend on what the resolver has cached (app.go, *)
(* resource/resolver.go).                                                    *)
AssemblyLosesNothing ==
  [][CachedResolutionAgrees /\ ContributionsAccountedFor /\ ToolsWrappedOnce]_input


(* The agent, model, limits and session that a command line asked for are    *)
(* the ones that start, one inference flag replacing the whole inference of  *)
(* the agent's file, and an approved-only policy is kept on every route      *)
(* (terminal/cli/load.go, harness/load.go, agent/model_route.go).            *)
LaunchedAsAsked == [][AgentAsAsked /\ ApprovedModelsOnly]_input

(* Tool calls end at the tightest timeout around them, unless the call asked *)
(* for zero, which switches the outermost one off with its cap; they run     *)
(* only past every gate, where a decision that a gate does not know also     *)
(* lets them pass; and the audit tells what happened, ending in that case    *)
(* with the bare assessment (toolmw, actionmw, safety).                      *)
ToolCallsAreGuarded == [][TimeoutsApply /\ GatedCallsOnly]_input

(* Text and block results survive being written and read, but for the data   *)
(* and the media type of images, and a tool's own type of result is refused; *)
(* activation reports, todo lists and usage totals agree with the calls made *)
(* (tool/result.go, toolactivation, tools/toolmgmt, tools/todo, usage).      *)
ToolBooksAgree == [][ResultsSurvive /\ BooksAgree]_input
=============================================================================
