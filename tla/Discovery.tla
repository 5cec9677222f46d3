----------------------------- MODULE Discovery -----------------------------
(***************************************************************************)
(* Which directories make up an application: the manifest or the           *)
(* conventional places, the user's own resources, remote repositories; the *)
(* default agent; and the checks of Validate (agentdir/resolve.go,         *)
(* source.go, external.go, validate.go).                                   *)
(*                                                                         *)
(* A world is [workspace, home, external, manifest, remotes]: workspace    *)
(* and home are file systems, external the known files of other tools,     *)
(* manifest <<>> or one manifest, remotes the repositories by name.  The   *)
(* path of the workspace is <<"dir">>.  A setting that may be missing is a *)
(* set of at most one value.                                               *)
(***************************************************************************)
EXTENDS AgentDirs
LOCAL INSTANCE SequencesExt

Override(setting, default) == IF setting = {} THEN default ELSE CHOOSE x \in setting : TRUE
Under(fs, dir) ==
  [p \in {SubSeq(q, Len(dir) + 1, Len(q)) : q \in {q \in DOMAIN fs : IsPrefix(dir, q)}} |->
     fs[dir \o p]]
osDirExists(fs, dir) == \E q \in DOMAIN fs : IsPrefix(dir, q)

\* sourceForCandidate
sourceForCandidate(root, scope) ==
  [scope |-> scope, root |-> root,
   ecosystem |-> IF ".claude" \in Range(root) THEN "claude" ELSE "agents"]

NoSource == [scope |-> "", root |-> <<>>, ecosystem |-> ""]
EmptyResolution == [bundle |-> EmptyBundle(NoSource), sources |-> <<>>, defaultAgent |-> "",
                    plugins |-> <<>>, modelPolicy |-> {}, loaded |-> <<>>, cloned |-> {}]

bundleHasResources(b) == \E k \in DOMAIN b \ {"source"} : b[k] # <<>>

\* appendResolvedBundle; loaded records, for the properties, what was read.
appendResolvedBundle(out, b) ==
  [out EXCEPT !.bundle = [BundleAppend(@, b) EXCEPT !.source = IF @ = NoSource THEN b.source ELSE @],
              !.sources = IF bundleHasResources(b) THEN Append(@, b.source.root) ELSE @,
              !.loaded = Append(@, b.source)]

\* One more directory, unless an earlier one failed.
LoadInto(r, fs, source, by) ==
  LET b == LoadFSWithSource(fs, source, by)
  IN IF ~r.ok THEN r
     ELSE IF ~b.ok THEN b
     ELSE Ok(appendResolvedBundle(r.value, b.value))

\* The user's own .agents and .claude.
LoadGlobal(r, world) ==
  FoldLeft(LAMBDA acc, name :
             IF osDirExists(world.home, <<name>>)
             THEN LoadInto(acc, Under(world.home, <<name>>),
                           sourceForCandidate(<<"home", name>>, "user"), "user")
             ELSE acc,
           r, <<".agents", ".claude">>)

\* appendExternalCandidates: disabled tools, with an information each.
appendExternalCandidates(r, world, policy) ==
  IF ~r.ok \/ ~policy.external THEN r
  ELSE Ok([r.value EXCEPT
         !.bundle.tools = @ \o [i \in DOMAIN world.external |->
                                  [name |-> world.external[i], enabled |-> FALSE]],
         !.bundle.diagnostics = @ \o [i \in DOMAIN world.external |->
                                        <<"info", world.external[i], "external">>]])

isRemoteSource(src) == src.remote

\* sanitizeRef: separators become "_".  A worktree is kept per host, path and
\* sanitised ref.
sanitizeRef(ref) == IF ref = <<>> THEN "HEAD"
                    ELSE FoldLeft(LAMBDA s, part : s \o "_" \o part, ref[1], Tail(ref))

\* syncGitWorktree and refreshGitWorktree: a clone where there is none, else a
\* fetch of the ref; afterwards the worktree holds the ref's files.
syncGitWorktree(out, src, world) ==
  IF <<src.name, src.ref>> \in DOMAIN world.remotes
  THEN Ok([out EXCEPT !.cloned = @ \cup {<<src.name, sanitizeRef(src.ref)>>}])
  ELSE Err("git")

\* materializeSource: the file system and the source of one manifest entry.
materializeSource(out, src, world, policy) ==
  IF src.remote
  THEN IF ~policy.remote THEN Err("allow_remote")
       ELSE LET synced == syncGitWorktree(out, src, world)
            IN IF ~synced.ok THEN synced
               ELSE Ok([out |-> synced.value, fs |-> world.remotes[<<src.name, src.ref>>],
                        source |-> [scope |-> "git", root |-> <<src.name, sanitizeRef(src.ref)>>,
                                    ecosystem |-> "agents"]])
  ELSE Ok([out |-> out, fs |-> Under(world.workspace, src.path),
           source |-> sourceForCandidate(<<"dir">> \o src.path, "project")])

\* readManifest and AppManifest.Validate
readManifest(world) ==
  IF world.manifest = <<>> THEN Ok(FALSE)
  ELSE IF ~world.manifest[1].parses \/ "" \in Range(world.manifest[1].plugins)
       THEN Err("manifest") ELSE Ok(TRUE)

LocalPolicy(policy) == [policy EXCEPT !.global = FALSE, !.remote = FALSE]

\* Mutant: the manifest has the last word on the user's own resources.
manifestPolicyLast(m, opts) ==
  LET base == [opts.policy EXCEPT !.external = Override(m.external, @)]
      kept == IF opts.localOnly THEN LocalPolicy(base) ELSE [base EXCEPT !.remote = Override(m.remote, @)]
  IN [kept EXCEPT !.global = Override(m.global, @)]

\* The policy of resolveManifest: the manifest may widen what the options
\* ask for, except in local-only discovery.
manifestPolicy(m, opts) ==
  LET base == [opts.policy EXCEPT !.external = Override(m.external, @)]
  IN IF opts.localOnly THEN LocalPolicy(base)
     ELSE [base EXCEPT !.global = Override(m.global, @), !.remote = Override(m.remote, @)]

\* ParseModelUseCase; summarization is the other known use case.
ParseModelUseCase(text) ==
  IF text \in {"", "agentic_coding", "summarization"} THEN Ok(text) ELSE Err("use case")
\* ParseSourceAPI, with names for the APIs.
ParseSourceAPI(text) ==
  IF text \in {"", "auto"} THEN Ok("")
  ELSE IF text \in {"responses", "chat", "messages"} THEN Ok(text) ELSE Err("source api")

NoPolicy == [useCase |-> "", sourceAPI |-> "", approvedOnly |-> FALSE, allowDegraded |-> FALSE,
             allowUntested |-> FALSE, evidence |-> <<>>]
Configured(policy) == policy # NoPolicy
UnsetPolicy == [useCase |-> "", sourceAPI |-> "", approvedOnly |-> {}, allowDegraded |-> {},
                allowUntested |-> {}, evidence |-> ""]

\* ManifestModelPolicy.AgentPolicy: at most one policy.
AgentPolicy(p, baseDir) ==
  LET useCase == ParseModelUseCase(p.useCase)
      api     == ParseSourceAPI(p.sourceAPI)
  IN IF p = UnsetPolicy THEN Ok({})
     ELSE IF ~useCase.ok THEN useCase
     ELSE IF ~api.ok THEN api
     ELSE Ok({[useCase |-> useCase.value, sourceAPI |-> api.value,
               approvedOnly |-> Override(p.approvedOnly, FALSE),
               allowDegraded |-> Override(p.allowDegraded, FALSE),
               allowUntested |-> Override(p.allowUntested, FALSE),
               evidence |-> IF p.evidence = "" THEN <<>> ELSE Append(baseDir, p.evidence)]})

resolveManifest(world, opts) ==
  LET m       == world.manifest[1]
      policy  == manifestPolicy(m, opts)
      sources == IF m.sources = <<>> THEN <<[remote |-> FALSE, path |-> <<>>]>> ELSE m.sources
      Step(r, src) ==
        IF ~r.ok THEN r
        ELSE IF opts.localOnly /\ isRemoteSource(src)
        THEN Ok([r.value EXCEPT !.bundle.diagnostics = Append(@, <<"info", src.name, "remote">>)])
        ELSE LET got == materializeSource(r.value, src, world, policy)
             IN IF ~got.ok THEN got
                ELSE LoadInto(Ok(got.value.out), got.value.fs, got.value.source, "manifest")
      models == AgentPolicy(m.modelPolicy, <<"dir">>)
      start  == Ok([EmptyResolution EXCEPT !.defaultAgent = m.defaultAgent, !.plugins = m.plugins,
                                           !.modelPolicy = models.value])
      loaded == FoldLeft(Step, start, sources)
      all    == IF policy.global THEN LoadGlobal(loaded, world) ELSE loaded
  IN IF ~models.ok THEN models
     ELSE appendExternalCandidates(all, world, policy)

\* ResolveDirWithOptions
ResolveDirWithOptions(world, opts0) ==
  LET opts  == IF opts0.localOnly THEN [opts0 EXCEPT !.policy = LocalPolicy(@)] ELSE opts0
      found == readManifest(world)
      places == FoldLeft(LAMBDA r, name :
                  IF osDirExists(world.workspace, <<name>>)
                  THEN LoadInto(r, Under(world.workspace, <<name>>),
                                sourceForCandidate(<<"dir", name>>, "project"), name)
                  ELSE r,
                Ok(EmptyResolution), <<".agents", ".claude">>)
      whole == LoadFSWithSource(world.workspace, sourceForCandidate(<<"dir">>, "project"), "dir")
      local == IF ~places.ok \/ places.value.sources # <<>> THEN places
               ELSE IF ~whole.ok THEN whole
               ELSE Ok([places.value EXCEPT !.bundle = whole.value, !.sources = <<<<"dir">>>>,
                                            !.loaded = Append(@, whole.value.source)])
      all   == IF opts.policy.global THEN LoadGlobal(local, world) ELSE local
  IN IF ~found.ok THEN found
     ELSE IF found.value THEN resolveManifest(world, opts)
     ELSE appendExternalCandidates(all, world, opts.policy)

AgentNames(resolution) == {s.name : s \in Range(resolution.bundle.agentSpecs)} \ {""}

\* ResolveDefaultAgent: explicit, the manifest's, the only one, "main", "default".
ResolveDefaultAgent(names, explicit, manifestDefault) ==
  IF explicit # "" THEN IF explicit \in names THEN Ok(explicit) ELSE Err("not found")
  ELSE IF manifestDefault # ""
    THEN IF manifestDefault \in names THEN Ok(manifestDefault) ELSE Err("not found")
  ELSE IF \E n \in names : names = {n} THEN Ok(CHOOSE n \in names : TRUE)
  ELSE IF "main" \in names THEN Ok("main")
  ELSE IF "default" \in names THEN Ok("default")
  ELSE Err("no choice")

\* Resolution.UpdateAgentSpec: the first agent of that name. update is a function
\* on the specs.
UpdateAgentSpec(resolution, name, update) ==
  LET specs == resolution.bundle.agentSpecs
      hits  == {i \in DOMAIN specs : specs[i].name = name}
      first == CHOOSE i \in hits : \A j \in hits : i <= j
  IN IF name = "" \/ hits = {} THEN Err("not found")
     ELSE Ok([resolution EXCEPT !.bundle.agentSpecs[first] = update[@]])

----------------------------------------------------------------------------
(* Validate: the checks, as [category, status] *)

Checks(cond, category, status) == IF cond THEN {[category |-> category, status |-> status]} ELSE {}
DefaultPolicy == [global |-> FALSE, external |-> FALSE, remote |-> FALSE]

\* Mutant: the default agent is not looked for.
agentChecksAnyDefault(world, names) ==
  Checks(names = {}, "agent", "error")

agentChecks(world, names) ==
  Checks(names = {}, "agent", "error")
  \cup Checks(/\ world.manifest # <<>> /\ world.manifest[1].defaultAgent # ""
              /\ world.manifest[1].defaultAgent \notin names, "manifest", "error")

\* The skills agents name, among those found and those of the user's
\* directories, the latter by directory and only if the manifest asks.
skillChecks(world, bundle) ==
  LET globals == {e.name : e \in UNION {Range(Entries(world.home, <<b, "skills">>)) : b \in {".agents", ".claude"}}}
      asked   == world.manifest # <<>> /\ TRUE \in world.manifest[1].global
      known   == {s.name : s \in Range(bundle.skills)} \cup (IF asked THEN globals ELSE {})
      named   == UNION {Range(a.skills) : a \in Range(bundle.agentSpecs)}
  IN Checks(named \subseteq known, "skill", "passed")
     \cup Checks(~(named \subseteq known), "skill", "error")
     \cup Checks(globals # {} /\ ~asked, "skill", "warning")

\* References of workflows and commands to what is not declared.
referenceChecks(bundle) ==
  LET actions == {a.name : a \in Range(bundle.actions)}
      flows   == {w.name : w \in Range(bundle.workflows)}
      StepActions(w) == {stringFromAny(At(mapFromAny(s), "action")) :
                           s \in Range(sliceFromAny(At(w.definition, "steps")))}
  IN Checks(\E w \in Range(bundle.workflows) : \E n \in StepActions(w) \ {""} : n \notin actions,
            "workflow", "warning")
     \cup Checks(\E c \in Range(bundle.commandResources) :
                   \/ c.kind = "workflow" /\ c.target \notin flows
                   \/ c.kind = "action" /\ c.target \notin actions, "command", "warning")

\* Validate.  The comment in the code says that resources are resolved
\* "local-only to avoid side effects"; the options do not say so, and a manifest
\* that allows it is followed to the user's directories and to repositories.
Validate(world) ==
  LET found == readManifest(world)
      r     == ResolveDirWithOptions(world, [policy |-> DefaultPolicy, localOnly |-> FALSE])
      specs == r.value.bundle.agentSpecs
  IN IF ~found.ok THEN found
     ELSE Ok(Checks(~found.value, "manifest", "warning")
             \cup Checks(found.value /\ world.manifest[1].sources = <<>>, "manifest", "error")
             \cup IF ~r.ok THEN Checks(TRUE, "discovery", "error")
                  ELSE Checks(\E s \in Range(specs) : ~s.hasFrontmatter, "agent", "error")
                       \cup Checks(\E s \in Range(specs) : s.tools = <<>>, "agent", "warning")
                       \cup agentChecks(world, {s.name : s \in Range(specs)})
                       \cup skillChecks(world, r.value.bundle)
                       \cup referenceChecks(r.value.bundle))

Valid(world) == LET v == Validate(world)
                IN v.ok /\ \A c \in v.value : c.status # "error"

----------------------------------------------------------------------------
(* Properties of one world *)

\* Local-only discovery (used to look at a directory without side effects)
\* clones nothing and reads nothing of the user's, whatever the manifest and
\* the caller's policy say (ResolveDirWithOptions, resolveManifest).
LocalOnlyStaysLocal(world, policy) ==
  LET r == ResolveDirWithOptions(world, [policy |-> policy, localOnly |-> TRUE])
  IN r.ok => /\ r.value.cloned = {}
             /\ \A i \in DOMAIN r.value.loaded : r.value.loaded[i].scope = "project"

\* What is written inline, or exposed by a workflow's file, is there: every
\* command and trigger made from it names a workflow of the same bundle, and
\* each has an identity of its bundle's source (commandTargetFromMap,
\* normalizeInlineWorkflowTarget, workflowExposures, stampResourceIDs).
InlineTargetsLoaded(fs, source) ==
  LET b       == LoadFSWithSource(fs, source, "dir").value
      flows   == {w.name : w \in Range(b.workflows)}
      Inline(kind) == {e \in UNION {Range(Entries(fs, d)) : d \in {<<".agents", kind>>, <<kind>>}} :
                         At(mapFromAny(At(e.doc.fields, "target")), "workflow").is = "map"}
  IN LoadFSWithSource(fs, source, "dir").ok =>
       /\ \A e \in Inline("commands") : \E c \in Range(b.commandResources) :
            c.kind = "workflow" /\ c.target \in flows /\ c.rid.kind = "command"
       /\ \A t \in Range(b.triggers) :
            t.name \in {Or(stringFromAny(At(e.doc.fields, "id")), e.name) : e \in Inline("triggers")}
              => stringFromAny(At(t.target, "workflow")) \in flows
=============================================================================
