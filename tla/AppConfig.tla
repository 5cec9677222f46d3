----------------------------- MODULE AppConfig -----------------------------
(***************************************************************************)
(* The configuration files of an application (appconfig/loader.go,         *)
(* appconfig.go) and the resolution made of them                           *)
(* (plugins/configplugin/discovery.go).                                    *)
(*                                                                         *)
(* A path is a sequence of names.  A disk is [files, dirs]: files gives a  *)
(* file's documents, dirs the file system below a directory of resources.  *)
(* A source pattern is [abs, path, glob]: an absolute or a relative path,  *)
(* or all that lies in the directory with that path.  Names in a directory *)
(* are read in the order of NameOrder.  A setting that may be missing is a *)
(* set of at most one value.                                               *)
(***************************************************************************)
EXTENDS Discovery
LOCAL INSTANCE SequencesExt

NameOrder == <<".agents", ".claude", "a.yaml", "agentsdk.app.yaml", "b.yaml", "d">>

DocKinds == {"agent", "command", "workflow", "action", "datasource", "trigger"}

EmptyConfig == [name |-> "", defaultAgent |-> "", sources |-> <<>>, plugins |-> <<>>,
                resolution |-> {}, discovery |-> {}, modelPolicy |-> {}]

\* LoadResult, with the loader's visited paths and its error.
NewLoader == [visited |-> {}, config |-> EmptyConfig, docs |-> [k \in DocKinds |-> <<>>],
              bundles |-> <<>>, sources |-> <<>>, entryPath |-> <<>>, err |-> ""]

----------------------------------------------------------------------------
(* Documents *)

\* mergeConfig: what the later file says wins; sources and plugins add up.
mergeConfig(base, overlay) ==
  [name |-> Or(overlay.name, base.name), defaultAgent |-> Or(overlay.defaultAgent, base.defaultAgent),
   sources |-> base.sources \o overlay.sources, plugins |-> base.plugins \o overlay.plugins,
   resolution |-> IF overlay.resolution = {} THEN base.resolution ELSE overlay.resolution,
   discovery |-> IF overlay.discovery = {} THEN base.discovery ELSE overlay.discovery,
   modelPolicy |-> IF overlay.modelPolicy = {} THEN base.modelPolicy ELSE overlay.modelPolicy]

\* A document without a kind is a configuration.
docKind(doc) == Or(doc.kind, "config")

\* applyDocument
applyDocument(l, doc) ==
  IF l.err # "" THEN l
  ELSE IF docKind(doc) = "config"
    THEN IF doc.include \/ ~doc.decodes THEN [l EXCEPT !.err = "config"]
         ELSE [l EXCEPT !.config = mergeConfig(@, doc.config)]
  ELSE IF docKind(doc) \notin DocKinds \/ ~doc.decodes THEN [l EXCEPT !.err = "document"]
  ELSE [l EXCEPT !.docs[docKind(doc)] = Append(@, doc)]

\* loadFileInto and parseDocuments; empty documents are not in a file.
loadFileInto(l, disk, path) ==
  IF ~disk.files[path].parses THEN [l EXCEPT !.err = "parse"]
  ELSE FoldLeft(applyDocument, l, disk.files[path].docs)

----------------------------------------------------------------------------
(* Loader *)

\* expandVars: a relative pattern is of the given directory.
expandVars(pattern, baseDir) == IF pattern.abs THEN pattern.path ELSE baseDir \o pattern.path

Exists(disk, path) == path \in DOMAIN disk.files \cup DOMAIN disk.dirs

\* The paths of a pattern; a glob's in the order of their names.
Matches(disk, pattern, baseDir) ==
  LET at == expandVars(pattern, baseDir)
  IN IF ~pattern.glob THEN <<at>>
     ELSE SelectSeq([i \in DOMAIN NameOrder |-> Append(at, NameOrder[i])], LAMBDA p : Exists(disk, p))


\* loadAgentDir
loadAgentDir(l, disk, dir) ==
  LET b == LoadFSWithSource(disk.dirs[dir], sourceForCandidate(dir, "project"), dir)
      marked == [l EXCEPT !.visited = @ \cup {dir}]
  IN IF dir \in l.visited THEN l
     ELSE IF ~b.ok THEN [marked EXCEPT !.err = "agentdir"]
     ELSE [marked EXCEPT !.bundles = Append(@, b.value), !.sources = Append(@, dir)]

RECURSIVE loadRoot(_, _, _)

\* loadSource: what is not there is skipped.
loadSource(l, disk, path) ==
  IF l.err # "" \/ path \in l.visited \/ ~Exists(disk, path) THEN l
  ELSE IF path \in DOMAIN disk.dirs THEN loadAgentDir(l, disk, path)
  ELSE loadRoot(l, disk, path)

\* loadRoot: the file, then every source known by now, also those of files
\* loaded before, as seen from this file's directory.
loadRoot(l, disk, path) ==
  LET read == loadFileInto([l EXCEPT !.visited = @ \cup {path}], disk, path)
      told == [read EXCEPT !.entryPath = IF @ = <<>> THEN path ELSE @, !.sources = Append(@, path)]
  IN IF l.err # "" \/ path \in l.visited THEN l
     ELSE IF read.err # "" THEN read
     ELSE FoldLeft(LAMBDA acc, p : loadSource(acc, disk, p), told,
                   FlattenSeq([i \in DOMAIN told.config.sources |->
                                 Matches(disk, told.config.sources[i], Front(path))]))

\* findConfigFile and FindEntryFile: the first of the names that exists.
EntryFileNames == <<"agentsdk.app.yaml", "agentsdk.app.yml", "agentsdk.app.json">>
UserConfigNames == <<"default.config.yaml", "default.config.yml", "default.config.json">>
findConfigFile(disk, dir, names) ==
  SelectSeq([i \in DOMAIN names |-> Append(dir, names[i])], LAMBDA p : p \in DOMAIN disk.files)
LoadEntry(l, disk, dir, names) ==
  LET found == findConfigFile(disk, dir, names)
  IN IF found = <<>> THEN l ELSE loadRoot(l, disk, found[1])

\* Loader.Load; opts is [defaults, roots, workDir, noUser].
Load(disk, opts) ==
  LET local  == SelectSeq(<<Append(opts.workDir, ".agents"), Append(opts.workDir, ".claude")>>,
                          LAMBDA p : p \in DOMAIN disk.dirs)
      start  == [NewLoader EXCEPT
                   !.config = [opts.defaults EXCEPT
                     !.sources = [i \in DOMAIN local |-> [abs |-> TRUE, path |-> local[i], glob |-> FALSE]]]]
      dirs   == FoldLeft(LAMBDA l, p : loadSource(l, disk, p), start, local)
      user   == IF opts.noUser THEN dirs ELSE LoadEntry(dirs, disk, <<"home", ".agentsdk">>, UserConfigNames)
      Root(l, root) ==
        LET p == expandVars(root, opts.workDir)
        IN IF p \in DOMAIN disk.files THEN loadRoot(l, disk, p)
           ELSE LoadEntry(l, disk, p, EntryFileNames)
      roots  == FoldLeft(Root, user, opts.roots)
      entry  == LoadEntry(roots, disk, opts.workDir, EntryFileNames)
      done   == FoldLeft(LAMBDA l, p : loadSource(l, disk, expandVars(p, opts.workDir)), entry,
                         opts.defaults.sources)
  IN IF done.err # "" THEN Err(done.err)
     ELSE Ok([done EXCEPT !.entryPath = IF @ = <<>> /\ done.sources # <<>> THEN done.sources[1] ELSE @])

\* MaterializedConfig and MaterializedDocuments
MaterializedConfig(r) ==
  [r.config EXCEPT !.sources = FoldLeft(LAMBDA acc, p : IF p \in Range(acc) THEN acc ELSE Append(acc, p),
                                        <<>>, r.sources)]
MaterializedDocuments(r) ==
  <<[kind |-> "config", doc |-> MaterializedConfig(r)]>>
  \o FlattenSeq([i \in 1..6 |->
       LET k == <<"agent", "command", "workflow", "action", "datasource", "trigger">>[i]
       IN [j \in DOMAIN r.docs[k] |-> [kind |-> k, doc |-> r.docs[k][j]]]])

----------------------------------------------------------------------------
(* Contributions *)

\* ToAgentSpecs: no inference options unless one of them is given.
ToAgentSpecs(r) ==
  [i \in DOMAIN r.docs["agent"] |->
     LET doc == r.docs["agent"][i]
     IN [name |-> doc.name, by |-> doc.by, from |-> <<>>, tools |-> doc.tools, skills |-> <<>>,
         commands |-> <<>>, skillSources |-> <<>>, hasFrontmatter |-> FALSE, instructions |-> <<>>,
         inference |-> doc.inference, maxSteps |-> doc.maxSteps, system |-> doc.system]]

\* ToContributionBundle
ToContributionBundle(r) ==
  LET ns == IF r.config.name = "" THEN <<>> ELSE <<r.config.name>>
      Of(kind, Item(_)) ==
        [i \in DOMAIN r.docs[kind] |->
           With(Item(r.docs[kind][i]), "rid",
                [kind |-> kind, origin |-> "config", namespace |-> ns, name |-> r.docs[kind][i].name])]
      Kinded(doc) == [name |-> doc.name, kind |-> doc.of]
  IN [EmptyBundle(NoSource) EXCEPT
        !.workflows = Of("workflow", LAMBDA doc : [name |-> doc.name, by |-> doc.by, definition |-> doc.definition]),
        !.actions = Of("action", Kinded), !.dataSources = Of("datasource", Kinded),
        !.triggers = Of("trigger", LAMBDA doc : [name |-> doc.name, target |-> doc.target,
                                                 definition |-> doc.definition]),
        !.commandResources = Of("command", LAMBDA doc :
           [name |-> doc.name, path |-> <<doc.name>>, policy |-> commandPolicy(<<>>),
            kind |-> IF doc.workflow # "" THEN "workflow" ELSE IF doc.action # "" THEN "action"
                     ELSE IF doc.prompt # "" THEN "prompt" ELSE "",
            target |-> Or(doc.workflow, doc.action)])]

\* ModelPolicyConfig.AgentPolicy does what the manifest's does.
ConfigAgentPolicy(p, baseDir) == AgentPolicy(p, baseDir)

\* ResolutionFromAppConfig: inline contributions, the directories in the order
\* they were loaded, and the inline agents after those of the directories.
ResolutionFromAppConfig(r) ==
  LET ns     == IF r.config.name # "" THEN <<r.config.name>>
                ELSE IF Len(r.entryPath) > 1 THEN <<r.entryPath[Len(r.entryPath) - 1]>> ELSE <<>>
      start  == [EmptyBundle([scope |-> "", ecosystem |-> "config", root |-> ns]) EXCEPT !.diagnostics = <<>>]
      merged == FoldLeft(BundleAppend, start, <<ToContributionBundle(r)>> \o r.bundles)
      policy == IF r.config.modelPolicy = {} THEN Ok({})
                ELSE ConfigAgentPolicy(Override(r.config.modelPolicy, UnsetPolicy), Front(r.entryPath))
  IN IF "" \in Range(r.config.plugins) THEN Err("plugin name")
     ELSE IF ~policy.ok THEN policy
     ELSE Ok([EmptyResolution EXCEPT
            !.bundle = [merged EXCEPT !.agentSpecs = @ \o ToAgentSpecs(r)],
            !.sources = r.sources, !.defaultAgent = r.config.defaultAgent,
            !.plugins = r.config.plugins, !.modelPolicy = policy.value])

----------------------------------------------------------------------------
(* Properties of one disk *)

\* What a file itself names, as seen from its own directory.
OwnSources(disk, path) ==
  IF path \notin DOMAIN disk.files THEN {}
  ELSE LET docs == SelectSeq(disk.files[path].docs, LAMBDA d : docKind(d) = "config")
           pats == FlattenSeq([i \in DOMAIN docs |-> docs[i].config.sources])
       IN UNION {{p \in Range(Matches(disk, pats[i], Front(path))) : Exists(disk, p)} : i \in DOMAIN pats}

RECURSIVE Reachable(_, _)
Reachable(disk, paths) ==
  LET more == paths \cup UNION {OwnSources(disk, p) : p \in paths}
  IN IF more = paths THEN paths ELSE Reachable(disk, more)

\* Where a load starts: the directories of resources, the roots, the entry.
StartPaths(disk, opts) ==
  LET Entry(dir) == LET found == findConfigFile(disk, dir, EntryFileNames)
                    IN IF found = <<>> THEN {} ELSE {found[1]}
      Of(p) == IF p \in DOMAIN disk.files THEN {p} ELSE Entry(p)
  IN {p \in {Append(opts.workDir, ".agents"), Append(opts.workDir, ".claude")} : p \in DOMAIN disk.dirs}
     \cup UNION {Of(expandVars(opts.roots[i], opts.workDir)) : i \in DOMAIN opts.roots}
     \cup Entry(opts.workDir)

\* Whatever the sources name, and also when they name each other in a circle,
\* a load ends with every file and directory that is reached from the roots
\* loaded, each once, every document of a loaded file printed once, and the
\* printed configuration naming the sources that discovery reports
\* (loadRoot, loadSource, loadAgentDir; the comment of MaterializedConfig).
LoadsEachOnce(disk, opts) ==
  LET r == Load(disk, opts)
      v == r.value
      loaded == {p \in Range(v.sources) : p \in DOMAIN disk.files}
      Times(doc, kind) == Len(SelectSeq(MaterializedDocuments(v), LAMBDA d : d = [kind |-> kind, doc |-> doc]))
  IN r.ok =>
       /\ Reachable(disk, StartPaths(disk, opts)) \subseteq Range(v.sources)
       /\ \A i, j \in DOMAIN v.sources : v.sources[i] = v.sources[j] => i = j
       /\ \A i, j \in DOMAIN v.bundles : v.bundles[i].source = v.bundles[j].source => i = j
       /\ \A p \in loaded : \A doc \in Range(disk.files[p].docs) :
            docKind(doc) \in DocKinds => Times(doc, docKind(doc)) = 1
       /\ LET found == ResolutionFromAppConfig(v)
          IN found.ok => found.value.sources = MaterializedConfig(v).sources
=============================================================================
