----------------------------- MODULE Resources -----------------------------
(***************************************************************************)
(* Identities of resources (commands, agents, workflows, ...) that come    *)
(* from several places, the index of all of them, and the resolver that    *)
(* turns what a user types into one of them (package resource).            *)
(*                                                                         *)
(* A source is [scope, ecosystem, root] with root a path (a sequence of    *)
(* names); an id is [kind, origin, namespace, name]; a reference is the    *)
(* sequence of its parts between ":".  An index is the sequence of its     *)
(* ids in the order they were added.                                       *)
(***************************************************************************)
EXTENDS Integers, Sequences
LOCAL INSTANCE SequencesExt
LOCAL INSTANCE FiniteSetsExt

NoID == [kind |-> "", origin |-> "", namespace |-> <<>>, name |-> ""]

----------------------------------------------------------------------------
(* Identities *)

DeriveOrigin(source) ==
  CASE source.scope = "embedded" -> "embedded"
    [] source.scope = "project" -> "local"
    [] source.scope \in {"user", "remote", "git"} -> source.scope
    [] OTHER -> IF source.ecosystem # "" THEN source.ecosystem ELSE "unknown"

\* goModules maps the directories that hold a go.mod to the module's last
\* path segment.  A root without a parent is its own project directory.
deriveProjectName(root, goModules) ==
  LET projectDir == IF Len(root) <= 1 THEN root ELSE Front(root)
  IN IF projectDir \in DOMAIN goModules THEN goModules[projectDir] ELSE Last(projectDir)

\* Paths are rendered with "/" into one segment.
RECURSIVE PathText(_)
PathText(p) == IF Len(p) = 1 THEN p[1] ELSE p[1] \o "/" \o PathText(Tail(p))

DeriveNamespace(source, goModules) ==
  CASE source.scope = "user" -> <<"global">>
    [] source.scope = "project" -> <<deriveProjectName(source.root, goModules)>>
    [] OTHER -> IF source.root = <<>> THEN <<>> ELSE <<PathText(source.root)>>

DeriveResourceID(source, kind, name, goModules) ==
  [kind |-> kind, origin |-> DeriveOrigin(source),
   namespace |-> DeriveNamespace(source, goModules), name |-> name]

\* ResourceID.Address, as the reference one reads when it is typed.  The
\* segments of a namespace are joined by "/" and become one part.
Address(id) ==
  IF id.namespace = <<>> THEN <<id.origin, id.name>>
  ELSE <<id.origin, PathText(id.namespace), id.name>>

\* ResourceID.MatchesRef: the name, then either a suffix of origin and
\* namespace, or the origin and a suffix of the namespace.
MatchesRef(id, ref) ==
  LET qualifier == Front(ref)
  IN /\ Last(ref) = id.name
     /\ \/ qualifier = <<>>
        \/ IsSuffix(qualifier, <<id.origin>> \o id.namespace)
        \/ qualifier[1] = id.origin /\ IsSuffix(Tail(qualifier), id.namespace)

----------------------------------------------------------------------------
(* The index *)

\* ResourceIndex.Add
Add(index, id) == IF id \in Range(index) THEN index ELSE Append(index, id)

\* ResourceIndex.LookupRef; kind "" stands for every kind.
LookupRef(index, kind, ref) ==
  SelectSeq(index, LAMBDA id : /\ kind # "" => id.kind = kind
                               /\ MatchesRef(id, ref))

----------------------------------------------------------------------------
(* The resolver *)

DefaultPrecedenceOrder == <<"explicit", "local", "user", "embedded">>
Rank(origin) ==
  LET at == {i \in DOMAIN DefaultPrecedenceOrder : DefaultPrecedenceOrder[i] = origin}
  IN IF at = {} THEN Len(DefaultPrecedenceOrder) + 1 ELSE Min(at)

\* PrecedencePolicy.Resolve: the best rank wins unless two share it.
PolicyResolve(candidates) ==
  LET best == Min({Rank(candidates[i].origin) : i \in DOMAIN candidates})
      top  == SelectSeq(candidates, LAMBDA id : Rank(id.origin) = best)
  IN IF Len(top) = 1 THEN top[1] ELSE NoID

NewResolver(aliases) == [aliases |-> aliases, resolved |-> <<>>]

\* The lookup without the cache: nothing, the only match, or the policy.
Lookup(index, kind, ref) ==
  LET candidates == LookupRef(index, kind, ref)
  IN CASE Len(candidates) = 0 -> NoID
       [] Len(candidates) = 1 -> candidates[1]
       [] Len(candidates) > 1 -> PolicyResolve(candidates)

cacheResolution(r, key, id) ==
  IF id = NoID THEN r
  ELSE [r EXCEPT !.resolved = [k \in DOMAIN @ \cup {key} |->
                                 IF k = key THEN Address(id) ELSE @[k]]]

\* Mutant: answers are cached by the reference alone.
ResolveAnyKind(r, index, kind, typed) ==
  LET ref    == IF typed \in DOMAIN r.aliases THEN r.aliases[typed] ELSE typed
      key    == <<"", ref>>
      cached == IF key \in DOMAIN r.resolved THEN LookupRef(index, kind, r.resolved[key])
                                             ELSE <<>>
      found  == Lookup(index, kind, ref)
  IN IF Len(cached) = 1 THEN [id |-> cached[1], resolver |-> r]
     ELSE [id |-> found, resolver |-> cacheResolution(r, key, found)]

\* Resolver.Resolve: aliases rewrite once; a cached address counts only if it
\* still matches exactly one resource.
Resolve(r, index, kind, typed) ==
  LET ref    == IF typed \in DOMAIN r.aliases THEN r.aliases[typed] ELSE typed
      key    == <<kind, ref>>
      cached == IF key \in DOMAIN r.resolved THEN LookupRef(index, kind, r.resolved[key])
                                             ELSE <<>>
      found  == Lookup(index, kind, ref)
  IN IF Len(cached) = 1 THEN [id |-> cached[1], resolver |-> r]
     ELSE [id |-> found, resolver |-> cacheResolution(r, key, found)]

\* What Session.resolveCommandPath and Session.resolveResourceName do with a
\* reference before the registry is asked: a qualified one that resolves is
\* replaced by the bare name, anything else is passed on.
resolveResourceName(r, index, kind, ref) ==
  LET id == Resolve(r, index, kind, ref).id
  IN IF Len(ref) = 1 \/ id = NoID THEN ref ELSE <<id.name>>

\* ContributionBundle.Append, kind by kind; the source stays.
BundleAppend(b, other) ==
  [k \in DOMAIN b |-> IF k = "source" THEN b[k] ELSE b[k] \o other[k]]

----------------------------------------------------------------------------
(* Properties of one index and one reference *)

\* Asking again gives the same answer as asking an empty cache, whatever was
\* asked before, of the same or of another kind: the cached address of a
\* resource never stands for another one, even where it is short enough to
\* match several (Resolver.Resolve, cacheResolution), and the session passes
\* the registry the same name.
CacheIsTransparent(index, kind1, ref1, kind2, ref2) ==
  LET first  == Resolve(NewResolver(<<>>), index, kind1, ref1)
      second == Resolve(first.resolver, index, kind2, ref2)
      third  == Resolve(second.resolver, index, kind1, ref1)
  IN /\ second.id = Lookup(index, kind2, ref2)
     /\ third.id = Lookup(index, kind1, ref1)
     /\ resolveResourceName(second.resolver, index, kind1, ref1)
          = resolveResourceName(NewResolver(<<>>), index, kind1, ref1)
=============================================================================
