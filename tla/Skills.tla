-------------------------------- MODULE Skills --------------------------------
(***************************************************************************)
(* The skill catalog and the activation state of one agent (skill): pure   *)
(* functions.  A source is [order, dirs]: dirs is the sequence of skill    *)
(* directories it holds, [name, refs] each.  References are compared by    *)
(* path; Invalid marks the paths that validReferencePath refuses.          *)
(***************************************************************************)
EXTENDS Integers, Sequences, FiniteSets

CONSTANTS Sources,  \* the configured sources, as a sequence
          Baseline, \* the skill names the agent specification asks for
          Invalid   \* reference paths outside references/

validReferencePath(path) == path \notin Invalid

(* sortSources: a stable sort by order.  A skill directory is known by its *)
(* source and its place there; p is loaded before q.                       *)
sortSources(sources, p, q) ==
  \/ sources[p[1]].order < sources[q[1]].order
  \/ sources[p[1]].order = sources[q[1]].order /\ (p[1] < q[1] \/ (p[1] = q[1] /\ p[2] < q[2]))

(* scan, loadSource and loadReferences: name -> reference paths.  The      *)
(* first directory with a name wins.  A source that is missing holds none. *)
scan(sources) ==
  LET dirs == UNION {{i} \X DOMAIN sources[i].dirs : i \in DOMAIN sources}
      dir(p) == sources[p[1]].dirs[p[2]]
      first(n) == CHOOSE p \in dirs : /\ dir(p).name = n
                                      /\ \A q \in dirs : dir(q).name = n => ~sortSources(sources, q, p)
  IN  [n \in {dir(p).name : p \in dirs} |-> {path \in dir(first(n)).refs : validReferencePath(path)}]

Repo == scan(Sources)
SkillNames == DOMAIN Repo

(* NewRepository and NewActivationState: names of the specification that   *)
(* the catalog does not know make the agent fail to start.                 *)
Startable == Baseline \subseteq SkillNames
NewActivationState == [base |-> Baseline, dynamic |-> {}, refs |-> [n \in SkillNames |-> {}]]

IsActive(s, name) == name \in s.base \cup s.dynamic
ActiveSkills(s) == {n \in SkillNames : IsActive(s, n)}

(* ActivateSkill of the activation state: [ok, state]. *)
ActivateSkill(s, name) ==
  IF name \notin SkillNames THEN [ok |-> FALSE, state |-> s]
  ELSE IF name \in s.base THEN [ok |-> TRUE, state |-> s]
  ELSE [ok |-> TRUE, state |-> [s EXCEPT !.dynamic = @ \cup {name}]]

(* Mutant: references are activated whether or not the skill is active. *)
ActivateAnyReferences(s, name, paths) ==
  LET good(i) == validReferencePath(paths[i]) /\ paths[i] \in Repo[name]
      new == {paths[i] : i \in {k \in DOMAIN paths : \A j \in 1..k : good(j)}}
  IN  [ok |-> \A i \in DOMAIN paths : good(i), state |-> [s EXCEPT !.refs[name] = @ \cup new],
       activated |-> new \ s.refs[name]]
(* ActivateReferences: [ok, state, activated].  The paths before the first *)
(* bad one stay active although the call fails.                            *)
ActivateReferences(s, name, paths) ==
  LET good(i) == validReferencePath(paths[i]) /\ paths[i] \in Repo[name]
      before == {i \in DOMAIN paths : \A j \in 1..i : good(j)}
      new == {paths[i] : i \in before}
  IN  IF ~IsActive(s, name) THEN [ok |-> FALSE, state |-> s, activated |-> {}]
      ELSE LET added == [s EXCEPT !.refs[name] = @ \cup new]
           IN  IF before = DOMAIN paths
               THEN [ok |-> TRUE, state |-> added, activated |-> new \ s.refs[name]]
               ELSE [ok |-> FALSE, state |-> added, activated |-> {}]

(* Materialize: what the system prompt says of the skills. *)
Materialize(s) == {<<n, s.refs[n]>> : n \in ActiveSkills(s)}

SkillState == [base: SUBSET SkillNames, dynamic: SUBSET SkillNames,
               refs: [SkillNames -> SUBSET UNION {Repo[n] : n \in SkillNames}]]
=============================================================================
