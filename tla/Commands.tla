------------------------------ MODULE Commands ------------------------------
(***************************************************************************)
(* Slash commands: the parser of command lines, the declarative command    *)
(* tree with its two ways in (a parsed line, a structured input), the      *)
(* schema the tree publishes, and the registry that dispatches to trees.   *)
(*                                                                         *)
(* A line is a sequence of characters and a token of a line as well; once  *)
(* parsed, names and values are members of small sets.  A command is the   *)
(* root node of its tree,                                                  *)
(*   [name, aliases, handler, policy, args, flags, children],              *)
(* an argument [name, required, variadic, type] and a flag                 *)
(* [name, required, enum, type], where "type" is what the typed input of   *)
(* the handler says (inputHints).  Only roots have children: Tree.Sub adds *)
(* to the root.  A structured value is [kind |-> "nil"], or "text" with    *)
(* its text, "list" with its items, "bool" with b, or "number" with n: the *)
(* kinds that JSON decodes into an interface.                              *)
(***************************************************************************)
EXTENDS Integers, Sequences
LOCAL INSTANCE SequencesExt
LOCAL INSTANCE FiniteSetsExt
LOCAL INSTANCE TLC

Blank == {" ", "\t"}
Quotes == {"'", "\""}
Ok(v) == [ok |-> TRUE, value |-> v]
Err(code) == [ok |-> FALSE, code |-> code]

----------------------------------------------------------------------------
(* Lines *)

\* Mutant: a backslash escapes inside single quotes too.
ScanEscapingAlways(st, c) ==
  CASE st.escaped -> [st EXCEPT !.cur = Append(@, c), !.escaped = FALSE]
    [] ~st.escaped /\ c = "\\" -> [st EXCEPT !.escaped = TRUE]
    [] ~st.escaped /\ c # "\\" /\ st.quote # "" ->
         IF c = st.quote THEN [st EXCEPT !.quote = ""]
         ELSE [st EXCEPT !.cur = Append(@, c)]
    [] ~st.escaped /\ c \in Quotes /\ st.quote = "" -> [st EXCEPT !.quote = c]
    [] ~st.escaped /\ c \in Blank /\ st.quote = "" ->
         [st EXCEPT !.tokens = IF st.cur = <<>> THEN @ ELSE Append(@, st.cur),
                    !.cur = <<>>]
    [] OTHER -> [st EXCEPT !.cur = Append(@, c)]

\* One character of tokenize: an escaped character is taken as it is; a
\* backslash escapes except between single quotes.
Scan(st, c) ==
  CASE st.escaped -> [st EXCEPT !.cur = Append(@, c), !.escaped = FALSE]
    [] ~st.escaped /\ c = "\\" /\ st.quote # "'" -> [st EXCEPT !.escaped = TRUE]
    [] ~st.escaped /\ ~(c = "\\" /\ st.quote # "'") /\ st.quote # "" ->
         IF c = st.quote THEN [st EXCEPT !.quote = ""]
         ELSE [st EXCEPT !.cur = Append(@, c)]
    [] ~st.escaped /\ c \in Quotes /\ st.quote = "" -> [st EXCEPT !.quote = c]
    [] ~st.escaped /\ c \in Blank /\ st.quote = "" ->
         [st EXCEPT !.tokens = IF st.cur = <<>> THEN @ ELSE Append(@, st.cur),
                    !.cur = <<>>]
    [] OTHER -> [st EXCEPT !.cur = Append(@, c)]

\* tokenize: flush drops an empty token, so "" and '' leave nothing behind.
tokenize(s) ==
  LET end  == FoldLeft(Scan, [tokens |-> <<>>, cur |-> <<>>, quote |-> "",
                              escaped |-> FALSE], s)
      last == IF end.escaped THEN Append(end.cur, "\\") ELSE end.cur
  IN IF end.quote # "" THEN Err("unterminated")
     ELSE Ok(IF last = <<>> THEN end.tokens ELSE Append(end.tokens, last))

IsFlag(tok) == Len(tok) > 2 /\ SubSeq(tok, 1, 2) = <<"-", "-">>
StartsFlag(tok) == Len(tok) >= 2 /\ SubSeq(tok, 1, 2) = <<"-", "-">>
TrimLine(s) ==
  LET inked == {i \in DOMAIN s : s[i] \notin Blank}
  IN IF inked = {} THEN <<>> ELSE SubSeq(s, Min(inked), Max(inked))
SetFlag(flags, k, v) ==
  [x \in DOMAIN flags \cup {k} |-> IF x = k THEN v ELSE flags[x]]
True == <<"t", "r", "u", "e">>

\* The loop over the words after the name: flags with "=", flags that take
\* the next word, flags alone.
RECURSIVE ParseWords(_, _, _)
ParseWords(rest, args, flags) ==
  IF rest = <<>> THEN [args |-> args, flags |-> flags]
  ELSE LET tok == Head(rest)
           key == SubSeq(tok, 3, Len(tok))
           eqs == {i \in DOMAIN key : key[i] = "="}
       IN IF ~IsFlag(tok) THEN ParseWords(Tail(rest), Append(args, tok), flags)
          ELSE IF eqs # {}
            THEN ParseWords(Tail(rest), args,
                   SetFlag(flags, SubSeq(key, 1, Min(eqs) - 1),
                           SubSeq(key, Min(eqs) + 1, Len(key))))
          ELSE IF Len(rest) > 1 /\ ~StartsFlag(rest[2])
            THEN ParseWords(Tail(Tail(rest)), args, SetFlag(flags, key, rest[2]))
          ELSE ParseWords(Tail(rest), args, SetFlag(flags, key, True))

Parse(line) ==
  LET trimmed == TrimLine(line)
      body    == IF trimmed # <<>> /\ trimmed[1] = "/" THEN Tail(trimmed) ELSE trimmed
      tokens  == tokenize(body)
  IN IF TrimLine(body) = <<>> THEN Err("empty")
     ELSE IF ~tokens.ok THEN tokens
     ELSE IF tokens.value = <<>> THEN Err("empty")
     ELSE Ok([name |-> Head(tokens.value),
              params |-> ParseWords(Tail(tokens.value), <<>>, <<>>)])

----------------------------------------------------------------------------
(* Building a tree *)

\* The name and the aliases under which a node is indexed.
NamesOf(n) == {n.name} \cup n.aliases
NamesIn(nodes) == UNION {NamesOf(nodes[i]) : i \in DOMAIN nodes}

validateNodeSpec(n) ==
  /\ \A i \in DOMAIN n.args : n.args[i].name # "" /\ (n.args[i].variadic => i = Len(n.args))
  /\ \A i \in DOMAIN n.flags : n.flags[i].name # ""
  /\ \A i, j \in DOMAIN n.args : n.args[i].name = n.args[j].name => i = j
  /\ \A i, j \in DOMAIN n.flags : n.flags[i].name = n.flags[j].name => i = j

\* addSubNode: a refused child leaves the parent as it was.
addSubNode(parent, child) ==
  IF child.name = "" THEN Err("invalid_spec")
  ELSE IF NamesOf(child) \cap NamesIn(parent.children) # {} THEN Err("duplicate")
  ELSE IF ~validateNodeSpec(child) THEN Err("invalid_spec")
  ELSE Ok([parent EXCEPT !.children = Append(@, child)])

\* Tree.Sub: the first error stays on the tree, later children still come.
Sub(t, child) ==
  LET r == addSubNode(t.root, child)
  IN IF r.ok THEN [t EXCEPT !.root = r.value]
     ELSE [t EXCEPT !.err = IF @ = "" THEN r.code ELSE @]

\* NewTree, Handle, Sub and Build in the order the builders call them.
BuildTree(root, children) ==
  LET handled == [root |-> [root EXCEPT !.children = <<>>],
                  err  |-> IF validateNodeSpec(root) THEN "" ELSE "invalid_spec"]
      t == FoldLeft(Sub, handled, children)
  IN IF t.err # "" THEN Err(t.err) ELSE Ok(t.root)

----------------------------------------------------------------------------
(* Finding the node *)

Child(n, name) == CHOOSE c \in Range(n.children) : name \in NamesOf(c)

\* resolveNode: words are eaten while the node reached has children.
resolveNode(root, args) ==
  IF args = <<>> \/ root.children = <<>> THEN Ok([node |-> root, rest |-> args])
  ELSE IF args[1] \in NamesIn(root.children)
    THEN Ok([node |-> Child(root, args[1]), rest |-> Tail(args)])
    ELSE Err("unknown_subcommand")

\* Tree.resolveInputPath: the root's own name may lead the path.
resolveInputPath(root, path) ==
  LET clean == SelectSeq(path, LAMBDA p : p # "")
      below == IF clean # <<>> /\ clean[1] \in NamesOf(root) THEN Tail(clean) ELSE clean
  IN IF below = <<>> THEN Ok(root)
     ELSE IF Len(below) = 1 /\ below[1] \in NamesIn(root.children)
       THEN Ok(Child(root, below[1]))
       ELSE Err("unknown_subcommand")

----------------------------------------------------------------------------
(* Checking the input *)

Named(specs, name) == CHOOSE s \in Range(specs) : s.name = name
Names(specs) == {specs[i].name : i \in DOMAIN specs}
Required(specs) == {specs[i].name : i \in {j \in DOMAIN specs : specs[j].required}}
Allowed(flag, v) == flag.enum = {} \/ v \in flag.enum
Only(f, S) == [x \in DOMAIN f \cap S |-> f[x]]

\* What the positional words bind: one each, the variadic one the rest.
Positional(args, words) ==
  [name \in {args[i].name : i \in {j \in DOMAIN args : j <= Len(words)}} |->
     LET i == CHOOSE j \in DOMAIN args : args[j].name = name
     IN IF args[i].variadic THEN SubSeq(words, i, Len(words)) ELSE <<words[i]>>]

\* treeNode.invocation.  The map of flags is read in any order; which of two
\* errors is reported is left open by the code, and here it is the class.
invocation(n, params, words) ==
  LET flags == params.flags
      args  == Positional(n.args, words)
      full  == n.args # <<>> /\ n.args[Len(n.args)].variadic
      Bare(f) == \/ flags[f] = ""
                 \/ flags[f] = "true" /\ Named(n.flags, f).type # "boolean"
  IN IF \E f \in DOMAIN flags : \/ f \notin Names(n.flags)
                                \/ Bare(f)
                                \/ ~Allowed(Named(n.flags, f), flags[f]) THEN Err("flag")
     ELSE IF ~(Required(n.flags) \subseteq DOMAIN flags) THEN Err("missing_flag")
     ELSE IF ~(Required(n.args) \subseteq DOMAIN args) THEN Err("missing_arg")
     ELSE IF ~full /\ Len(words) > Len(n.args) THEN Err("too_many_args")
     ELSE Ok([node |-> n.name, args |-> args, flags |-> flags])

\* fmt.Sprint of what JSON decodes: a number is a float64, which from a million
\* on has an exponent (whole millions below ten stand for all of these).
Sprint(v) ==
  CASE v.kind = "bool" -> IF v.b THEN "true" ELSE "false"
    [] v.kind = "number" /\ v.n < 1000000 -> ToString(v.n)
    [] v.kind = "number" /\ v.n >= 1000000 -> ToString(v.n \div 1000000) \o "e+06"

\* structuredValues: lists of lists with more than one value are refused.
RECURSIVE structuredValues(_)
structuredValues(v) ==
  CASE v.kind = "nil" -> Ok(<<>>)
    [] v.kind = "text" -> Ok(IF v.text = "" THEN <<>> ELSE <<v.text>>)
    [] v.kind \in {"bool", "number"} -> Ok(<<Sprint(v)>>)
    [] v.kind = "list" ->
         LET items == [i \in DOMAIN v.items |-> structuredValues(v.items[i])]
         IN IF \E i \in DOMAIN items : ~items[i].ok \/ Len(items[i].value) > 1
            THEN Err("value")
            ELSE Ok(FlattenSeq([i \in DOMAIN items |-> items[i].value]))

\* Mutant: the arguments that are required are not looked for.
structuredInvocationOptional(n, input) ==
  LET vals(v)  == structuredValues(v)
      BadArg(a) ==
        \/ a \notin Names(n.args)
        \/ ~vals(input.args[a]).ok
        \/ ~Named(n.args, a).variadic /\ Len(vals(input.args[a]).value) > 1
      args == [a \in {x \in DOMAIN input.args : vals(input.args[x]).value # <<>>} |->
                 vals(input.args[a]).value]
  IN IF \E a \in DOMAIN input.args : BadArg(a) THEN Err("arg")
     ELSE Ok([node |-> n.name, args |-> args,
              flags |-> [f \in DOMAIN input.flags |-> vals(input.flags[f]).value[1]]])

\* treeNode.structuredInvocation
structuredInvocation(n, input) ==
  LET vals(v)  == structuredValues(v)
      BadArg(a) ==
        \/ a \notin Names(n.args)
        \/ ~vals(input.args[a]).ok
        \/ ~Named(n.args, a).variadic /\ Len(vals(input.args[a]).value) > 1
      BadFlag(f) ==
        LET v == vals(input.flags[f])
        IN \/ f \notin Names(n.flags)
           \/ ~v.ok
           \/ Len(v.value) # 1
           \/ v.value[1] = ""
           \/ ~Allowed(Named(n.flags, f), v.value[1])
  IN IF \E a \in DOMAIN input.args : BadArg(a) THEN Err("arg")
     ELSE LET args == [a \in {x \in DOMAIN input.args : vals(input.args[x]).value # <<>>} |->
                         vals(input.args[a]).value]
          IN IF ~(Required(n.args) \subseteq DOMAIN args) THEN Err("missing_arg")
             ELSE IF \E f \in DOMAIN input.flags : BadFlag(f) THEN Err("flag")
             ELSE IF ~(Required(n.flags) \subseteq DOMAIN input.flags) THEN Err("missing_flag")
             ELSE Ok([node |-> n.name, args |-> args,
                      flags |-> [f \in DOMAIN input.flags |-> vals(input.flags[f]).value[1]]])

\* treeNode.commandInputFromMap: a key that names an argument is one, even if
\* it names a flag too.
commandInputFromMap(n, input) ==
  IF ~(DOMAIN input \subseteq Names(n.args) \cup Names(n.flags)) THEN Err("unknown_arg")
  ELSE Ok([args  |-> Only(input, Names(n.args)),
           flags |-> Only(input, Names(n.flags) \ Names(n.args))])

----------------------------------------------------------------------------
(* Typed handlers: the fields of the input struct and what Bind sets *)

\* What strconv reads as a Boolean and as a number, of the texts used here.
BoolTexts == {"true", "false", "1"}
IntTexts  == {"1", "7"}

\* setFieldValue and setScalarValue: a slice takes the values one by one, a
\* scalar takes them joined by spaces, so more than one is never a number.
setFieldValue(type, values) ==
  CASE type = "array" -> Ok(values)
    [] type = "string" -> Ok(values)
    [] type = "boolean" -> IF Len(values) = 1 /\ values[1] \in BoolTexts
                           THEN Ok(values) ELSE Err("value")
    [] type = "integer" -> IF Len(values) = 1 /\ values[1] \in IntTexts
                           THEN Ok(values) ELSE Err("value")

\* Bind: the fields of a typed input are the arguments and flags of the node;
\* a field whose input is absent keeps its zero value.
Bind(n, inv) ==
  LET SetArg(a)  == setFieldValue(Named(n.args, a).type, inv.args[a])
      SetFlagField(f) == setFieldValue(Named(n.flags, f).type, <<inv.flags[f]>>)
  IN IF \A a \in DOMAIN inv.args : SetArg(a).ok
     THEN IF \A f \in DOMAIN inv.flags : SetFlagField(f).ok THEN Ok(inv) ELSE Err("flag")
     ELSE Err("arg")

----------------------------------------------------------------------------
(* Dispatch *)

Help(code) == [kind |-> "help", code |-> code]
Failed(code) == [kind |-> "error", code |-> code]

\* The end of Execute and of ExecuteInput; the handler is a typed one.
Run(n, inv) ==
  CASE ~inv.ok -> Help(inv.code)
    [] inv.ok /\ ~n.handler -> Help("")
    [] inv.ok /\ n.handler ->
         LET input == Bind(n, inv.value)
         IN IF input.ok THEN [kind |-> "run", input |-> input.value] ELSE Failed(input.code)

\* Tree.Execute
Execute(root, params) ==
  LET r == resolveNode(root, params.args)
  IN IF ~r.ok THEN Help(r.code)
     ELSE Run(r.value.node, invocation(r.value.node, params, r.value.rest))

\* Tree.ExecuteInput
ExecuteInput(root, path, input) ==
  LET r == resolveInputPath(root, path)
  IN IF ~r.ok THEN Help(r.code)
     ELSE Run(r.value, structuredInvocation(r.value, input))

\* Tree.ExecuteMap
ExecuteMap(root, path, input) ==
  LET r == resolveInputPath(root, path)
      c == commandInputFromMap(r.value, input)
  IN IF ~r.ok THEN Help(r.code)
     ELSE IF ~c.ok THEN Help(c.code)
     ELSE ExecuteInput(root, path, c.value)

----------------------------------------------------------------------------
(* What a tree publishes: descriptors and JSON schemas *)

\* Mutant: required flags are not listed as required fields.
descriptorFlagsOptional(n) ==
  [name |-> n.name, executable |-> n.handler,
   fields |-> [i \in DOMAIN n.args |->
                 [name |-> n.args[i].name, required |-> n.args[i].required, enum |-> {},
                  type |-> IF n.args[i].variadic THEN "array" ELSE n.args[i].type]]
              \o [i \in DOMAIN n.flags |->
                 [name |-> n.flags[i].name, required |-> FALSE,
                  enum |-> n.flags[i].enum, type |-> n.flags[i].type]]]

\* treeNode.descriptor, the part that describes the structured input
descriptor(n) ==
  [name |-> n.name, executable |-> n.handler,
   fields |-> [i \in DOMAIN n.args |->
                 [name |-> n.args[i].name, required |-> n.args[i].required, enum |-> {},
                  type |-> IF n.args[i].variadic THEN "array" ELSE n.args[i].type]]
              \o [i \in DOMAIN n.flags |->
                 [name |-> n.flags[i].name, required |-> n.flags[i].required,
                  enum |-> n.flags[i].enum, type |-> n.flags[i].type]]]

\* CommandInputSchema: later fields of a name overwrite earlier ones.
CommandInputSchema(desc) ==
  LET At(name) == Max({i \in DOMAIN desc.fields : desc.fields[i].name = name})
  IN [properties |-> [name \in Names(desc.fields) |->
                        [type |-> desc.fields[At(name)].type, enum |-> desc.fields[At(name)].enum]],
      required   |-> Required(desc.fields)]

\* ExportDescriptors: the executable nodes with their paths.
ExportDescriptors(root) ==
  LET under == [i \in DOMAIN root.children |->
                  [path |-> <<root.name, root.children[i].name>>,
                   desc |-> descriptor(root.children[i])]]
      all == <<[path |-> <<root.name>>, desc |-> descriptor(root)]>> \o under
  IN SelectSeq([i \in DOMAIN all |-> [path |-> all[i].path,
                                       executable |-> all[i].desc.executable,
                                       schema |-> CommandInputSchema(all[i].desc)]],
               LAMBDA e : e.executable)

----------------------------------------------------------------------------
(* The registry: the commands in the order they were registered *)

UserCallable(c) == ~c.policy.internal /\ (c.policy.user \/ ~c.policy.agent)
AgentCallable(c) == ~c.policy.internal /\ c.policy.agent

\* Registry.Register for one command.
Register(reg, c) ==
  IF c.name = "" THEN Err("invalid_spec")
  ELSE IF NamesOf(c) \cap NamesIn(reg) # {} THEN Err("duplicate")
  ELSE Ok(Append(reg, c))

Get(reg, name) == CHOOSE c \in Range(reg) : name \in NamesOf(c)

\* Registry.ExecuteMap
RegistryExecuteMap(reg, path, input) ==
  LET clean == SelectSeq(path, LAMBDA p : p # "")
  IN IF clean = <<>> THEN Failed("invalid_spec")
     ELSE IF clean[1] \notin NamesIn(reg) THEN Failed("unknown")
     ELSE ExecuteMap(Get(reg, clean[1]), clean, input)

\* Registry.Execute, ExecuteUser and ExecuteAgent: only the policy differs,
\* and it is the root's.
ExecuteFor(caller, reg, name, params) ==
  IF name \notin NamesIn(reg) THEN Failed("unknown")
  ELSE LET c == Get(reg, name)
       IN IF \/ caller = "user" /\ ~UserCallable(c)
             \/ caller = "agent" /\ ~AgentCallable(c)
          THEN Failed("not_callable") ELSE Execute(c, params)

----------------------------------------------------------------------------
(* Properties of one input *)

\* The line that says the same as a structured input: the arguments in their
\* declared order, without gaps, and the flags.
Words(n, args) ==
  FlattenSeq([i \in DOMAIN n.args |->
    IF n.args[i].name \in DOMAIN args THEN structuredValues(args[n.args[i].name]).value
                                      ELSE <<>>])
AsParams(n, path, input) ==
  [args  |-> Tail(path) \o Words(n, input.args),
   flags |-> [f \in DOMAIN input.flags |-> structuredValues(input.flags[f]).value[1]]]

\* An input that a line can say: text for every key, no argument left out
\* before one that is given, nothing after a name that has subcommands, and
\* no flag with the text "true" unless it is Boolean (a line cannot tell it
\* from a flag without a value).
Sayable(root, n, input) ==
  /\ DOMAIN input.args \subseteq Names(n.args)
  /\ DOMAIN input.flags \subseteq Names(n.flags)
  /\ n.children = <<>> \/ input.args = <<>>
  /\ \A i, j \in DOMAIN n.args :
       i < j /\ n.args[j].name \in DOMAIN input.args => n.args[i].name \in DOMAIN input.args
  /\ \A a \in DOMAIN input.args :
       LET v == structuredValues(input.args[a])
       IN v.ok /\ v.value # <<>> /\ (Named(n.args, a).variadic \/ Len(v.value) = 1)
  /\ \A f \in DOMAIN input.flags :
       LET v == structuredValues(input.flags[f])
       IN /\ v.ok /\ Len(v.value) = 1
          /\ v.value[1] = "true" => Named(n.flags, f).type = "boolean"

\* A value of the kind the schema of a field asks for.  Items are strings.
Fits(field, v) ==
  /\ field.enum # {} => v.kind = "text" /\ v.text \in field.enum
  /\ CASE field.type = "array" -> v.kind = "list" /\ \A i \in DOMAIN v.items : v.items[i].kind = "text"
       [] field.type = "string" -> v.kind = "text"
       [] field.type = "boolean" -> v.kind = "bool"
       [] field.type = "integer" -> v.kind = "number"
Conforms(schema, input) ==
  /\ DOMAIN input \subseteq DOMAIN schema.properties
  /\ schema.required \subseteq DOMAIN input
  /\ \A x \in DOMAIN input : Fits(schema.properties[x], input[x])

\* A command line and a structured call that say the same do the same: both
\* run the same node with the same input, or neither runs (Tree.Execute, which
\* the registry calls for a user, and Tree.ExecuteMap check the input in two
\* separate ways).
RoutesAgree(root, path, input) ==
  LET node == resolveInputPath(root, path).value
      line == ExecuteFor("user", <<root>>, root.name, AsParams(node, path, input))
      call == ExecuteInput(root, path, input)
  IN Sayable(root, node, input) =>
       /\ line.kind = call.kind
       /\ line.kind = "run" => line = call

\* What the schema does not tell: an empty text or list is taken as not given,
\* and a number of a million or more does not arrive as an integer.
Empty(v) == \/ v.kind = "text" /\ v.text = ""
            \/ v.kind = "list" /\ \A i \in DOMAIN v.items : v.items[i].text = ""
Exponent(v) == v.kind = "number" /\ v.n >= 1000000

\* What a channel learns from ExportDescriptors is enough to call, but for two
\* things: an input that conforms to the exported schema of a node runs that
\* node, unless it gives a required field or a flag an empty value
\* (structuredValues drops it) or a number of a million or more (setScalarValue
\* refuses its exponent); and with one of these it does not run.
SchemaSuffices(root, input) ==
  \A i \in DOMAIN ExportDescriptors(root) :
    LET e == ExportDescriptors(root)[i]
        flags == Names(resolveInputPath(root, e.path).value.flags)
    IN Conforms(e.schema, input) =>
         ((RegistryExecuteMap(<<root>>, e.path, input).kind = "run")
          <=> /\ \A x \in e.schema.required \cup (flags \cap DOMAIN input) : ~Empty(input[x])
              /\ \A x \in DOMAIN input : ~Exponent(input[x]))

\* A word between quotes; in double quotes a backslash goes before a quote
\* and before a backslash.
Quote(word, q) ==
  LET Escaped(c) == IF c \in {"\"", "\\"} THEN <<"\\", c>> ELSE <<c>>
  IN IF q = "'" THEN <<q>> \o word \o <<q>>
     ELSE <<q>> \o FlattenSeq([i \in DOMAIN word |-> Escaped(word[i])]) \o <<q>>

\* "/name", the flag as "--key=value" or in two words, then the arguments.
LineOf(name, args, flag, q) ==
  <<"/">> \o name
  \o (IF flag = <<>> THEN <<>>
      ELSE <<" ", "-", "-">> \o flag[1].key
           \o (IF flag[1].joined THEN <<"=">> ELSE <<" ">>) \o Quote(flag[1].value, q))
  \o FlattenSeq([i \in DOMAIN args |-> <<" ">> \o Quote(args[i], q)])

\* Whatever characters the values have, a line of quoted words is read as it
\* was meant (Parse, tokenize).  Excepted are words a line cannot say: empty
\* ones (a quoted empty string vanishes), those with a single quote between
\* single quotes, and words that look like flags, quoted or not.
ParsedAsSaid(name, args, flag, q) ==
  LET values  == Range(args) \cup {flag[i].value : i \in {j \in DOMAIN flag : ~flag[j].joined}}
      all     == values \cup {flag[i].value : i \in DOMAIN flag}
      flags   == IF flag = <<>> THEN <<>> ELSE SetFlag(<<>>, flag[1].key, flag[1].value)
  IN /\ \A w \in values : w # <<>> /\ ~StartsFlag(w)
     /\ q = "'" => \A w \in all : "'" \notin Range(w)
     => Parse(LineOf(name, args, flag, q)) = Ok([name |-> name, params |-> [args |-> args, flags |-> flags]])
=============================================================================
