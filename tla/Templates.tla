----------------------------- MODULE Templates -----------------------------
(***************************************************************************)
(* The language of webhook bodies (shared/webhook-template.ts): reading    *)
(* the expressions of a tag, reading the blocks of a template, and         *)
(* rendering it for an event within limits.  A template grows by one token *)
(* at a time, an expression by one part.                                   *)
(***************************************************************************)
EXTENDS Integers, FiniteSets, Sequences, SequencesExt

CONSTANTS
  TemplateLength, ExpressionLength,                \* bounds: tokens, parts
  BlockDepth, LoopItems, StepLimit, OutputLimit    \* TEMPLATE_LIMITS

ASSUME TemplateAssumption ==
  /\ TemplateLength \in Nat /\ ExpressionLength \in Nat
  /\ {BlockDepth, LoopItems, StepLimit, OutputLimit} \subseteq Nat \ {0}

VARIABLES
  template,      \* tokens written so far
  expression     \* parts written so far

templateVars == <<template, expression>>

-----------------------------------------------------------------------------
(* Expressions: helpers with the number of arguments they take, the words  *)
(* and strings they are applied to.                                        *)

Helpers == [not |-> 1 .. 1, date |-> 1 .. 2]

TagWords == DOMAIN Helpers \cup {"a"}

PartsOfTags == TagWords \cup {"(", ")", "string"}

Wrong == [expr |-> "wrong"]

\* What was read, and the part to go on with.
Read(e, i) == [e |-> e, i |-> i]

\* The value of a word or a string.
Leaf(p) == [expr |-> "leaf", word |-> p]

Application(name, args) == [expr |-> "call", name |-> name, args |-> args]

PartAt(parts, i) == IF i <= Len(parts) THEN parts[i] ELSE "end"

\* Parts between this one and the next closing parenthesis.
Available(parts, i) ==
  LET closing == {j \in i + 1 .. Len(parts) : parts[j] = ")"}
  IN (IF closing = {} THEN Len(parts) + 1 ELSE CHOOSE j \in closing : \A k \in closing : j <= k)
       - i - 1

RECURSIVE Sequence(_, _), Arguments(_, _, _)

Term(parts, i) ==
  LET p == PartAt(parts, i)
  IN CASE p = "(" ->
            LET call == Sequence(parts, i + 1)
            IN IF PartAt(parts, call.i) = ")" /\ call.e.expr = "call"
               THEN Read(call.e, call.i + 1) ELSE Read(Wrong, i)
       [] p \in TagWords \cup {"string"} -> Read(Leaf(p), i + 1)
       [] OTHER -> Read(Wrong, i)

\* Arguments up to a closing parenthesis or the end.
Arguments(parts, i, args) ==
  IF PartAt(parts, i) \in {")", "end"} THEN Read([expr |-> "args", args |-> args], i)
  ELSE LET next == Term(parts, i)
       IN IF next.e = Wrong THEN next ELSE Arguments(parts, next.i, Append(args, next.e))

\* A word that something follows is a helper.
Sequence(parts, i) ==
  LET p == PartAt(parts, i)
  IN IF p \in TagWords /\ Available(parts, i) > 0
     THEN LET read == Arguments(parts, i + 1, <<>>)
          IN IF p \notin DOMAIN Helpers \/ read.e = Wrong THEN Read(Wrong, i)
             ELSE IF Len(read.e.args) \notin Helpers[p] THEN Read(Wrong, i)
             ELSE Read(Application(p, read.e.args), read.i)
     ELSE Term(parts, i)

ParseExpression(parts) ==
  LET read == Sequence(parts, 1)
  IN IF parts = <<>> \/ read.i <= Len(parts) THEN Wrong ELSE read.e

\* An expression as it is written: only a call inside another is in parentheses.
RECURSIVE Written(_)
Written(e) ==
  IF e.expr = "leaf" THEN <<e.word>>
  ELSE <<e.name>> \o FlattenSeq([i \in DOMAIN e.args |->
         IF e.args[i].expr = "call" THEN <<"(">> \o Written(e.args[i]) \o <<")">>
         ELSE Written(e.args[i])])

Leaves == {Leaf(p) : p \in TagWords \cup {"string"}}

Calls(args) == {Application(h, s) : h \in DOMAIN Helpers, s \in SeqOf(args, 2)}

\* Expressions with calls two deep.
Expressions ==
  {e \in Leaves \cup Calls(Leaves \cup Calls(Leaves)) :
     e.expr = "call" =>
       /\ Len(e.args) \in Helpers[e.name]
       /\ \A i \in DOMAIN e.args : e.args[i].expr = "call" =>
            Len(e.args[i].args) \in Helpers[e.args[i].name]}

Catalogue == {<<Written(e), e>> : e \in Expressions}

WrittenExpressions == {c[1] : c \in Catalogue}

Unparenthesized(parts) == SelectSeq(parts, LAMBDA p : p \notin {"(", ")"})

-----------------------------------------------------------------------------
(* Tokens.  Texts are sequences of white space, other characters and       *)
(* quotes; paths read a name of the event, or the innermost value.         *)

Path(segments) == [kind |-> "path", segments |-> segments]
Index          == [kind |-> "data"]
Json(e)        == [kind |-> "json", of |-> e]

Tag(is, of, value) == [is |-> is, of |-> of, value |-> value, left |-> FALSE, right |-> FALSE]

This == Path(<<>>)

Tokens ==
  {[is |-> "text", value |-> <<"w", "q">>],
   Tag("output", "", This), Tag("output", "", Json(This)),
   [Tag("comment", "", This) EXCEPT !.left = TRUE, !.right = TRUE],
   Tag("open", "if", Path(<<"n">>)), Tag("open", "unless", Index),
   Tag("open", "each", Path(<<"l">>)),
   Tag("open", "with", Path(<<"l", "n">>)), Tag("else", "", This), Tag("else", "if", This),
   Tag("close", "if", This), Tag("close", "unless", This), Tag("close", "each", This),
   Tag("close", "with", This)}

TrimmedRight(text) ==
  LET solid == {i \in DOMAIN text : text[i] # "w"}
  IN SubSeq(text, 1, IF solid = {} THEN 0 ELSE CHOOSE i \in solid : \A j \in solid : j <= i)

TrimmedLeft(text) == Reverse(TrimmedRight(Reverse(text)))

IsTag(tokens, i) == i \in DOMAIN tokens /\ tokens[i].is # "text"

\* tokenize: a tag may trim the texts beside it.
Trimmed(tokens) ==
  [i \in DOMAIN tokens |->
     IF IsTag(tokens, i) THEN tokens[i]
     ELSE LET t == IF IsTag(tokens, i - 1) /\ tokens[i - 1].right
                   THEN TrimmedLeft(tokens[i].value) ELSE tokens[i].value
              u == IF IsTag(tokens, i + 1) /\ tokens[i + 1].left THEN TrimmedRight(t) ELSE t
          IN [is |-> "text", value |-> u]]

-----------------------------------------------------------------------------
(* Blocks. *)

Parsing == [root |-> <<>>, stack |-> <<>>, error |-> FALSE]

Failed(p) == [p EXCEPT !.error = TRUE]

\* The list new nodes are appended to is a frame's last branch, or its else.
Into(frame, node) ==
  IF frame.sawElse THEN [frame EXCEPT !.node.otherwise = Append(@, node)]
  ELSE IF frame.node.kind # "if" THEN [frame EXCEPT !.node.body = Append(@, node)]
  ELSE [frame EXCEPT !.node.branches[Len(frame.node.branches)].body = Append(@, node)]

Add(p, node) ==
  IF p.stack = <<>> THEN [p EXCEPT !.root = Append(@, node)]
  ELSE [p EXCEPT !.stack[Len(p.stack)] = Into(Last(p.stack), node)]

Branch(expr, negate) == [test |-> expr, negate |-> negate, body |-> <<>>]

OpenBlock(p, token) ==
  LET node == IF token.of \in {"if", "unless"}
              THEN [kind |-> "if", branches |-> <<Branch(token.value, token.of = "unless")>>,
                    otherwise |-> <<>>]
              ELSE [kind |-> token.of, expr |-> token.value, body |-> <<>>, otherwise |-> <<>>]
  IN IF Len(p.stack) >= BlockDepth THEN Failed(p)
     ELSE [p EXCEPT !.stack = Append(@, [kind |-> token.of, node |-> node, sawElse |-> FALSE])]

ElseTag(p, token) ==
  IF p.stack = <<>> THEN Failed(p)
  ELSE LET frame == Last(p.stack)
           branches == Append(frame.node.branches, Branch(token.value, FALSE))
       IN IF frame.sawElse THEN Failed(p)
          ELSE IF token.of = "" THEN [p EXCEPT !.stack[Len(p.stack)].sawElse = TRUE]
          ELSE IF frame.node.kind # "if" THEN Failed(p)
          ELSE [p EXCEPT !.stack[Len(p.stack)].node.branches = branches]

CloseBlock(p, token) ==
  IF p.stack = <<>> THEN Failed(p)
  ELSE IF Last(p.stack).kind # token.of THEN Failed(p)
  ELSE Add([p EXCEPT !.stack = Front(@)], Last(p.stack).node)

ParseToken(p, token) ==
  IF p.error THEN p ELSE
  CASE token.is = "comment" -> p
    [] token.is = "text" ->
         IF token.value = <<>> THEN p ELSE Add(p, [kind |-> "text", value |-> token.value])
    [] token.is = "output" -> Add(p, [kind |-> "output", expr |-> token.value])
    [] token.is = "open"  -> OpenBlock(p, token)
    [] token.is = "else"  -> ElseTag(p, token)
    [] token.is = "close" -> CloseBlock(p, token)

ParseTemplate(tokens) == FoldLeft(ParseToken, Parsing, Trimmed(tokens))

Compiles(tokens) == LET p == ParseTemplate(tokens) IN ~p.error /\ p.stack = <<>>

-----------------------------------------------------------------------------
(* Rendering.  Values are a text, a list or an object, or missing.         *)

Undefined == [missing |-> TRUE]
TextValue(t)   == [text |-> t]
List(l)   == [list |-> l]
Object(o) == [object |-> o]

Truthy(v) ==
  \/ "text" \in DOMAIN v /\ v.text # <<>>
  \/ "list" \in DOMAIN v /\ v.list # <<>>
  \/ "object" \in DOMAIN v

Own(v, key) ==
  IF "object" \in DOMAIN v THEN IF key \in DOMAIN v.object THEN v.object[key] ELSE Undefined
  ELSE Undefined

\* How a value is inserted as text; a list and an object are JSON.
AsText(v) ==
  IF "text" \in DOMAIN v THEN v.text ELSE IF v = Undefined THEN <<>> ELSE <<"q", "x", "q">>

\* Text as it comes.
Unescaped(t) == t

\* A quote in a JSON string is escaped.
Escaped(t) == [i \in DOMAIN t |-> IF t[i] = "q" THEN "e" ELSE t[i]]

AsJson(v) == IF "text" \in DOMAIN v THEN <<"q">> \o Escaped(v.text) \o <<"q">> ELSE AsText(v)

\* A name missing from the innermost scope is looked up in the ones around it; what
\* follows it is read from there alone.
ResolvePath(segments, scopes) ==
  LET with == {i \in DOMAIN scopes : Own(scopes[i].value, segments[1]) # Undefined}
      scope == IF with = {} THEN Len(scopes) ELSE CHOOSE i \in with : \A j \in with : j <= i
  IN IF segments = <<>> THEN Last(scopes).value
     ELSE FoldLeft(Own, scopes[scope].value, segments)

\* @index is that of the innermost loop.
ResolveIndex(scopes) ==
  LET loops == {i \in DOMAIN scopes : scopes[i].index > 0}
  IN IF loops = {} THEN Undefined
     ELSE LET i == CHOOSE i \in loops : \A j \in loops : j <= i
          IN TextValue(IF scopes[i].index = 1 THEN <<>> ELSE <<"x">>)   \* 0 is not truthy

Resolve(expr, scopes) ==
  CASE expr.kind = "path" -> ResolvePath(expr.segments, scopes)
    [] expr.kind = "data" -> ResolveIndex(scopes)
    [] expr.kind = "json" -> ResolvePath(expr.of.segments, scopes)

Steps(expr) == IF expr.kind = "json" THEN 2 ELSE 1

\* visits (history): the nodes rendered.
Rendering == [out |-> <<>>, steps |-> 0, size |-> 0, failed |-> FALSE, visits |-> 0]

Spent(r, expr) ==
  IF r.steps + Steps(expr) > StepLimit THEN [r EXCEPT !.failed = TRUE]
  ELSE [r EXCEPT !.steps = @ + Steps(expr)]

Appended(r, text) ==
  IF r.failed THEN r
  ELSE IF r.size + Len(text) > OutputLimit THEN [r EXCEPT !.failed = TRUE]
  ELSE [r EXCEPT !.size = @ + Len(text), !.out = @ \o text]

Inserted(expr, scopes, mode) ==
  LET v == Resolve(expr, scopes)
  IN IF expr.kind = "json" THEN AsJson(v)
     ELSE IF mode = "json" THEN Escaped(AsText(v)) ELSE AsText(v)

\* The branch that is taken, and what is spent on the tests up to it.
RECURSIVE Taken(_, _, _, _)
Taken(node, i, scopes, r) ==
  IF i > Len(node.branches) THEN [r |-> r, body |-> node.otherwise]
  ELSE LET branch == node.branches[i]
           spent  == Spent(r, branch.test)
       IN IF spent.failed \/ Truthy(Resolve(branch.test, scopes)) # branch.negate
          THEN [r |-> spent, body |-> branch.body]
          ELSE Taken(node, i + 1, scopes, spent)

InScope(scopes, value, index) == Append(scopes, [value |-> value, index |-> index])

RECURSIVE RenderNode(_, _, _, _)

RenderAll(nodes, scopes, mode, r) ==
  FoldLeft(LAMBDA s, node : RenderNode(node, scopes, mode, s), r, nodes)

\* What a block renders is appended to the body around it, and its size counted again.
RenderBlock(nodes, scopes, mode, r) ==
  LET inner == RenderAll(nodes, scopes, mode, [r EXCEPT !.out = <<>>])
  IN Appended([inner EXCEPT !.out = r.out], inner.out)

RenderEach(node, scopes, mode, r) ==
  LET v == Resolve(node.expr, scopes)
      all == IF "list" \in DOMAIN v THEN v.list ELSE <<>>
      items == SubSeq(all, 1, IF Len(all) < LoopItems THEN Len(all) ELSE LoopItems)
  IN IF items = <<>> THEN RenderBlock(node.otherwise, scopes, mode, r)
     ELSE FoldLeftDomain(
            LAMBDA s, i : RenderBlock(node.body, InScope(scopes, items[i], i), mode, s),
            r, items)

RenderNode(node, scopes, mode, before) ==
  IF before.failed THEN before
  ELSE LET visited == [before EXCEPT !.visits = @ + 1]
           spent == IF node.kind \in {"text", "if"} THEN visited ELSE Spent(visited, node.expr)
       IN CASE spent.failed -> spent
            [] ~spent.failed /\ node.kind = "text" -> Appended(spent, node.value)
            [] ~spent.failed /\ node.kind = "output" ->
                 Appended(spent, Inserted(node.expr, scopes, mode))
            [] ~spent.failed /\ node.kind = "if" ->
                 LET taken == Taken(node, 1, scopes, spent)
                 IN RenderBlock(taken.body, scopes, mode, taken.r)
            [] ~spent.failed /\ node.kind = "with" ->
                 LET v == Resolve(node.expr, scopes)
                 IN IF Truthy(v) THEN RenderBlock(node.body, InScope(scopes, v, 0), mode, spent)
                    ELSE RenderBlock(node.otherwise, scopes, mode, spent)
            [] ~spent.failed /\ node.kind = "each" -> RenderEach(node, scopes, mode, spent)

Render(nodes, event, mode) ==
  RenderAll(nodes, <<[value |-> event, index |-> 0]>>, mode, Rendering)

-----------------------------------------------------------------------------
TemplateTypeOK ==
  /\ template \in Seq(Tokens) /\ Len(template) <= TemplateLength
  /\ expression \in Seq(PartsOfTags) /\ Len(expression) <= ExpressionLength

TemplateInit == template = <<>> /\ expression = <<>>

\* The next token of a template that may still be completed.
WriteToken(token) ==
  /\ Len(template) < TemplateLength /\ expression = <<>>
  /\ ~ParseTemplate(template).error
  /\ template' = Append(template, token)
  /\ UNCHANGED expression

WritePart(part) ==
  /\ Len(expression) < ExpressionLength /\ template = <<>>
  /\ expression' = Append(expression, part)
  /\ UNCHANGED template

TemplateNext ==
  \/ \E token \in Tokens : WriteToken(token)
  \/ \E part \in PartsOfTags : WritePart(part)

-----------------------------------------------------------------------------
(* The tree of a template, written down again. *)
RECURSIVE Unparsed(_)
Unparsed(node) ==
  LET all(nodes) == FlattenSeq([i \in DOMAIN nodes |-> Unparsed(nodes[i])])
      opening(of, expr) == <<Tag("open", of, expr)>>
      closing(of) == (IF node.otherwise = <<>> THEN <<>>
                      ELSE <<Tag("else", "", This)>> \o all(node.otherwise))
                     \o <<Tag("close", of, This)>>
  IN CASE node.kind = "text" -> <<[is |-> "text", value |-> node.value]>>
       [] node.kind = "output" -> <<Tag("output", "", node.expr)>>
       [] node.kind = "if" ->
            LET of == IF node.branches[1].negate THEN "unless" ELSE "if"
            IN opening(of, node.branches[1].test) \o all(node.branches[1].body)
               \o FlattenSeq([i \in 1 .. Len(node.branches) - 1 |->
                    <<Tag("else", "if", node.branches[i + 1].test)>>
                    \o all(node.branches[i + 1].body)])
               \o closing(of)
       [] OTHER -> opening(node.kind, node.expr) \o all(node.body) \o closing(node.kind)

\* What of a template is in its tree; an else with nothing after it leaves no trace.
Essential(tokens) ==
  LET solid == SelectSeq(Trimmed(tokens), LAMBDA t :
                 t.is # "comment" /\ (t.is = "text" => t.value # <<>>))
      bare(i) == solid[i].is = "else" /\ solid[i].of = "" /\ i < Len(solid)
                 /\ solid[i + 1].is = "close"
  IN FlattenSeq([i \in DOMAIN solid |-> IF bare(i) THEN <<>> ELSE <<solid[i]>>])

Nodes(tokens) == Len(SelectSeq(tokens, LAMBDA t : t.is \in {"text", "output", "open"}))

\* Blocks open before the i-th token, by the positions of their tags.
OpenAt(tokens, i) ==
  {j \in 1 .. i - 1 : tokens[j].is = "open" /\
     \A k \in j + 1 .. i - 1 :
       LET between(is) == {m \in j + 1 .. k : tokens[m].is = is}
       IN Cardinality(between("close")) <= Cardinality(between("open"))}

\* Every tag fits the blocks that are open where it is, and none is too deep.
WellFormed(tokens) ==
  /\ \A i \in DOMAIN tokens :
       LET open == OpenAt(tokens, i)
           inner == CHOOSE j \in open : \A k \in open : k <= j
       IN /\ tokens[i].is = "open" => Cardinality(open) < BlockDepth
          /\ tokens[i].is \in {"else", "close"} => open # {}
          /\ tokens[i].is = "close" => tokens[inner].of = tokens[i].of
          /\ tokens[i].is = "else" /\ tokens[i].of = "if" =>
               tokens[inner].of \in {"if", "unless"}
          /\ tokens[i].is = "else" => \A j \in inner + 1 .. i - 1 :
               ~(tokens[j].is = "else" /\ tokens[j].of = "" /\ OpenAt(tokens, j) = open)

\* Events: with a list of texts, of objects, and one whose texts hold quotes.
EventWith(t, items) == Object([n |-> TextValue(t), l |-> List(items)])

EventsOf(t) ==
  {EventWith(t, [i \in 1 .. LoopItems + 4 |-> TextValue(IF i = 2 THEN <<>> ELSE t)]),
   EventWith(<<>>, <<Object([l |-> List(<<TextValue(t)>>)])>>),
   Object([l |-> Object([n |-> TextValue(t)])])}

Quotes(text) == SelectSeq(text, LAMBDA c : c = "q")

Plain(v) == IF v = "q" THEN "x" ELSE v

RECURSIVE Unquoted(_)
Unquoted(v) ==
  IF "text" \in DOMAIN v THEN TextValue([i \in DOMAIN v.text |-> Plain(v.text[i])])
  ELSE IF "list" \in DOMAIN v THEN List([i \in DOMAIN v.list |-> Unquoted(v.list[i])])
  ELSE IF "object" \in DOMAIN v THEN Object([k \in DOMAIN v.object |-> Unquoted(v.object[k])])
  ELSE v

(***************************************************************************)
(* A template is accepted exactly when its blocks are, and its tree holds  *)
(* all of it in its order; an expression is accepted exactly when it is    *)
(* one, and read as what was written.  A body that renders is within its   *)
(* limit and took a bounded number of steps, and in JSON no text of an     *)
(* event begins or ends a string.                                          *)
(* (webhook-template.ts parse, parseExpression, render)                    *)
(***************************************************************************)
TemplatesSafe ==
  /\ ParseTemplate(template).error <=> ~WellFormed(template)
  /\ Compiles(template) <=> WellFormed(template) /\ OpenAt(template, Len(template) + 1) = {}
  /\ Compiles(template) =>
       LET tree == ParseTemplate(template).root
       IN /\ FlattenSeq([i \in DOMAIN tree |-> Unparsed(tree[i])]) = Essential(template)
          /\ \A event \in EventsOf(<<"q">>) : \A mode \in {"json", "text"} :
               LET r == Render(tree, event, mode)
                   s == Render(tree, Unquoted(event), mode)
               IN /\ r.visits <= Nodes(template) * (1 + LoopItems * r.steps)
                  /\ ~r.failed => Len(r.out) <= OutputLimit
                  /\ mode = "json" /\ ~r.failed /\ ~s.failed => Quotes(r.out) = Quotes(s.out)
  /\ LET e == ParseExpression(expression)
     IN /\ e # Wrong => /\ <<Written(e), e>> \in Catalogue
                       /\ Unparenthesized(Written(e)) = Unparenthesized(expression)
        /\ expression \in WrittenExpressions => <<expression, e>> \in Catalogue

-----------------------------------------------------------------------------
(***************************************************************************)
(* The filters of a webhook (shared/webhook-filters.ts): lists of patterns *)
(* with wildcards, exclusions among them, checked when they are saved and  *)
(* applied to every event.  Every list is alike.                           *)
(***************************************************************************)

CONSTANTS
  Typed,          \* patterns as they are typed
  FilterLists,    \* repositories, branches and so on
  MaxPatterns     \* bound, and the code's limit of patterns in a list

ASSUME FilterAssumption ==
  /\ \A t \in Typed : t \in Seq({"a", "A", "b", "*", "!", " ", "control"})
  /\ MaxPatterns \in Nat

VARIABLES
  typed,      \* the patterns of each list, as they are typed
  words,      \* the text the summary must contain
  fields      \* what an event carries for each list

filterVars == <<typed, words, fields>>

-----------------------------------------------------------------------------
Absent == <<"absent">>

Values == {<<"a">>, <<"A", "b">>, <<"b">>, <<>>}

Rejected == [filters |-> "rejected"]

Lower(text) == [i \in DOMAIN text |-> IF text[i] = "A" THEN "a" ELSE text[i]]

TrimmedText(text) ==
  LET solid == {i \in DOMAIN text : text[i] # " "}
  IN IF solid = {} THEN <<>>
     ELSE SubSeq(text, CHOOSE i \in solid : \A j \in solid : i <= j,
                       CHOOSE i \in solid : \A j \in solid : j <= i)

HasControl(text) == "control" \in Range(text)

Valid(pattern) == TrimmedText(pattern) # <<>> /\ ~HasControl(pattern)

\* Without the limits of a list.
Unlimited(lists, text) ==
  [lists |-> [k \in FilterLists |-> {TrimmedText(p) : p \in Range(lists[k])}],
   text |-> TrimmedText(text)]

\* validateFilters: each pattern trimmed, none twice; an empty list is left out.
Validated(lists, text) ==
  IF \/ \E k \in FilterLists : Len(lists[k]) > MaxPatterns \/ \E p \in Range(lists[k]) : ~Valid(p)
     \/ HasControl(text)
  THEN Rejected
  ELSE [lists |-> [k \in {l \in FilterLists : lists[l] # <<>>} |->
                     {TrimmedText(p) : p \in Range(lists[k])}],
        text |-> TrimmedText(text)]

\* A pattern as an anchored expression: the ends of the prefixes of a value that match.
Ends(ends, c, value) ==
  IF c = "*" THEN {j \in 0 .. Len(value) : \E i \in ends : i <= j}
  ELSE {i \in 1 .. Len(value) : i - 1 \in ends /\ Lower(value)[i] = Lower(<<c>>)[1]}

\* Without wildcards.
Literally(pattern, value) == Lower(pattern) = Lower(value)

Glob(pattern, value) ==
  Len(value) \in FoldLeft(LAMBDA ends, c : Ends(ends, c, value), {0}, pattern)

Excludes(pattern) == Head(pattern) = "!"

\* Exclusions win; when inclusions exist, one must match.
ListMatches(patterns, value) ==
  LET included == {p \in patterns : ~Excludes(p)}
  IN /\ \A p \in patterns \ included : ~Glob(Tail(p), value)
     /\ included # {} => \E p \in included : Glob(p, value)

SummaryHas(text, part) ==
  \E i \in 0 .. Len(text) - Len(part) : SubSeq(Lower(text), i + 1, i + Len(part)) = Lower(part)

\* A list applies only to events that carry its field; the text to every summary.
FiltersMatch(filters, event, summary) ==
  /\ \A k \in DOMAIN filters.lists :
       event[k] # Absent => ListMatches(filters.lists[k], event[k])
  /\ filters.text # <<>> => SummaryHas(summary, filters.text)

-----------------------------------------------------------------------------
FilterTypeOK ==
  /\ typed \in [FilterLists -> Seq(Typed)]
  /\ \A k \in FilterLists : Len(typed[k]) <= MaxPatterns + 1
  /\ words \in {<<>>} \cup Typed
  /\ fields \in [FilterLists -> Values \cup {Absent}]
  /\ LET saved == Validated(typed, words)
     IN saved = Rejected \/ \A k \in DOMAIN saved.lists : Cardinality(saved.lists[k]) \in 1 .. MaxPatterns

FilterInit ==
  /\ typed = [k \in FilterLists |-> <<>>]
  /\ words = <<>>
  /\ fields \in [FilterLists -> Values \cup {Absent}]

TypePattern(k, t) ==
  /\ Len(typed[k]) <= MaxPatterns
  /\ typed' = [typed EXCEPT ![k] = Append(@, t)]
  /\ UNCHANGED <<words, fields>>

TypeWords(t) ==
  /\ words = <<>> /\ words' = t
  /\ UNCHANGED <<typed, fields>>

FilterNext ==
  \/ \E k \in FilterLists, t \in Typed : TypePattern(k, t)
  \/ \E t \in Typed : TypeWords(t)

-----------------------------------------------------------------------------
\* A wildcard stands for some part of the value.
RECURSIVE Reads(_, _)
Reads(pattern, value) ==
  IF pattern = <<>> THEN value = <<>>
  ELSE IF Head(pattern) = "*"
  THEN \E i \in 0 .. Len(value) : Reads(Tail(pattern), SubSeq(value, i + 1, Len(value)))
  ELSE /\ value # <<>> /\ Lower(<<Head(value)>>) = Lower(<<Head(pattern)>>)
       /\ Reads(Tail(pattern), Tail(value))

\* What a list of patterns, as typed, says of a value.
Wanted(patterns, value) ==
  LET meant == {TrimmedText(p) : p \in Range(patterns)}
      excluded == {p \in meant : Head(p) = "!"}
  IN /\ \A p \in excluded : ~Reads(Tail(p), value)
     /\ meant = excluded \/ \E p \in meant \ excluded : Reads(p, value)

(***************************************************************************)
(* What is saved is saved again unchanged.  An event passes exactly when   *)
(* every list that was typed and whose field it carries wants its value,   *)
(* spaces and repetitions aside, and its summary holds the words.          *)
(* (webhook-filters.ts validateFilters, filtersMatch)                      *)
(***************************************************************************)
FiltersSafe ==
  LET saved == Validated(typed, words)
      again == [k \in FilterLists |-> IF k \in DOMAIN saved.lists
                                      THEN SetToSeq(saved.lists[k]) ELSE <<>>]
  IN saved # Rejected =>
       /\ Validated(again, saved.text) = saved
       /\ \A summary \in {<<"b">>, <<"a", "b">>} :
            FiltersMatch(saved, fields, summary) <=>
              /\ \A k \in FilterLists :
                   typed[k] # <<>> /\ fields[k] # Absent => Wanted(typed[k], fields[k])
              /\ Reads(<<"*">> \o TrimmedText(words) \o <<"*">>, summary)
=============================================================================
