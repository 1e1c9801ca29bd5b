# RSML in TLA+

RSML is a style sheet language for Roblox interfaces. The crate lexes and
parses a file into a syntax tree; from the tree, a *compiler* builds the style
rules, and a *typechecker* reports what is wrong with the file. This directory
models the parts of the crate that have behaviour rather than data:
the parser, macro expansion, the checks that are meant to make expansion safe, the search
for recursive macros, the walk over selector lists, the derive aliases with the
two-way map behind them, and values: static tokens, annotations, properties and tweens
as the typechecker sees them and as the compiler stores them. TLC checks each model on small instances; TLAPS proves
the main results for every value of the constants.

Paths below are relative to `src/`, the root of the repository; the crate's own
code is in `src/src/`.

## The system

| Part | State it keeps | Operations | What makes it correct |
|---|---|---|---|
| lexer (`lexer.rs`) | a position in the text | next token, multiline strings | spans cover the text; a multiline string ends where its bracket closes |
| parser, reading ahead (`parser/advance.rs`, `parser/mod.rs`) | the token ahead, `did_advance`, directives, collected errors | `advance*`, parse loops | no token lost or read twice, every loop moves on, each stretch of unexpected tokens reported once |
| parser, grammar (`parser/declaration.rs`, `rule.rs`, `datatype.rs`) | the construct being built | one function per construct | operators bind by precedence; an unfinished construct is still returned |
| macro registry (`macro_registry.rs`, `builtins.rs`) | name and arity to definition | insert, look up, count arguments | both halves of the crate resolve a call alike |
| compiler (`compiler/mod.rs`, `tree_node.rs`) | the tree, `current_idx`, the stack of argument frames, `active_expansions`, the selectors being expanded | compile each construct, expand a construct macro, expand a selector macro | what a file compiles to is what substituting macros by hand gives; recursion is cut; every stack unwinds |
| typechecker, macros (`typechecker/macro_check.rs`, `typechecker/mod.rs`) | the registry so far, scopes, errors | register, validate a call or an argument, search for recursion | a file without errors loses nothing when compiled; recursion is always found and nothing else is taken for it |
| typechecker, selectors (`typechecker/selectors.rs`) | the iterator, the set of classes found, the parent's classes | one function per position in a selector | the classes a rule applies to are found, all of them |
| typechecker, derives (`typechecker/derive.rs`) | targets, dependencies, errors; `Luaurc.dependants` | resolve an alias, resolve a derive | a file is found again whenever an alias it uses changes |
| luaurc (`typechecker/luaurc/mod.rs`) | alias table, dependants | `diff`, read | exactly the aliases that changed are found |
| multi-map (`typechecker/multibimap/mod.rs`) | two maps | insert, remove by either side | both maps hold the same pairs |
| typechecker, values (`annotations.rs`, `properties.rs`, `tween.rs`, part of `mod.rs`) | static scopes, declared tokens, resolved types, definitions | resolve an assignment, check a property against the reflection database, an annotation against its signatures, a tween | it resolves what the compiler stores; where it is silent, properties have their types and nothing written is lost |
| values (`datatype/`) | none | evaluate a construct, apply a tuple annotation, coerce | every argument counts; a sequence goes from start to end |

The parts call each other in one thread. `Typechecker::new` is `async` for file
access only, and awaits each derive before the next construct. The compiler and
the typechecker share nothing but the parsed file: each collects the macros of
the file in its own way, and a tool runs one to tell the author what is wrong
and the other to compile. What is hard here is therefore not concurrency but

* recursion through several functions over shared mutable state (the guard, the
  frames, the cursor into the tree), where each path has to restore it;
* two implementations of the same lookup that have to agree: of a macro, and of a static
  token, which one side seeks in a stack of scopes and the other up the parents of a tree;
* a table of signatures beside the functions that read the arguments;
* walks with many exits, each of which silently leaves the rest unchecked;
* hash order, which makes the roots of the recursion search arbitrary;
* state that outlives a call and goes stale: dependants, results, alias tables.

`PROJECT.json` lists these as hazards, each at its line.

## Modules

| Module | Models | How |
|---|---|---|
| `Compiler` | `compiler/mod.rs`, `tree_node.rs` | The activations of `compile_macro_call`, `compile_rule` and `expand_selectors_into`, which call each other, are explicit stacks (`scopes` with their `blocks`, and `lists`). One action per kind of construct and per return. `bindings`, `active`, `current`, `nodes`, `out` and `comma` are the fields and locals of the same meaning. Values and what they coerce to are constants. |
| `MacroSubstitution` | the meaning of a file | A reference definition, not a translation: substitute every call by hand, and give the tree, by recursive functions over what is left of a body. `CompilesToMeaning` compares the two when the compiler is done. |
| `MacroCycles` | `detect_recursive_macro_calls`, `dfs_macro_cycle` | `frames` is the call stack of the search, one step per iteration of its loop. The outer loop takes any root, as the `HashMap` may. `finished` is a history variable. |
| `Constructs` | what the parser hands to the typechecker, as far as macros go | Constructs are trees (`Levels`), and a call carries the arity the compiler counts; `CheckedKey` is what the checker counts. |
| `MacroChecker` | the rest of `macro_check.rs`, the macro part of `Typechecker::new`, of `typecheck_rule` and of the selector walk | One step per top-level construct, in source order, with all its nested constructs: nothing is visible in between. |
| `Pipeline` | a file checked, searched, then compiled | `MacroChecker`, `MacroCycles` and `Compiler` instantiated side by side over the same file. The properties say what the silence of the first two promises about the third. The instances are of the modules with the proofs, so that the proofs about `Pipeline` can cite them. |
| `SelectorChecker` | `TypecheckSelectors` | The functions call each other at their ends, so the walk is a loop with a `mode`. `at` is the position of the iterator, `classes` the insertion-ordered set. |
| `TokenReader` | `next_node` and the functions of `advance.rs` | The part of the parser every other part calls: comments, directives, tokens the lexer could not read, and the searches up to a welcome token or a delimiter. |
| `DatatypeParser` | `datatype.rs`, the calls and arguments of `declaration.rs` | Each function of the code is an operator from the state of the reader and the node in hand to the state and node left, with the tree or its absence. |
| `Parser` | `mod.rs`, `rule.rs`, the rest of `declaration.rs` | One step for the directives, one per parser that takes the node in a turn of `parse_loop`, one per end of a turn, and one per way a body ends. `bodies` are the activations of the loop, each with the parser it has come to in its turn. |
| `Expressions` | `evaluate_construct` over numbers | What the compiler makes of an operation the parser read, beside the value by the usual rules. |
| `FileWalk` | the recursion over rules common to both halves | A walk by places, into the body of each rule and out again. |
| `Data` | the values: `types.rs`, `variants.rs` | The types of a value, enum items and their names, the coercion a static token makes. `Then` is the `?` of the code, an empty sequence its `None`. |
| `Datatypes` | `datatype/`: `types.rs`, `evaluate.rs`, `tuple/` | What a construct evaluates to, annotations and coercions included, as operators. A function of the code that calls itself is what one call of it does, given what the calls within come to (`Evaluate`, `CoerceToVariant`); `EvaluatedAsHere` states these equations of the operators that `Evaluation` leaves open. |
| `Annotations` | `annotations.rs`, the reference checks of `mod.rs` | Signatures, their matching, and the walks over a value for tokens and enums. |
| `Evaluation` | the calls from the two passes into the modules of values | What the passes ask of `Datatypes` and `Annotations`, as constant operators: a pass hands over a construct, a key and the values of the tokens in it. `MCValues` defines them by recursion from the operators of those two modules; the proofs leave them open, or take the equations of `EvaluatedAsHere` of them. |
| `ValueChecker` | `static_scopes`, `declared_tokens`, `resolve_token_assignment`, `properties.rs`, `tween.rs` | One step per assignment, tween, priority, and start or end of a rule. |
| `ValueCompiler` | `compile_assignment`, `compile_rule`, `resolve_static_attribute`, priorities and tweens | The same constructs as the compiler takes them. `nodes` keeps what each node stores and its parent. |
| `Values` | a file checked, then compiled | Both over the same file; the properties relate what is resolved, reported and stored. |
| `StoredValues` | | What is stored for tweens and for sequences of keypoints, as properties of the steps that store them. |
| `ValueEffects` | | What else rests on the values of `Datatypes`: that every argument of an annotation counts. |
| `Pairing` | a set of pairs | The abstract specification of a two-way map. |
| `MultiBiMap` | `MultiBiMap` | One action per operation, over the two maps; `IsRelation` is the refinement of `Pairing` under the pairs seen from the left. |
| `Derives` | `derive.rs`, `Aliases::diff`, the use of `Dependants` | One step per derive of the file being checked and per turn of the loop inside `diff`. `dependants` is an instance of `MultiBiMap`. What holds the files and the `Luaurc` is outside the repository (an editor's language server); `Edit`, `Close`, `BeginReload`, `EndReload` and `MoveFiles`, after which the files at a path are others, model it from what the public functions are for, and are marked external in the map. |
| `MacroCyclesProofs`, `CompilerProofs`, `MacroCheckerProofs`, `PipelineProofs`, `MultiBiMapProofs`, `DerivesProofs`, `SelectorCheckerProofs`, `ValuesProofs` | | The proofs. |
| `MC*` | | Instances for TLC. |

Definitions headed *Mistake* are no part of the model. Each is an action or
operator with a slip the code could have made; putting it in the place of the
definition that follows makes TLC find the property violated that `PROJECT.json`
names under `mutants`.

### What is abstracted

Text is abstracted throughout. In the parser's modules a file is a sequence of
lexemes, one for each kind of token the parser tells apart, a token is named by its
place in the file, and errors are kept as the kinds reported so far. The lexer is
left out, except that a comment may lack its end. In the other modules a macro key is a model value or a record of a name
and an arity, a value is one of a few model values, a selector part is its kind and, where
classes matter, a class. Messages and source ranges of errors are left out,
except for the node an error is about. Numbers appear in `Expressions`,
where four of them are enough to tell groupings apart, and in the modules of values. Paths are members
of a set, with a function that says which file each leads to (`located`, what `canonicalize`
answers). The function changes when files come and go on the disk, though not in the
middle of a check.

In `MacroChecker` a selector part is a class; what the walk does at a tag, name,
state or pseudo is in `SelectorChecker`, which in turn leaves macro calls
unvalidated. A body that did not parse is a value of its own (`NoBody`), since
the code treats it differently from an empty one.

In the modules of values a number is counted in twelfths, so that a half, a third and
a hundredth of 600 are exact; casts to integers truncate and saturate as Rust's do. A
colour is a point with the space it was given in, and moving it to another type leaves
both alone, so that two colours are told apart but not computed with. Arguments come
without their commas, which every user of a list filters out. A rule comes with the
classes its selectors were found to select (`SelectorChecker`). Left out are the
component-wise arithmetic and rounding of vectors, case folding of font weights, and the
division of numbers. `resolved` and
`stored` are by the place of the assignment, where the code keeps the last one of each
name; nothing reads them back but through the scopes and nodes, which are by name.

The parsing functions thread a state through several results. `With(value, Rest)`
names such a result: it is a LET that TLC evaluates once.

## Runs

| Run | Question | Bounds |
|---|---|---|
| `macro_cycles` | Does the search report exactly recursion, once, and end? | every call graph over three macros, at most two calls a body, any of them unregistered or without a body, roots in any order |
| `compiler` | Is the compiled tree the meaning of the file; are tree, guard, frames and selectors well formed on the way; does it end? | 840 files: two local macros and a selector macro with four bodies each, a builtin, overridden, bodiless and duplicate definitions, three main programs, builtins on and off; bodies that are a value, and a macro defined in a rule |
| `pipeline` | What does a file without macro errors lose in compilation? Nothing. | 992 files: every combination of two construct macros and a selector macro, defined before or after use in three orders, three main programs; a value macro whose value is an argument, a constant or a call, and a macro defined in a rule |
| `pipeline_lost` | violation, see below | a file that shows it twice |
| `selectors` | Does the walk find the classes and end? | all 30,941 lists of up to four of 13 nodes, and all lists of two or three usual selectors, each at the top and in a rule for two classes |
| `selectors_strict` | violation, see below | a list that shows two causes |
| `parser` | Is a file written from a tree read as that tree? Is anything lost, or left unfinished, without an error? Does every step move on? | 11,555 files: trees over eight values, eight selector heads, four macro heads and two levels of bodies; these with one lexeme removed or one of nine added; comments and directives; every file of up to four lexemes out of eight |
| `expressions` | violation, see below | all operations of up to four operands out of three operators; a call whose first argument is no value |
| `multibimap` | Do both sides agree and act as one relation? | three lefts, three rights, any sequence of operations |
| `derives` | Are dependants and results right after edits, new alias tables and changes of the disk? | three files, two aliases, four places, nine alias tables, two states of the disk, four sources, three edits, reloads, closed files or changes of the disk |
| `values` | Does the compiler store what the typechecker resolved? Where nothing is reported, do properties have their types, are tweens stored whole, does every argument count? Are sequences in order? | 7,249 files: every annotation with nothing, with each of some 50 arguments of every kind, and with several of those it takes; static tokens assigned six values at three depths, assigned out of themselves, and used in five ways; properties of eight selections of classes in both modes; tweens of up to six arguments |
| `values_lost` | violation, see below | one file with five causes, each enough alone |

The bounds are chosen so that each interesting case occurs. Three macros give
self-recursion, cycles of two and three, a diamond, and a cycle behind a
finished root. The compiler's files pass an argument through two macros, reuse
argument names between frames, call a macro from inside itself and from the
selectors of a rule in itself, and let macros contribute a leading, trailing or
doubled comma. Three lefts and rights let one bucket lose its only member while
another loses one of two. Three external events let two files share an alias and one
close, or let an alias, or the file it leads to, appear, change or go between two checks. Lists of four
nodes reach every action of the walk from both kinds of rule; the lists of two
or three selectors add the classes a later selector could disturb. The parser's
trees hold every kind of construct, in a rule and in a macro, before and after each
other; removing or adding a lexeme makes each construct end too early, too late or in
a construct around it, and the short files reach combinations nobody would write.
The files of `values` give every type of argument to every annotation, so that each
combination of signature and conversion occurs. Three depths are needed for a token
assigned in a rule, hidden by one within it, and looked up again behind both; a token
assigned out of one that was assigned nothing is where the two lookups part (`Settled`).
Four keypoints let timed ones change places around an untimed one.

Most of what `values` asks is of the form "if nothing is reported, then". To see that
this is not empty: well over a thousand of the files are silent, among them uses of every annotation.

`CHECK_DEADLOCK FALSE` is set in `derives` alone: once the bounded number of
external events is used up nothing more happens. The other systems end in an
explicit `Terminated` step or run forever.

### Fairness

`Termination` and `Returns` assume weak fairness of the code's own steps and
nothing else. These are loops and recursive functions in one thread, without a
lock or a wait: once called, they take their next step until they return. The
external events of `Derives` have no fairness; nobody is obliged to edit a file or to move one.
The parser needs none: `Progress` says of every step that it takes the parse further
in a finite order (the place of the reader, then the node in hand, then the depth of
the bodies, then the turn), and the deadlock check that there is a step until the
parse is done.

### Disagreements found

Each run must be found violated; `findings` in `PROJECT.json` quotes what the
repository says instead.

* `pipeline_lost`, first: with `--!nobuiltins`, a call of a builtin is dropped by the
  compiler and not reported by the typechecker, which looks builtins up whatever
  the directive says.
* `pipeline_lost`, second: after `S!(),` at the start of a selector list the walk
  ends, and a macro that does not exist is not reported behind it.
* `selectors_strict`, first: after a tag, name, state or pseudo the walk goes on only
  if a comma follows, so the classes behind it are missed: `.Hello > TextLabel,
  Frame {}` yields neither class, and strict mode does not hold properties against
  them.
* `selectors_strict`, second: inside a rule for `Frame` and `TextLabel`, `:hover, >
  Frame::UICorner {}` removes `TextLabel` from the classes. The class before a
  pseudo is taken back with `pop`, which removes another one if the class was in the
  set already.
* `expressions`: an operator that binds more tightly takes all that follows to the
  right side of the one before: `1 - 2 * 3 - 4` is read as `1 - (2 * 3 - 4)`.
* `expressions`, second: if the first argument of a macro call is no value, as in `A!(=);`,
  the token is dropped and "no node" returned, which everyone above takes for the
  end of the file. Nothing behind the call is parsed. (The call is reported.)
* `values_lost`, first: nothing is checked of a `@priority` in a rule, so a token that does
  not exist is not reported there, and no priority is stored.
* `values_lost`, second: `color3(#ff0000)` is an accepted signature, with a test, and
  yields black: the annotation knows brick colours, Oklab and Oklch, and takes a
  `Color3` for three missing numbers. `Overlooked` in `ValueEffects` lists the other arguments
  that are accepted and not read: a colour to `rgb`, a UDim to `udim`, Oklab to `oklab` and
  Oklch to `oklch`, CSS colours to `colorseq`, an integer vector to `rect`, an item of an
  enum (as opposed to a shorthand) and a content id to `font`, and a content id to `content`.
* `values_lost`, third: `@tween p (.5, tw:unknown)` is taken for a bare number, because
  the tuple is evaluated and elements without a value are dropped. The compiler sees a
  tuple, one of whose parts has no value, and stores nothing.
* `values_lost`, fourth: `Enum:TextXAlignment.Left`, with a colon, is checked as an item of
  its enum and evaluated to nothing.
* `values_lost`, fifth: `$!x = nil` in a rule hides the token of the rule around from the
  typechecker and not from the compiler. What is assigned `$!x` then is checked against
  nothing, and stored with the outer value, of whatever type.

Each passing property states the conditions under which it holds (`Plain`,
`SelectorsReached`, `OwnArguments`, `Simple`, `LostTerminators`, `MayLackBody`,
`MayLackBrace`, `Settled`, `Overlooked`); what they exclude is what these runs, the hazards' notes, or the
list below are about. `OwnArguments` is there because the checker does not look at
arguments inside the parentheses of a call, and `Plain` excludes a comma without a
value behind it in a call, which the checker counts as one more argument and the
compiler does not. The parser keeps such a comma only where it reports an error.

The parser does several more things an author may not expect. No line of the
repository says otherwise, so no run calls them wrong:

* `A!(); {` and `A!(); ,` turn a call that had its `;` into a selector of a rule, and
  the `;` disappears (`LostTerminators`).
* A rule without a body is accepted silently in front of the brace of the body around
  it (`A { B C }`), and at the end of the file behind a macro call (`MayLackBody`).
* A `Datatype` macro whose body is an operation or a table may lack its brace
  (`MayLackBrace`).
* A token, `@priority`, `@tween` or `@derive` whose value is a macro call is said to
  lack its `;`, which the call has read; the same for a call that is the last value in
  parentheses or the body of a `Datatype` macro.
* `1 + -2` and `1 + + 2` are chains of operators, of which the compiler applies the first.
* Once a loop has skipped a token, it reports the same stretch after every later turn.

And of values:

* A static token that holds a shorthand keeps it as such in the typechecker, and in the
  compiler takes the enum of its own name, if there is one, or nothing (`Settled`).
* A keypoint put in front moves the last one, which is then asked for at its old place: in
  `numseq((.5, 1, 0), (1, 0, 0))` the value at the end is compared and copied from the
  keypoint before it. `SequencesSpan` says of such sequences only that they span 0 to 1
  in order and begin right.
* `numseq()` panics; in a `@priority`, where nothing is checked, only in the compiler.
* An argument without a value disappears, and those behind it move up. Where a number is
  wanted any operation passes, so that `vec2(-"a", 1)` is accepted and has one as its
  first number.
* `(:Fill)`, in parentheses, is not looked at as an item of an enum and stores the item
  only if the property's own name is that of the enum.
* `lerp` of two values of different types is the first one.

## Proofs

All proofs are for arbitrary constants, from the assumptions named in the
modules (`...Assumption`): these say that the constants have the shape of what
the parser produces, and nothing about which macros exist or how they call each
other.

**`MacroCyclesProofs`**: the search reports only calls on cycles, reports each
once, and its silence means that there is no cycle, for any finite or infinite
set of macros and any call graph. A cycle is defined without recursion or paths: `b` can be reached from
`a` if it is in every set of macros that contains `a` and that no call leaves. The
inductive invariant (`IInv`) says that grey is being on the stack and black
being finished, that a macro on the stack reaches those above it, and that the
calls a frame has passed lead to a black macro, were reported, or are the frame
above. The second part gives soundness: a grey callee reaches the caller. The third
gives completeness: if nothing was reported, every call of a finished macro leads to
one finished earlier (`UnreportedCallsRank`, a part of `IInv`), and in a search that has ended
every macro is finished; the macros finished up to a point are then closed
under calls, so no macro is reached by its own callee.

**`CompilerProofs`**: the state is well typed; a bound argument names the frame of
its caller, which is still on the stack, so chains of arguments end; the guard is
exactly the set of expansions under way, none of them twice; the nodes are one tree at
every moment; each rule body and macro body is compiled where it stands; no
selector list has an empty place; everything is unwound at the end; and
no step touches a node other than the current one. The invariants are proved as
one conjunction, since they lean on each other: a frame is popped with its scope
only because both stacks have the same height, a guard entry is removed for good
only because no macro is on the stacks twice, and a restored cursor is a
node of the tree because blocks follow the tree. The last section of `Compiler` says what
the stacks look like in a file all of whose calls find their macros (`CallsFound`), given
the constructs of each macro and a rank that falls from every macro to those it calls:
every block holds constructs of the macro it stands in, and ranks fall along the stacks, so
no call meets the guard (`CallExpands`, `SelectorCallExpands`, `SetArgumentBound`).

The same module proves that the finished tree is the meaning of the file
(`CompilesCorrectly`). At every moment the stacks stand for what is left of the text: each
open block for the rest of its code, to be read with what stands for the arguments there,
inside the macros that are open, into the tree and the node it has come to (`WorkOf`). The
invariant (`StacksStand`) says that an environment for every scope and a tree for every block
exist such that each environment is the bindings of its scope substituted into the one below
(`EnvironmentsStand`), each tree is what its block makes of the tree of the block inside it,
and the outermost is the meaning of the file (`TreesStand`). An argument keeps its meaning
when it is looked up through several frames (`EvaluateMeans`); a step takes a construct off
one end of this chain without changing what the other end comes to; when nothing is left, the
tree there is the one that was built. While the selectors of a rule are expanded the same is
said of the lists on their stack (`ListsMean`), by way of the list as it would be without
leaving out empty places. The reference definition consists of three recursive functions
(`Places`, `PlainSelectors`, `Trees`); that they satisfy their equations is proved by
well-founded induction (`RecursiveFunction`), over the macros not yet open and the depth of
what is left. Hence the two hypotheses: the builtins are finitely many, and bodies are nested
finitely deep (`Nesting`). Both hold of every parsed file, and TLC evaluates them for the
instance it runs (`Finite` in `MCCompiler`).

**`MacroCheckerProofs`**: while no macro error has been reported, each macro passed is
known as it was defined, and what has been passed stays free of errors judged by all the
macros known now, though it was checked against those known then (`PassedIsClean`). The reason
is that a call found stays found when macros are added. The module also proves what its
two recursive functions satisfy: a construct's nested constructs (`NestedDef`) and the calls
handed to the search (`CallsInDef`). Both recurse over constructs, of which
`NestingAssumption` says only that they are trees, by a depth; existence is by induction on
that depth, through the least counterexample, as the induction theorems of the library
cannot be used. It follows that the search is given every call nested in a macro's body
(`BodyCallsFacts`).

**`PipelineProofs`**: in a file for which neither the walk nor the search has reported
anything, every macro call that is compiled is expanded, in constructs and in
selectors; no assignment mentions an unbound argument; and the expansions are a path of the
graph that was searched. This is the sentence the two entry points of the crate owe each
other, and it holds for every file, registry of builtins and order of roots. The argument joins the
three parts. From `MacroCheckerProofs`: the compiler, which takes the last
definition of a key, finds the one the checker saw, since silence means there is only one
(`ResolveMacro`), and each call without an error finds a macro of its kind (`FoundFacts`). From
`MacroCyclesProofs`: every macro is finished when the search is done, and a callee before
its caller (`UnreportedCallsRank`), so the position at which a macro was finished is the
rank `CompilerProofs` asks for (`CallRanks`); a builtin has rank zero, as it calls nothing.
So the file is `Grounded` and its `CallsFound` (`SilentFileSound`), and the stacks stand
from the moment the compiler begins (`IInv`). The hypotheses are those of the properties
themselves: `Plain`, `SelectorsReached` and `OwnArguments` say which files the two
halves read alike, and `pipeline_lost` shows that the first two are needed. `OwnArguments` is needed
because nothing looks at the arguments inside a call's parentheses, nor at a tween's outside
macros. Of the parser the proofs use that a macro's or a call's key has the number of its
arguments and that a body is of the kind its definition returns (`FilesAssumption`,
`ArityAssumption`), and of `builtins.rsml` that its macros call none and mention only their
own arguments (`BuiltinsFileAssumption`).

**`MultiBiMapProofs`**: both sides agree; removals leave no empty bucket; and the
map implements `Pairing`. The agreement is inductive together with the type
invariant. The removals depend on it: they drop a bucket of length one without
looking at its member, which is right only because that member must be the key
being removed.

**`DerivesProofs`**: for any files, aliases, tables and states of the disk, a file stays listed under
every alias its last check met; `diff` yields exactly the aliases that differ; and no
result is left that a check would not give now. `DerivesAssumption` says that an alias
table is a finite map and that in each state of the disk a place leads to one file or to none. The invariant (`IInv`)
takes over the one of `MultiBiMap`, since a file is found again only if both sides of
the dependants agree, and adds three parts. `CheckSoFar`: what a check has found, and whom
it has listed, is what the derives up to its place give. `DiffSoFar`: the keys that `diff` has
passed in both tables are below those to come, and what it has yielded is what differs
among them; this needs the keys of a table to be an increasing sequence of all of them, which
is proved to exist for every finite table (`FiniteOrdered`). `Settled`: a file that is not
stale has the result its derives give under the present table and on the present disk. When
files move, a file that derived none of them and had no error has the same targets as before. When a new table takes the
place of the old one, a file none of whose aliases differ has the same targets as before,
and every other one is listed under an alias that `diff` has yielded, so it is made stale:
`ResultsFresh` rests on both other theorems there.

**`SelectorCheckerProofs`**: for lists of any length. On every list, a class that is found or
held back is an Instance, one of the rule around, or named up to where the walk is, and
errors are about one node after the other (`IInv`, for `ClassesFromWalk`); a node that
a selector is to begin at has not been reported yet, which is the part `ClassesFromWalk` does
not say and the invariant needs. On the lists the walk was written for (`Simple`), it
ends with exactly the classes the selectors stand for (`SimpleListsResolve`). The
invariant for this (`TrackInv`) gives the walk a selector it is in, which begins
behind a comma: the classes of all selectors before it have been found and, depending on the
mode, nothing of this one, a class that is held back at the top or added last in a rule,
or all of it. The condition of `Simple` on pseudo instances is needed at one step, where the
class taken out of the set must be the one added last. Where `Simple` does not hold,
`selectors_strict` shows what is lost.

**`ValuesProofs`**: for every file, every reflection database and every evaluation of
values whatever, what the typechecker resolves an assignment to is what the compiler stores
for it (`CompiledAsResolved`), and what is stored for a property of a file without errors
has the type that the property has for the classes of its rule (`PropertiesFit`).
Evaluation is uninterpreted in these two (`Evaluation`): all the argument needs of it is that both
passes call the same functions with the same values of the tokens in a construct; that
the lookups return the same values is what has to be shown. The one keeps a stack of scopes and drops a
rule's when the rule ends; the other keeps every node and goes up by parents. Both are
compared with the text: a static token stands at a place for the last assignment to it that
comes before the place in the innermost body around that has one (`Visible`). The invariant
(`Inv`) says of the typechecker that the places passed are those in front of its own,
that the i-th scope holds the tokens assigned so far in the i-th body around
(`ScopesInv`), that what was resolved at a place is what would be resolved there now
(`ResolvedInv`), and that the classes are those of the nearest rule around with selectors
(`ClassesInv`, `ErrorsInv`). Of the compiler it says that there is a chain of nodes from the
root to the current one, one for each body around, and that the i-th holds the same tokens
with the same values (`Chain`); the lookup up the parents is a recursive function, of which
`SearchExists` and `SearchUp` show that it exists and goes up this chain. The first half of
the module is about walks: what is in front of a place after a step behind it, into a body
and out of one. The two lookups agree only on tokens that are `Settled`: the typechecker keeps
a shorthand as one, and a nil, and the compiler neither. TLC checked the invariant before it was
proved. The attempt showed that `ResolvedIsCompiled`, which used to leave out only
assignments whose own token held nothing, was false on larger files than the run had: in
`$!x = .5; Frame { $!x = nil; { $!x = (1, $!x) } }` the inner value is made of a token that
is hidden from one half only. `Settled` says it of all a value is made of, and the run now
has such files.

Two more theorems are about values as `Datatypes` has them. They take `EvaluatedAsHere`,
the equations by which the code's recursive functions call themselves, and
`ArgumentsListed`: the arguments of an annotation or a tween are a list (in the code, a
`Vec`), and a tween's parentheses are a plain tuple. `SequencesSpanned`: a sequence that is
stored spans its items. The timed items have an order by time (`InOrder`), which takes in each
once; they are put into the places of timed ones, so that untimed ones stay where they were;
a time that is shared out lies between the times around it, by induction along the
sequence; and the keypoints added in front and at the end close it. `TweensCompile`: a tween of
which nothing is reported is stored with a part for each argument. The invariant (`TweensInv`)
keeps that every tween passed was found good with the tokens visible at its place, and `Inv`
says that the compiler has the same ones when it comes there. Then, argument by argument, what
the typechecker takes for a number, an easing or a boolean by its form evaluates to one; a tuple
it takes for a number is one that evaluates to its only element. `EasingAssumption` is the one
fact needed of the reflection database: that it has the two easing enums under their own names,
with values that fit the byte `from_u8` is asked of.
The two causes of `values_lost` that concern tweens are excluded in the property itself.
The attempt showed that both properties, which used to be invariants over what had been
stored, were false on files larger than those of the run: they evaluated an item
with the tokens as they are at the end of the file rather than at its place, took
`floor(numseq(...))` for the sequence inside it, and allowed tokens that are not
`Settled`. They are now properties of the step that stores.

**Model-checked only.** `Termination`, `Progress` and `Returns` (liveness is out of the prover's
reach). What is said of the parser (`TypeOK`, `NothingLost`, `SilentComplete`, `ReadAsMeant`)
and `ArgumentsUsed`, which are about what the recursive functions of the parser and of
`Annotations` compute over whole trees: induction over data.

## Not modelled, and the plan

1. *Proofs*: that the parser's reader (`TokenReader`) never goes back, on which `NothingLost`
   rests; that every argument an annotation accepts is used (`ArgumentsUsed`), with
   the functions of `Annotations` taken by their equations, as those of `Datatypes` are.
2. *Pure functions* against reference definitions: path normalisation, the text
   of selectors, multiline strings.
3. *Macros and values together*: an argument of a macro inside of an annotation, which
   `Compiler` treats as a value and `Values` does not have.

Left out for good: the tables of colours and enums, the generated
lexer, the syntax tree's accessors, error texts and source positions (data and
formatting, without behaviour of their own), and the conversions between colour spaces
and the geometry of vectors, which floating point puts beyond TLC.
