# A TLA+ model of lowdown

lowdown is a Markdown translator in C: a library that parses Markdown into a
tree of nodes, may compare two such trees, may put typographic characters into
them, and renders a tree as HTML, LaTeX, roff, OpenDocument, Gemini, a terminal
page or a dump of the tree itself; and a command around it.  It is a sequential
program that keeps nothing between calls but the parser object.  What is hard
in it is not concurrency: it is algorithms that change trees, queues and tables
of pointers in an order that depends on the document, whose assertions abort
the program when an earlier step left something behind, and whose every step
may find no memory.

Modelled are the way of a document through the library, from the file that is
read to the HTML that is returned: the parser, the difference engine, smart
typography, the HTML renderer, templates, the buffers and the functions that
call these in turn; and the Gemini renderer, by itself.  The other renderers and
the command are not.

## Inventory

| Component | Source | State | Operations | What makes it correct |
|---|---|---|---|---|
| Parser | `parse/document.c`, `autolink.c`, `ext_attrs.c` | the tree, the current node, depth, flags for links and footnotes, queues of references, footnotes, metadata | `lowdown_doc_parse`, a function per block and inline, `pushnode_full`, `popnode` | pushes and pops pair up; depth stays bounded; nothing the document says is lost or parsed twice; a parser may be used again; it ends |
| Difference engine: matching | `diff/diff.c` | two maps from identifiers to `struct xnode` (digest, weight, match, optmatch), a priority queue | `assign_sigs`, `pqueue`, `candidate`, `optimality`, `match_up`, `match_down`, two optimisations | the maps agree on who matches whom; no assertion fails; it ends |
| Difference engine: merge | `diff/diff.c` | the merged tree, the next identifier, the call stack | `node_merge`, `node_clonetree`, `node_clone`, `node_lcs` | without deletions it is the new document, without insertions the old one |
| Shortest edit script | `diff/libdiff.c` | `fp`, `path`, `pathcoords`, the script | `onp_compose`, `onp_snake`, `onp_genseq` | the script is a shortest one; it stays in its arrays; it fails cleanly |
| Smart typography | `library/smartypants.c` | the tree, the word boundary on the left of each block | `smarty` | the result is that of one pass over the characters, however they are spread over nodes; new nodes carry what the old one had |
| Templates | `format/template.c` | the operations with their blocks and chains, the execution, `this` | `lowdown_template` | what is written is what the template says; conditions and loops pair up |
| HTML renderer | `format/html/html.c`, `util.c`, `entity.c` | queues of footnotes, metadata and header identifiers, flags, buffers in progress | `lowdown_html_rndr` | elements nest; notes and references find each other; identifiers are unique; queues are emptied |
| Gemini renderer | `format/gemini/` | the newlines printed last, the queue of links, footnotes, flags, three settings that a table or footnote changes for what is in it | `lowdown_gemini_rndr` | lines do not run together; each link is listed once, after its label; footnotes are numbered as listed; settings are put back |
| Buffers | `buffer.c` | size, capacity, unit | `hbuf_*` | nothing is written past the capacity |
| Library | `library/library.c` | what is allocated, where the files are | `lowdown_buf`, `lowdown_file`, `lowdown_buf_diff`, `lowdown_file_diff`, `lowdown_render` | everything is freed once, whatever fails; every call returns |
| Escaping, entities | `format/*_escape.c`, `entity.c`, `util.c` | none | tables | in part: as templates, HTML and Gemini use them |
| Other renderers | `format/{latex,odt,roff,term,tree}/` | columns, styles, block stacks | `lowdown_*_rndr` | not modelled |
| Command line | `main.c` | files, options | `main` | not modelled: input and output |
| Portability, build | `compats.c`, `tests.c`, `configure` | | | not modelled |

`lowdown_file` reads a file into a buffer and goes on as `lowdown_buf` does:
it makes a parser, parses, may call `smarty()` on the tree, makes a buffer and
a renderer, and renders.  `lowdown_buf_diff` parses twice with one parser
object, new document first, gives both trees to `lowdown_diff()` and goes on
with the merged one and the next identifier it got.  `node_lcs()` in the merge
calls `diff()` in `libdiff.c`.  The HTML renderer calls `lowdown_template()`
for the root of a document, with what it has written and the metadata it has
gathered.  Everything is a direct call; there are no callbacks but the
comparison of two words.

Hard behaviours, listed one by one under "hazards" in `PROJECT.json`:

- *Long sequences of legal steps.*  `match_down()` takes old nodes from matches
  made earlier; the bottom-up optimisation overwrites matches.  A paragraph
  that was finished becomes the title of a definition list.  An else closes one
  block of a template and opens another, chained to it.
- *Order.*  The merge walks two lists of children at once whose matches cross,
  nest and go to other parents.  Footnotes are numbered where they are referred
  to, parsed right there, and written at the end.  The Gemini renderer lists
  links at the next blank line, and renders the cells of a table twice.
- *Stale state.*  `xold` and `xnew` in `node_merge()` outlive the loops that
  set them; `maxn` is computed from trees other than the one it is for;
  `in_footnote` outlives a parse; autolinks take back text that is in the tree
  already; `smarty()` changes the tree it walks; `last_blank` of the Gemini
  renderer is to know what is on the line wherever it is written.
- *Edges of arrays and numbers.*  `libdiff.c` indexes its arrays by diagonals
  that may be negative; the depth is counted before it is compared; sizes of
  buffers are added and rounded up in `size_t`; a cell must not be wider
  than it was measured.
- *Partial failure.*  Memory may run out anywhere, a file may end in an error.
- *Termination*, of every loop that goes on by what another function returned.

## Modules

| Module | What it models |
|---|---|
| `ParseTree` | the tree of the parser and the only ways in which it changes: the abstract specification |
| `ParseText`, `ParseLines`, `ParseDefs` | how the parser looks at a span, at lines, and at what is taken out of a document before its blocks: pure functions |
| `Parse` | `lowdown_doc_parse()`, shown to implement `ParseTree` |
| `DiffTree` | trees and the pure functions on them: opacity, digests, weights, label equality, siblings, cloning order, words |
| `DiffMatch` | `lowdown_diff()` up to the merge, as a state machine |
| `DiffMerge` | extends it with `node_merge()` to the end of `lowdown_diff()` |
| `EditScripts`, `ShortestScript` | all the shortest scripts between two sequences, by definition; the abstract specification of `diff()` |
| `Onp` | `diff()` as it is written, shown to implement `ShortestScript` |
| `Smarty` | `smarty()` as a walk that changes its tree |
| `Typography` | what `smarty()` promises: one pass over the characters, without a tree |
| `Escape`, `TemplateExpr` | the escapes; the expressions of templates: pure functions |
| `Template` | `lowdown_template()`: reading into operations, execution |
| `Meaning` | what a template means, by recursive descent over its statements |
| `Metadata` | what renderers take from an entry of the metadata: pure functions |
| `Html` | `lowdown_html_rndr()`, with `hbuf_id()` of `buffer.c` |
| `Buffer` | `struct lowdown_buf` and the operations on it |
| `Library` | the entry points: composes `Smarty`, `Html`, `Template` and `Buffer` |
| `Rendering` | the properties of `Library` |
| `Gemini` | `lowdown_gemini_rndr()` as a state machine of its own |
| `GeminiOutput` | the properties of `Gemini` |
| `*Proofs` | theorems about `DiffMatch`, `DiffMerge` (`DiffMergeProofs`, `MergedTreeProofs`), `Onp`, `ParseTree`, `Parse`, `Template`, `Buffer`, `Library` and `Gemini` |
| `DiffDocs`, `Trees` | documents to compare; trees to render, written as lists of nodes |
| `MCDiff`, `MCOnp`, `MCParse`, `MCRender`, `MCGemini` | the instances TLC checks |

The parser and the difference engine are state machines of their own; between
them is what the proofs of the difference engine assume and the proofs of the
parser conclude: that a tree is one (`IsTree`, `TreeWhole`).  `Library` takes
the tree that they give from its session, and so does `Gemini`.

### ParseTree and Parse

`ParseTree` has the variables of the tree: `kids`, `par`, `lab`, `nodes` (the
next identifier), `current`, `depth`, `held` (the variable `n` of the functions
in progress, outermost first) and `phase`.  Its actions are `pushnode_full()`
of a node that is filled (`Push`) or not (`Leaf_node`), text that joins text and
other changes that leave the tree as it is (`Change`), `popnode()` with its
assertions (`Popnode`), the removal of the last text (`Cut_last`), a paragraph
made a title (`Enlist`), a metadata entry put or replaced (`Meta`), a failure
and an assertion.  Which of them happens is open: this is all that the tree's
invariants need.

`Parse` says which.  The call stack of the parser is `work`: for each node
held, what is still to be done before it is popped, as a sequence of records
whose field `do` is the function that does it.  A step is one turn of the loop
of `parse_block()` or `parse_inline()`, one item, row or cell, or one character
that is active.  What begins at a line (`Block`), at an active character
(`Spans`) or at a bracket (`Link_here`) is computed by the pure functions of
`ParseText`, `ParseLines` and `ParseDefs`, which follow the code's own order of
trial, its limits and its returns.

| Variable | Code |
|---|---|
| `refq`, `footq`, `used`, `foots` | the queues of references and footnotes, `foot_ref.ref`, `doc->foots` |
| `metaq` | the metadata, as given back in `mq` |
| `in_link_body`, `in_footnote` | the flags of `struct lowdown_doc` |
| `turn`, `failure` | which document of the session is parsed; why the last parse failed |
| `beat` | flips with every step, see Fairness |

A symbol stands for a character, or for a word where no function looks inside
it.  A document is a sequence of lines.  A failed allocation is
`Out_of_memory`, possible in every state of a session that is `frail`.

### Smarty, Html, Template, Buffer and Library

`Smarty` walks: `walk` is the calls of `smarty_block()` and `smarty_span()` in
progress, `left_wb` the boundary on the left in each block around.  A step is
one child: a text is split at the first symbol that applies, and the walk goes
on after the entity, in the tree it has just changed.

`Html` walks, too: `rndrs` is the calls of `rndr()` with the buffer `tmp` of
each.  A step is one child begun or one node ended (`Rndr_plain` and the
actions for nodes with state: headers that need an identifier, footnotes,
metadata, the root).  What is written is a sequence of tokens.  That a step
fails is left to its caller, `Library`: `Rndr_no_tmp` and `Rndr_fails` are what
`rndr()` does then, which is to return success.

`Template` reads one statement a step into `ops`, each with its parent and its
chain, `cop` being the operation whose block is read; then it executes one
operation a step, with `frames` for `op_exec()`.  `TemplateExpr` evaluates an
expression; `wild` is whether a variable that `op_eval()` leaves unset happens
not to be NULL.

`Buffer` keeps sizes, not contents.  `wrote` is how far the last operation
wrote, the NUL of `vsnprintf()` included, so that `InBounds` can say that it is
within `maxsize`.  Arithmetic is modulo `Word`.

`Library` has `pc`, the step of the function that is next, `live`, the objects
that are allocated, `files` and `read`, and `fault`: memory may run out once, in
any allocation of any part.  Labels of the code that free things (`err`, `out`)
are actions.

### Gemini

`calls` is the calls of `rndr()` in progress, the innermost first, and with each
what `rndr_table()` keeps on its own stack, or the buffer of a footnote.  `st` is
`struct gemini`, and `ob` what is written, as tokens that know the node they are
of.  What a call writes goes to the innermost buffer there is: of the cell of a
table, of a footnote, or of the document (`View`, `Stack_with`, `Ob_with`).

| Action | Code |
|---|---|
| `Lowdown_gemini_rndr`, `Gemini_template`, `Lowdown_gemini_ends` | `lowdown_gemini_rndr()` up to the first call, after the last, and from `out` |
| `Gemini_child` | a call for a child, down to its own children (`Gemini_calls`): the space before and what begins the line, and for a footnote or a table what is set for its contents |
| `Gemini_plain`, `Gemini_link`, `Gemini_footnote`, `Gemini_meta`, `Gemini_root` | the rest of a call, from its last child to the flush of links (`Gemini_returns`) |
| `Gemini_cell`, `Gemini_measure`, `Gemini_print`, `Gemini_table` | `rndr_table()`: a cell begun in either pass, measured, printed, and the end |
| `Gemini_fails` | memory runs out: all calls return at once, and only tables put something back |

`fault` is whether memory may still run out.  The width of a cell is its number
of symbols, and a footnote's number has its digits.

### DiffTree

A tree is a record of functions over node identifiers: `kids`, `par`, `lab`.
A label is the type of the node, the attributes that `diff.c` hashes in the
order it does (`fields`), and any other (`rest`).

- A digest (`SigOf`) is the type, the digests of the children and the hashed
  attributes, *concatenated* as the code does.  MD5 is taken to be injective;
  the concatenation is not, so a link with its target and title split
  elsewhere has the same digest.
- A weight is 1 + log(size) for a text and 1 + the sum of the children's for
  another node, in thousandths; `Ln` is a constant.  `Height` is the ceiling of
  log(nodes) * weight / maxweight.
- `Mapped` is the set of nodes that get an entry in the map: not those below an
  opaque node (a table or metadata), though their weight and digest count.  It
  is defined as the least closed set, without recursion, so that it can be
  reasoned about in proofs.
- A text is a sequence of words and spaces, and `Tokens` gives each word with
  the two flags `headsp` and `tailsp`.

### DiffMatch

| Variable | Code |
|---|---|
| `om[o]`, `nm[n]` | `match` of the entries of `xoldmap` and `xnewmap`, `None` for NULL |
| `optm[n]` | `optmatch` |
| `queue` | the `pnodeq`, head first |
| `work` | children still to be enqueued, or calls a recursive function has still to make |
| `climb` | `xnew`, `xold`, `i` and `d` of `match_up()` |
| `phase` | where `lowdown_diff()` is; `"abort"` is a failed assertion or a lookup outside the map |

| Action | Code |
|---|---|
| `Dequeue` | a turn of the loop at diff.c:1425: all candidates, the best of them (`Best`), or the children to be enqueued |
| `Enqueue`, `EnqueueDone` | `pqueue()` of one child |
| `MatchDown`, `MatchDownDone` | one call of `match_down()`, with its assertions |
| `MatchUp`, `MatchUpDone` | one level of `match_up()`, within its bound or past only children |
| `MatchRoots`, `MatchHeaders` | diff.c:1492-1518 |
| `TopDown`, `BottomUp` (and `...Done`) | one child, or one node, of the optimisations |

`candidate()` is folded over the old nodes in the code and a choice of the best
here: higher optimality, then the smaller distance of identifiers, then the
smaller identifier, which is what seeing them in order amounts to.

### DiffMerge

`out` is the merged tree as a sequence: the identifier of a node is its index
less one, as `parms.id` counts up.  `frames` is the call stack of
`node_merge()`, `loop` which of its loops the innermost call is in: `delold`,
`insnew`, `text`, `delrest`, `insrest`, `pair`, `tail` in the order of the
source.  `MergeTexts` is all of `node_lcs()`; it takes *any* shortest script,
which is more than `diff()` returns and is what `Onp` shows of it.

### Onp

The variables are the C variables.  A step is one `onp_snake()`, one point of
the walk back, or one operation written by `onp_genseq()`.  Each of the
allocations named in `Fallible` may fail each time.  Indices are those of the C
arrays, so an index outside `DOMAIN fp` is an access out of bounds.


## Runs

| Run | Asks |
|---|---|
| `diff` | all of `lowdown_diff()` on 4573 pairs of documents (422,000 states) |
| `diff_live` | whether it returns, on 49 pairs that between them take every branch |
| `onp` | `diff()` on 1,081 pairs of sequences, with every allocation failing at every point |
| `parse` | `lowdown_doc_parse()` on 849 documents, three bounds on depth, memory that runs out, several documents for one parser (52,000 states) |
| `render` | the library from its entry points to the HTML: typography, templates, every element, changes, files, memory that runs out (127,000 states) |
| `gemini` | the Gemini renderer on 750 sessions: pairs of blocks, options, many links, a renderer used again (40,000 states) |
| `gemini_table`, `clone`, `onp_failure`, `parse_fence`, `parse_reuse`, `smarty_diff` | six places where the code does not do what a comment, an assertion or the manual says (see Findings) |

Every property of a passing run is known to be falsified by at least one
plausible error in the code, under the bounds of that run: the mutants in
`PROJECT.json` give them.

**diff.**  `OldMatchSound`: an old node's match points back at it.
`NewMatchSound`: so does a new node's, until the bottom-up optimisation, which
may give an old node to a second new one.  `NoAbort`: no assertion fails, and
no lookup is outside the map.  `QueueUntouched`: what waits in the queue waits
once, and no propagation reaches into it.  `SubTreesWhole`: a match by digest
is kept or lost as a whole sub-tree.  `MatchesAgree`: matched nodes have one
type.  `OptimiseOnlyAdds`: the optimisations undo nothing.  `NewSideWhole` and
`OldSideWhole`: the merged tree without what is deleted is, node for node and
word for word, the new document, and without what is inserted the old one.
`KeptLeavesSame`: what is shown as unchanged, and not looked into, is
unchanged.  `EqualUnchanged`: equal documents have no changes.  `MTypeOK`:
types, and that every merged node comes after its parent.

**diff_live.**  `Terminates`: every call of `lowdown_diff()` returns or fails
an assertion.

**onp.**  `Inside`: no access is out of bounds, in the search or in the
writing; the points lie within the sequences; there is a path, along which what
is written as common is the same, and which ends where the sequences do.
`Implements`: the refinement of `ShortestScript`, whose script is a shortest one
and comes with its distance.  `Returns`: it ends.

**parse.**
- `StackIsPath`: what is pushed and not popped is a path from the root to the
  current node, so that `popnode()` finds what was pushed, also where a
  paragraph is made a title or texts are taken back.
- `TreeWhole`: every node but the root is once among the children of its
  parent, and of nobody else.
- `NoAbort`: no assertion of the parser fails.
- `Grammar`: what the renderers rely on: items are in lists and numbered one
  after the other, definitions alternate as they should, all rows of a table
  have as many cells, a block is never below an inline element.
- `TextsMerged`: of two texts next to each other one is escaped and the other
  is not; there are no more nodes than that.
- `LinkBodies`: `in_link_body` is set exactly while the body of a link is
  parsed, through whatever is inside it, and no link has a link inside.
- `FootnotesOnce`: a definition of a footnote is used once at most, footnotes
  are numbered in the order they come up, and none is inside another.
- `MetaAgree`: the metadata given back are those of the tree, a key once.
- `NothingLost`: a word of the document is, at every moment, in the tree or
  still to be parsed, exactly as often as it is in the document.
- `DepthBounded`: the tree is no deeper than the bound and two more, which the
  title of a definition list takes in a footnote of another such title.
- `TSpec`: every step is one that `ParseTree` allows.  This is a refinement
  without a mapping, as the variables of `ParseTree` are variables of `Parse`.
- `Ends`: every parse ends.

**render.**
- `TextsEducated`: quotes, dashes and fractions come out as in a single pass
  over the characters, wherever the borders of nodes are.
- `TemplateMeans`: the operations, their blocks and their chains mean what
  recursive descent over the template says.
- `TagsNested`: elements are closed in the order they are opened, marks of
  changes included, in the document and in every buffer on its way there.
- `NotesResolve`: each footnote has one reference and one place, in order, and
  its content is at that place.
- `AnchorsUnique`: no two headers get the same identifier, also where one looks
  as if it had been made unique already.
- `CleansUp`: whatever fails, all is freed that is not given back, and the
  renderer's queues are empty.
- `InBounds`: no operation of a buffer writes past its capacity.
- `Delivers`: every call returns, or the program has died of a failure that the
  renderer does not report (see Findings).

**gemini.**
- `LinesApart`: a line has the text of one block only, and what begins a line
  is at its beginning, after the marks of the quotes and items it is in.
  Excepted are documents with a link that is a line of its own and has no text
  (see Findings).
- `LinksListed`: each link that is not a line of its own is listed exactly once,
  and after a label the next entry with that label is that of its link, though
  labels begin again after every list and the cells of a table are rendered
  twice.  Excepted are documents with a footnote in a table, whose links are
  listed twice, and what is rendered after memory ran out in a footnote.
- `NotesListed`: each footnote is marked once with a number, which is that of
  its place in the list.
- `Restored`: outside of tables and footnotes the flags, `nolinkqsz` and
  `nolinkflush` are as they were, so that the assertion of `rndr_flush_linkq()`
  holds; and a renderer that is idle has nothing left of the last document.

### Bounds

- *Pairs of documents.*  Ten kinds of blocks (paragraphs of two texts, with
  links around, quotes of one and two paragraphs, headers, tables, lists,
  mathematics) in documents of up to two blocks, all pairs; and all pairs of
  documents of three blocks of three kinds.  Two blocks give every way of
  keeping, changing, moving, repeating and nesting; three of a kind that
  contains another are the smallest documents in which `match_down()` takes
  nodes from a match, and a light sub-tree is queued between heavy ones.  Some
  have metadata; identifiers of some have holes, as the parser leaves them.
- *Sequences.*  All pairs of sequences of up to four of two elements, and of
  up to two of three: both orders of length, differences of length up to four,
  and distances that need up to four rounds of the search.
- *Documents to parse.*  24 that between them have every construct of every
  element and what the code takes special care of; and of 17 sorts of lines all
  pairs, all pairs with an empty line between, and all triples of which the
  first and last are the same, which is every way in which one block ends at,
  goes on in or swallows another.  One is given with metadata from outside; one
  session parses three documents, of which the last is too deep; one may run
  out of memory in any state.  `Maxdepths` is {0, 3, 6}: none, one that cuts
  most nested documents, one that only cuts through footnotes in lists.
- *Trees to render.*  808 trees for typography: ten pieces of text, each next
  to each other in eight arrangements (split texts, spans, items, line breaks,
  code, footnotes, escapes).  2415 templates: every sequence of four of seven
  statements, with text between, and the functions.  Five documents with every
  element under four sets of options; a small one with every node inserted, and
  every other one deleted, in all pairs.
- *Documents for Gemini.*  Twelve kinds of blocks that between them have every
  element (links in text, alone, in items, quotes, tables, footnotes and
  definitions), all pairs under five sets of options that have every option on
  and off; 29 links in a block, three more than letters; two documents for one
  renderer, of three kinds with footnotes and tables, with memory that runs out
  in any step, and with a template.  For 590 of these documents what the model
  writes was compared with what the program writes, and is the same but for
  spaces at the ends of lines.
- *Files and memory.*  Files of 0 to 8 bytes that end or fail, units of
  `Units` = {1, 2, 3}; memory that fails once in any allocation of four
  sessions that use every part.  `Word` = 16 and `Memory` = 6: a size has four
  bits and the largest object is six bytes, so that sums come as close to the
  end of the type as `BufferAssumption` lets them.
- *Not bounded.*  The models have no other bound: queues, recursion, trees and
  scripts grow as the documents make them.

### Fairness

The program is one thread that runs until it returns, so fairness is of the
next step as a whole and of no single action.  `MLiveSpec` and `Onp!Spec` say
so with `WF_vars(Next)`.  `Parse` and `Library` say the same without `ENABLED`,
whose evaluation would compute every step twice: `beat` flips with every step,
so that no step is a stutter, and `Fairness` is that the system takes steps
again and again until it has stopped.

## Findings

1. `node_clone()` does not copy the text of mathematics.
2. `onp_compose()` ignores the result of `onp_genseq()`: with no memory left,
   part of a text is lost from the difference, and success is returned.
3. `is_fencedcode_block()` takes two lines for a block of code whose first
   `parse_fencedcode()` does not take for a fence.  The parser then makes
   paragraphs of no lines until memory or the depth ends it.
4. `in_footnote` is not reset by `lowdown_doc_parse()`: after a parse that
   fails inside a footnote, the parser recognises no footnotes any more.
5. `smarty()` does not mark the nodes that it splits off as inserted or
   deleted, so from its first quote on a changed text looks unchanged.
6. `rndr_table()` asserts that a cell is no wider when it is printed than when
   it was measured.  A footnote in a cell is numbered in both passes, so a
   document aborts it where the ninth number was measured and the tenth printed.

Met on the way and not run:

*Difference engine.*  `pqueue()` puts a node as heavy as one in the queue behind
every node with a smaller identifier that follows, also behind lighter ones,
where the comment at diff.c:336 has weights first.  `maxn` is one more than the
highest identifier of the *inputs*, where lowdown_diff(3) says of the *returned*
tree, so that `smarty()` gives out identifiers that are taken.  `lowdown_diff()` stores into `maxn` without the test for
NULL that lowdown_diff(3) promises; it asserts that it has a result, where the
manual promises NULL if memory is exhausted; `diff.md` says that the display
number of a list item is not hashed, and it is; white space next to a deleted
word is not marked as deleted; the text of mathematics is not part of its
digest, so a change of it is not seen.

*Parser.*  `# a {}` and `[a](b){}` make the whole parse fail, where
lowdown_doc_parse(3) says NULL only if memory is exhausted.  The `!` of
`![^` that is no footnote is put out twice.  `title:` followed by `author: me`
gives the title the value "author: me".  A reference definition eats the
indentation of the line after it.  `<url>` makes a link inside a link.  A
repeated metadata key replaces the first, where the manual says that it is
ignored.  The case of two stars of `parse_emph3()` never succeeds.  A title of
a definition list is one deeper than the bound on depth allows, and one in a
footnote of another title two.

*Templates.*  `trim` shortens the copy by what it finds at the front but copies
from the front, so it cuts the end of what is to stay.  `op_eval()` finds a "."
inside parentheses, so `not(title.trim)` is misread.  `$ --$` writes "$" and
reads the hyphens again.  A function that gives nothing hands NULL to the rest
of its chain, which is then evaluated as if it were at the start.  A bare
`$meta$` reads a variable that is not set.  `escapegemini` may give an empty
item, on which `uppercase` fails an assertion.

*HTML.*  `rndr()` begins with `ret = 1`, so allocations that fail are
reported as success, where lowdown_html_rndr(3) says zero; a footnote or a
metadata key that could not be copied is left as NULL in its queue, and
dereferenced later: the one way in which a call in `render` does not return.
A callout has its 28 bytes cut off also where a mark of a change is among them,
which leaves tags unbalanced.  Identifiers of headers that the document gives
are not kept with the others, and none is compared with those of footnotes.
The title of an image is escaped as text, not as an attribute.  The "target"
attribute of links is parsed and not written.  An empty `htmlheader` is read
at the byte before it.  `hbuf_clone()` copies the capacity of a buffer and
allocates only its size.

*Gemini.*  A link that is a line of its own and has no text (`<http://x>` in a
paragraph, an image without a description) leaves `last_blank` at -1, so no
newline follows and the next block is put on its line, where a reader takes it
for the name of the link; an empty item does the same to the block after it.
Labels begin again after each list of links, but those of footnotes are only
read at the end of the document, where two links may have one label.  Headers
and blocks of code in an item or quote come after its mark, where they are not
at the beginning of a line, as they have to be.  A footnote in a table is listed
twice, with its links.  When memory runs out in a footnote its buffer is lost,
and `nolinkflush` stays set: a renderer that is used again lists no links but
with the option to have them at the end.

## Proofs

Eight modules hold theorems, for all values of the constants.

### DiffMatchProofs, DiffMergeProofs, MergedTreeProofs

For all trees that satisfy `IsTree`, all weights and all pairs of documents:

- `TypeCorrect`: `Spec => []TypeOK`.
- `OldMatchCorrect`: `Spec => []OldMatchSound`.
- `MatchesAgreeCorrect`: `Spec => []MatchesAgree`.
- `NewMatchCorrect`: `Spec => []NewMatchSound`.
- `QueueUntouchedCorrect`: `Spec => []QueueUntouched`.
- `NoAbortCorrect`: `Spec => []NoAbort`.
- `OptimisationsOnlyAdd`: `Spec => OptimiseOnlyAdds`.
- `MergeTypeCorrect`, `MergeMatchCorrect`, `MergeMatchingCorrect` and
  `MergeNoAbortCorrect`: the same of the types and the invariants for `MSpec`,
  with the merge, the specification that the run `diff` checks.
- `OpenCallsMatched`: every call of `node_merge()` that is under way is for two
  mapped nodes that are not opaque, so that each of their children has an entry
  in its map.
- `PairsAgree`: when the merge has found the pair it recurses into, the
  assertion `xnew->match == xold->node` (diff.c:1023) holds.
- `SubTreesCorrect`: `MSpec => []SubTreesWhole`.
- `MergeTypesCorrect`, `NewSideCorrect`, `OldSideCorrect`, `KeptLeavesCorrect`
  and `EqualCorrect`: `MTypeOK`, `NewSideWhole`, `OldSideWhole`,
  `KeptLeavesSame` and `EqualUnchanged` are invariants of `MSpec`.

With these every property of the run `diff` is a theorem.

The assumptions are `PairsAreNames`, `TreesAreTrees` and `LabelsAreLabels`.
`TreesAreTrees`: parent and child links agree, the root alone has no parent and
alone is of its type, no node is twice among the children of a node or below
itself, a document header is the first child of the root, texts have no children,
and there are no more nodes than up to some identifier.  `ParseTreeProofs` and
`ParseProofs` show that the parser gives such trees.  `LabelsAreLabels`: a text is
a sequence of symbols, and what is hashed of a root or a header is its type alone,
which is so of the labels of any document.

*Maps and types.*  `MappedClosed` says that the children of a mapped node that is
not opaque are mapped, `MappedParent` that the parent of a mapped node is mapped
and not opaque, `MappedSibling` that a next sibling is mapped; with them
`TypeOK` is inductive, one lemma for each action.

*Both directions of the matching.*  `OldMatchSound` needs `TypeOK` and nothing
else to be inductive.  Where a new node without a match is given an old one,
whatever that had (`OldSoundPair`: `MatchUp`, `MatchRoots`, `MatchHeaders`,
`TopDown`, `BottomUp`), no other old node can have pointed at the new one, since
the new one would point back.  Where `match_down()` takes an old node from its
match (`OldSoundDown`), the node that is freed had no second admirer, for the
same reason.  The converse needs the old node to have no match, or to be freed.
`OneToOne` is it while the matching goes by digest
(`SignatureMatchOneToOne`); the roots and the headers keep it because of what
they are (`RootsMatchOnly`, `HeaderUnmatched`: a root or header that has a
match has the other one, since types agree), and `TopDown` because it looks for
an old node without match.  `BottomUp` does not, which is where `NewMatchSound`
stops.

*Digests.*  That two nodes of one digest have one type and as many children,
with the same digests one by one (`SameSig`), is a matter of one level only, once
`SigOf` satisfies its equations (`SigUnfold`).  The provers have no induction
over a function's domain; what takes its place is `Grounded` of `IsTree`, that
every set of nodes has one with no child in the set (`Deepest`).  `DigestsAgree`
and `DigestsExist` give with it that there is one function that solves the
equations; `ReachedUnfold` and `BelowUnfold` do the same for the sub-trees of
`Below`.  `PairsAlike` is what is inductive: what `match_down()` is still to pair
has one digest.  `MatchesAgree` follows step by step.

*The queue.*  `QueueUntouched` speaks of what waits; its invariant `QueueApart` of
all that is on the way as well.  The sub-trees that wait are apart from each other
and untouched (`Waiting`); so are those of the children that are still to be
entered (`Entering`); those that `match_down()` has still to enter are apart from
each other and from what waits (`Descending`); and `match_up()` climbs outside of
them (`Climbing`).  `PQueueInserts` says what `pqueue()` does to the places of a
sequence, `NotBelowKid` and `SiblingsApart` that the sub-trees of siblings have
nothing in common.

*Assertions.*  `NoAbort` follows in one step from these and the types: each
action that may abort finds one of its guards contradicted.  In the merge the
first call asserts that the roots match (`RootsMatched`, which the phase `roots`
establishes and nothing takes back), and every further one what `PairsAgree`
says.

*Sub-trees.*  `SubTreesWhole` speaks of the times when nothing is propagated;
`Settled` of all.  Of the sub-tree of a new node that has had a candidate either
all is matched to that of the candidate, place by place, or nothing is matched with
any of it, and each old node there has had a match (`Settles`), so that the
optimisations find nothing to give away; nothing of it waits (`Outside`).
While `match_down()` is on its way (`Propagating`), each node below has its
children matched or still to be paired (`KidsPaired`), the sub-trees of what is
still to be paired are apart from each other, and each old node is matched into
the new sub-tree already or is in one of those that are to come
(`SettledDown`, one step; `SettledDownDone`, when none is left).  That whole
sub-trees are taken away at a time is `OldSideComes`; that two nodes of one digest
have the same walks is `AlikeWalks`.

*What the merged tree shows.*  `NewSideWhole` and `OldSideWhole` speak of the end.
`Merged` says of every state of the merge that what the merged tree shows on a
side, and what the calls of `node_merge()` have still to show, is together what the
tree shows (`AllShown`).  What is still to be shown is for each call what is from
its next child on (`Rest`).  The calls stand for nodes that are there on both sides,
each for the child at which the one around it is (`Carries`), and a call that has
come to the old children that are left has gone through its new ones (`Carried`).
A step does one of five things (`MergesOn`): it drops a child that is on one side
only (`DropsShow`), puts the words of two texts (`TextsStep`), clones an opaque
node (`OpaquesStep`), calls for two children (`KeepsStep`) or returns
(`ReturnsStep`).  Each of them leaves what is shown in total as it was, on the side
it shows and on the other.  For the texts, a script of `Shortest` says with its
common and added words the one text and with its common and deleted words the
other (`Leads`, for scripts of all lengths).  That a sub-tree that is cloned is
walked in reading order, parents first, is `WalksGood`.  Recursion over trees and
sequences (`PreOrder`, `FlattenSeq`, what is here of a merged tree) is again
replaced by a least counterexample (`LeastOf`, `ByAppending`, `Deepest`).

*What is kept.*  `KeptMatched`: a merged node that stands for two nodes stands for
two that match; and `MatchedSame`: two nodes that match and whose inside is not
compared, or that have none, have one digest.  For a match by type alone this is so
because `match_up()` and the optimisations only match nodes with children
(`ParentHasKid`), or roots and headers, of which nothing but the type is hashed.

*Equal documents.*  `EqualInv`: the root is the only node in the queue, its only
candidate the old root, and `match_down()` then pairs all children of what it
matched (`Mirroring`), until every mapped node has its match at the same place
(`Mirrored`) and nothing is left to the optimisations.  In the merge each call is
as far on one side as on the other (`Level`), and the two children there match, so
that it comes to the loops for what is deleted, inserted or moved with nothing to do.

`EqualMatched` (the part of `EqualInv` about the matching) and `Settled` were
invariants of the run `diff` before they were proved.

### OnpProofs

- `InsideCorrect`: `Spec => []Inside`, for all pairs of finite sequences
  (`InputsOK`), and whatever allocation fails.

The invariant has a part for each loop.  `SearchInv`: the array is long enough
because `p` never passes the length `m` of the shorter sequence.  The next `p`
is begun when the middle diagonal is not at the end.  Below it, the further a
diagonal is from it, the less far along `A` it is (`FreshOrdered`), and the
lowest one, `-p`, is at least `p` along `A`, since it gains one with each `p`;
so the middle one is at least `p` and less than `m`.  That the middle one was not
at the end for the previous `p` keeps every diagonal that is read from the
previous round within the sequences (`OldShort`).  `PointsLinked`: each point
that is recorded names an earlier one, from which one step and a run of equal
elements lead to it (`Leads`).  `TraceInv` and `WriteInv`: what is traced back is
a path of such steps that ends at both ends, and what is written follows it.
That a diagonal comes to rest at a first place where the sequences differ is
shown by taking the least of a set of numbers (`LeastOf`).

### ParseTreeProofs

Of `ParseTree`, for all bounds on depth:

- `TypeCorrect`, `PathHeld` (`StackIsPath`), `AlwaysTree` (`TreeWhole`).
- `PopsMatch`: `popnode()` of the node pushed last finds it current.
- `GivesTrees` (in `ParseProofs`, at the end, as it looks at `DiffTree`): a document that is returned satisfies `IsTree` of `DiffTree`,
  which discharges `TreesAreTrees` above.

The invariant is `IInv`: the types, `StackIsPath`, `TreeWhole` and `HeldOnce`,
that no node is held twice.  The last is needed where a paragraph is made a
title (`Enlist`): the paragraph and the list are children of the current node
and the last of its children; were one of them held, it would be held after the
current node, which is the last that is held.  For `GivesTrees` it takes two
more: that the root is the only node of its type and a header the first child of
the root (`HeaderFirst`), and that nodes can be numbered so that parents come before their
children (`Made`), by which no set of nodes is without a deepest one
(`NoneBelowItself`).  Identifiers are no such numbers, since a paragraph that is
made a title is older than its list.

Links and footnotes are not nested if none is made while another is held
(`Apart`).  `Under` says so of the tree without going up it any number of times:
there is a set `S` of nodes, closed downwards, with all that is below one of the
type and none of the type in it, and a node that is held is in `S` only if one of
the type is held before it.  Every step keeps that (`UnderNext`); by
`NoneNested`, a function that goes up from node to parent finds none of the type
above another.

### ParseProofs

Of `Parse`, for every document, set of extensions and bound on depth, and for
several documents given to one parser:

- `Implements`: `Spec => TSpec`.  The parser changes its tree by the steps of
  `ParseTree` only.
- `ParserPath` (`StackIsPath`), `ParserTree` (`TreeWhole`) and `ParserGives`
  (`IsTree`) follow from it with the theorems above.
- `NeverAborts`: `Spec => []NoAbort`.
- `LinkFlagRight`, `FootnoteFlagRight`: `in_link_body` and `in_footnote` are what
  they should be, the first part each of `LinkBodies` and `FootnotesOnce`.
- `LinksApart` (`LinkBodies`) and `NotesOnce` (`FootnotesOnce`): that no link and
  no footnote is inside of another, and that footnotes are numbered from 1 on as
  they come up, one for each definition that is used.
- `TextsOnce` (`TextsMerged`), `MetadataSame` (`MetaAgree`) and `DepthHeld`
  (`DepthBounded`).

None of it depends on what the parser recognises: what `Parse_emph1`, `Listitem`,
`Char_link` and the other functions that look at text return is arbitrary in the
proofs, and so are the lines that are left.  What they depend on is the order of
what is left to do.  The invariant `PInv` describes `work`: at the beginning it
is that of the header (`Heading`), then of its metadata (`Adding`), where the
current node is the header and has no other children than metadata; from then
on (`Working`) it is `Ordered`:

- there is a list of things to do for each node that is held;
- what ends the body of a link or a footnote comes last in the list of its node,
  and in no other list; there is one such list at most for each, and
  `in_link_body` says whether there is one for a link;
- only the first thing of all may be a `parse_inline()` on its way, and if it has
  text behind it (`offset`, which a line break looks at), then the last child of
  the current node is text, from which `assert(n != NULL && ...)` follows.

The lemmas for the actions of the two passes and for `popnode()` are in
`ParseTreeProofs`, so that neither module takes the provers too long.

Each action either takes the first thing and puts others in its place, which are
not ends (`Follows`, `Plainly`), or pushes a node for which there is a new list
(`OrderedAppended`), or returns from one that is empty (`OrderedFronted`); a
paragraph that is made a title is the one case where a node that exists is held
again (`HoldGood`).  `Good` is what is shown of an action: it is a step of
`ParseTree`, no assertion fails, and the work is ordered again.  There is a lemma
for each way in which the parser goes on (`LeafGood`, `OpenGood`, `SayGood`,
`ChangeGood`, `CutGood`, ...), and then one for each of its functions.

For the nesting, `Ordered` also says that the body of a link or of a footnote that
is held has something left to do, the innermost node excepted (`Begun`): so while
one is held its end is in its list, and the flag is set.  `Good` contains
`Bodywise`: a step leaves links, footnotes and the definitions used as they are,
or makes one of them where none of its type is held, a footnote with the next
number and a definition not used so far, or begins a new tree with none, or
fails.  With it, `Nesting` is an invariant: `Unnested` of both types, and
`Numbering`, that the numbers of the footnotes are `1..foots`, in the order of
their nodes, as many as `used` has members.

Three further properties take more of the tree and of what is left to do than
`PInv` says; `MInv` has it.  `Fitting`: each thing left is one for the type of
node it is left for (`Fits`), and what is to be done to a header or a quote that
was parsed is done to one (`Refers`).  `Placed`: blocks are in containers only,
and lists, definition lists and tables have nothing but their parts (`Below`).
What a step does to the tree is one of five things (`Fine`): it leaves it alone
but for labels (`Alters`), puts a node (`Puts_leaf`), puts one and holds it
(`Puts_held`), cuts the text that ends a header (`Cuts`) or makes a paragraph a
title (`Lists`).  For each function of the parser there is a lemma that says
which, and that what follows fits (`ParsesFine`); then one for each of the five
(`AltersKeeps`, `PutsKeeps`, `CutsKeeps`, `ListsKeeps`) says what that keeps,
whatever function it was.

- *Texts.*  A text is only put where the last child is no text of the same
  flags, and whatever is taken back or moved leaves the children before it as
  they were; the paragraph that becomes a title is the last but one, or the last,
  of its parent, and neither it nor a list is text.
- *Metadata.*  The header has no other children than metadata (`Headed`), and is
  left alone once its entries are done (`Undisturbed`).  While they are put, a
  key is removed from the list and from the tree at the same place
  (`RemovedIs`, `Replaces`), and added at the end of both.
- *Depth.*  `Levels` gives a node the depth it had when it was made: one more
  than its parent, but for a title, which came where its list is.  That is at most
  `maxdepth` and one.  A node has more ancestors than that only by the titles
  above it; a title is in no title but through a footnote, as no other container
  is in a paragraph (`Unmoved`, by `Placed`), and there is no footnote in a
  footnote (`Under`).  So it is two at the most (`MoreAbove`, for a least
  counterexample).

### LibraryProofs

- `NeverPastEnd`: no operation of a buffer writes past what is allocated,
  however it is called, with sums and roundings modulo `Word`, if
  `BufferAssumption` holds: a unit is at most the largest object, and twice that
  object and a unit are less than the type holds.  Without it the rounding does
  wrap round, which no caller's unit comes near.
- `NothingLeft`: a call of the library that returns has freed all but what it
  gives, and gives something only with success.  The invariant `LInv` says at
  each step what may be allocated (`Owned`), what has been given up already
  (`Given_up`), and where the queues are empty (`Emptied`).
- `CallsInBounds`: the same as `NeverPastEnd` for the buffers the library fills,
  with `BInv` and what is left of the file that is read (`File_left`).
- `TreeOfOps`: for every template, the operations that are read are a tree
  whose parents come before their children; an else is chained to one earlier
  ifdef with the same parent, which has no other.
- `ElseOnce`: the assertion of `op_queue_else()` never fails.

The invariant `CInv` is `InTree`, what has been read is such a tree, and
`Open_at`, the operation whose block is read is one of it and no else has closed
it.  Operations are numbered as they are read; from an ifdef that has an else
up to that else, none is the parent of anything that comes after the else.  The
ifdef that an else finds is the parent of what comes next, so it has none.

### GeminiProofs

- `RestoredCorrect`: `Spec => []Restored`, for all documents, however tables and
  footnotes are nested, all options, and memory that runs out in any call.

`Restored` speaks of the times when no call but that of the root is in progress,
and says nothing of the others.  The invariant `GInv` does (`Kept`): each table
in progress has the flags that the tables outside of it make (`Flags_kept`), so
that the one to return puts back what the next one set, and the oldest what
`lowdown_gemini_new()` set, which is the one that counts when memory runs out;
`nolinkflush` is set only while a footnote is in progress, or after a failure
(`Flush_kept`); links are only counted while some table is measured
(`Links_kept`).  What a call writes leaves all of this alone (`Follows`, a lemma
for each operator that writes); then one lemma for a call that begins (`Push`),
one for a call that returns (`Pop`), and one for each action.  The assumption is
`SessionsAssumption`: the first node of a tree is a root.

### Only model-checked

- `NothingLost` and `Grammar` of `Parse`.  The first counts words in what the
  functions that look at text return, which is arbitrary in the proofs.  Of the
  second, `Placed` is the part about what is in what; that items are numbered and
  rows are as long as the header is about the numbers in the work that is left.
- Typography, the meaning of templates and all that is said of HTML and of the
  lines, links and notes of Gemini: they compare what is written with a reference
  that is a recursive operator.
- That the script of `Onp` is a shortest one (`Implements`), which is an induction
  over all scripts.
- Everything under fairness.

## Not modelled

- *LaTeX, OpenDocument, roff, terminal, tree.*  They walk the tree as
  the HTML and Gemini renderers do.  The most that they keep beyond these are
  the terminal's column, roff's stack of blocks and OpenDocument's styles; the
  rest is wording.
- *The Gemini renderer as a part of the library.*  `lowdown_render()` is modelled
  with the HTML renderer; what it does around another is the same.
- *The command line*: input and output around one call of the library.
- *`compats.c`, `tests.c`, `configure`*: replacements of library functions.
- *Parts of what is modelled.*  Carriage returns and a byte order mark; the
  tables of entities, HTML elements, schemes and admonitions but for a few
  entries; the difference engine's own allocations, which fail as a whole;
  `hbuf_shortlink()` and `lowdown_roff_esc()` into a buffer that is not empty,
  which only other renderers use; sizes beyond those of `Buffer`; the
  identifiers of the nodes `smarty()` makes, but that they are new.

What would come next: the rest of `Grammar` as a theorem, and the column of the
terminal.
