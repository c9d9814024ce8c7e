# A specification of klcs

klcs reads network payloads, builds a generalized suffix tree of them, extracts
the substrings that at least *k* payloads share ("tokens"), adds position
constraints and single-byte tokens, and prints the payloads with their tokens
encoded (`src/main.c`). This directory holds TLA+ specifications of its data
structures and algorithms, the TLC configurations that check them on small
instances, and proofs that TLAPS checks for all instances.

## Inventory

The program is sequential C, one thread, no persistent state. What is hard in it
is not interleaving but long histories: data structures whose invariants hold
across thousands of pointer updates, positions and flags that one iteration
leaves for the next, caches that a later call reads, allocations that fail half
way, loops whose end depends on an arithmetic edge.

| Component | Source | State | Operations | What makes it correct |
|---|---|---|---|---|
| suffix tree | `lst_stree.c`, `lst_structs.h` | nodes, edges, suffix links, leaf list, phase counters, hash of strings, flags | init, add string, allow duplicates, remove string, clear | every suffix of every string is a leaf; suffix links; the pointers agree in both directions; every addition ends |
| tree algorithms | `lst_algorithms.c` | labels of nodes (sets of string indices) cached in the tree, search lists, `global_max_len` | bfs, dfs, bottom-up search, (k-)longest and first-k common substrings, longest repeated ones, substring check | labels fit the strings in the tree now; the longest or maximal substrings are returned; a word is found exactly if it is in the tree; every call ends |
| strings, string sets | `lst_string.c` | items, linked list of strings | create, free, equality, common prefix, add, remove, iterate | end-of-string markers of two strings never match; a string is in one list only, and freed by one holder only; a callback may change the list |
| pattern search | `pattern_search.c` | failure table, array of matches | `build_lps_array`, `kmp_search` | all occurrences, in order, in linear time |
| hash table | `hash-table.c` | chains, prime index, entries, iterator | insert, remove, lookup, iterate, enlarge | implements a map, through every enlargement; frees what it drops, once |
| set | `set.c` | chains, prime index, entries | insert, remove, query, union, intersection, iterate | implements a set, through every enlargement; a combination that fails half way leaves the values to its operands |
| trie | `trie.c` | nodes with use counts | insert, remove, lookup, walk, free | use counts equal the keys below; a failed insertion leaves no trace |
| position constraints | `position_constraints.c` | flows, tokens in a trie, codes, offsets and the tokens listed for them | find occurrences, mark fixed offsets, list and merge the tokens of an offset | every occurrence is counted once; a code is handed out once; what is merged is what was counted |
| product distribution | `product_distribution_model.c` | frequency of each byte at the first and last offsets | count, extract | a byte is a token exactly where few values occur |
| token conversion | `convertion.c` | the payload as integers | replace the matches of tokens by their codes | every item ends as the code of the right token, a mark for deletion, or its byte |
| common prefixes | `merge_common_prefix.c` | trie of the tokens below one, the prefix merged, result set | merge | what is added stands for the tokens below the prefix; none is lost (the call in `main.c` is commented out) |
| programs, debugging, tests, build files | `main.c`, `lcstext.c`, `utils.c`, `lst_debug.c`, `test_*.c`, ... | | | input, output |

How they interact: `main.c` fills a string set from files, `lst_stree_new` adds
each string to a tree, `lst_alg_first_k_longest_common_substring` labels the tree
(with `set.c`) and searches it round by round, asking a second suffix tree whether
a token is part of one found before. `position_constraints_main` looks for the
tokens in every payload with `kmp_search` and keeps them in a trie, each with a
hash table of its offsets; `product_distribution_main` counts bytes in hash tables
and adds single-byte tokens to that trie; `convertion_main` walks the trie and
replaces the tokens in every payload. All calls are synchronous; what the
components share is the trie, the string objects and their one list link, and two
counters of codes.

`PROJECT.json` lists the hazards: what can go wrong in this code that a test would
hardly reach, each with its line and the properties that would notice.

## Modules

| Module | What it is | Extends |
|---|---|---|
| `SuffixTree` | Ukkonen's construction in `lst_stree.c`, one loop iteration per step; type and shape invariants | |
| `SuffixTreeWords` | what nodes stand for (`Path`), the deep properties, the refinement | `SuffixTree` |
| `SubstringIndex` | abstract: an index of all substrings of the words added | |
| `SuffixTreeProof` | proofs about the shape of the tree of `SuffixTree`, about the bottom-up search of `CommonSubstrings`, and about the words of the tree in the steps that make no node | `CommonSubstrings` |
| `UkkonenProof` | proofs about the steps by which the tree grows, that its words are right, that it implements `SubstringIndex`, and that labels and checked words are right | `SuffixTreeProof` |
| `CommonSubstrings` | the queries of `lst_algorithms.c`, one node visited per step, composed with the construction; how far `lst_stree_remove_string` gets | `SuffixTreeWords` |
| `StringSets` | `lst_string.c` as lists through one link, and the suffix tree as another holder of strings; a string per step | |
| `StringSetsProof` | proofs about `StringSets` | `StringSets` |
| `HashSet` | `set.c`, a call per step, union and intersection a value per step | |
| `HashSetProof` | proofs about `HashSet`, and that it implements `SetAlgebra` | `HashSet` |
| `SetAlgebra` | abstract: sets with union and intersection, and calls that are refused | |
| `Kmp`, `KmpProof` | `pattern_search.c`, one iteration per step, and proofs | |
| `HashTable` | `hash-table.c`, a call per step, the enlarging loop an entry per step | |
| `HashTableProof` | proofs about `HashTable`, and that it implements `FiniteMap` | `HashTable` |
| `Trie` | `trie.c`, one node per step | |
| `TrieProof` | proofs about `Trie`, and that it implements `FiniteMap` | `Trie` |
| `FiniteMap` | abstract: what both promise | |
| `CStrings` | `strcmp`, prefixes, and what `kmp_search` returns | |
| `PositionConstraints` | `position_constraints_main`, an iteration per step | `CStrings` |
| `ProductDistribution` | `product_distribution_main` | `PositionConstraints` |
| `Conversion` | `convertion_main`, and the way through `main.c` from tokens to codes | `ProductDistribution` |
| `EncodingProof` | proofs about the three modules of the encoding: `PositionConstraints`, `ProductDistribution`, `Conversion` | `Conversion` |
| `MergeCommonPrefix` | `merge_common_prefix_main`, a node of a trie per step | `CStrings` |
| `MC...` | small instances | |

### How state and actions correspond to the code

*Suffix tree.* A node or an edge is an index into a sequence of those allocated
(nothing is freed while strings are added), `NULL` is 0, the root is node 1. The
list of kids is the set of edges that leave a node: the code looks it up by first
item, so its order shows only in `lst_alg_dfs`, where `Pushed` rebuilds it.
`edge->end_index` points to a phase counter or to the edge itself: `phase` says
which. `pc` is where `lst_stree_add_string` stands: `match` is the descent of a
later string along what the tree has of it (`stree_follow_string_slow`), `phase`
the head of the phase loop, `extend` the choice of where to continue, `follow`
the skip/count descent, `insert` the three rules. `end` is `LST_PathEnd`, `skip`
the `LST_StringIndex` of the skip string, with its `extra_index`. A string index
that C counts from 0 is the same number here, and the end-of-string marker of
object `s` is the item `-s`, equal to no other.

*Tree algorithms.* `Call` is a call of one of the four public searches; `apc` is
where it stands. The walk over the leafs and the queue of `lst_alg_bus`, the stack
of `lst_alg_dfs`, and the list of candidates with `num_deepest` are variables; the
sets of indices are mathematical sets, which `HashSet` shows `set.c` to implement.
`lst_alg_substring_check` on the tree is `WalkStep`, one recursion per step; the
byte that lies behind the word in memory is chosen from `Behind`. `first_k` asks a
second tree, that of its earlier results, whether a word is inside one of them.
That tree is the index that `SuffixTree` implements, and `Answers` is what the check
can answer there, given the byte behind the word: a word that is there is missed
unless that byte is 0 (or the check crashes, `RoundCrashes`), and the byte behind a
result is read as if it were its last item. What is kept is the `Copy` up to the first
byte 0. Whether 0 lies behind the strings that `first_k` makes is part of the call,
`zero_behind`; the words that end at a leaf have a 0 there in any case, since room for
the marker was allocated (`BytesAfter`). `lst_stree_remove_string` crashes where
`lst_alg_set_visitors` writes, and returns otherwise. `TreeStep` interleaves
additions of strings with calls, at the only points where the caller can.

*Strings and string sets.* `le_next` and `le_prev` are the one link of a string,
`LIST_INSERT_HEAD` and `LIST_REMOVE` the macros with all the pointers they write;
`members`, `seen` and `todo` are histories; `Strings(l)` are the strings a walk along
`le_next` comes to, as the least set closed under the link. What a callback of
`lst_stringset_foreach` does happens between `Callback` and `NextString`, which
reads the link. The tree is the set of strings in its hash. `touched` records
that freed memory was read or written.

*Hash table, set and trie.* Keys and values are objects the caller allocated; what goes
to the free functions is recorded, so that a leak or a double free is visible. In
the trie a node is named by the string that leads to it. Any allocation may fail.
`Relinked` is a chain of the larger table of `set_enlarge`: the loop moves entry
after entry to the heads of the new chains, so each has its values in the reverse of
the order `Precedes` of the old table. `Relinked` places a value by the number of
those behind it, and `Strings` speaks of closed sets, because the prover cannot
expand `SelectSeq` or a walk by recursion.

*Position constraints to conversion.* The trie and the hash tables are replaced by
the maps they were shown to implement, walked in the order of `strcmp` or in any
order. The one link that a token has, which several lists use, is `set_next`; a token
that is listed twice keeps the link of the object that the trie keeps. The trie,
`strcmp` and `kmp_search` look for a byte 0 behind payloads, tokens and merged
tokens, which `lst_string_new` does not put there: that it lies there is a premise of
these modules. Only where bytes are counted is the byte behind a payload chosen, from
`Past`.

*Common prefixes.* The trie is the map `data` from the tokens in it to the text of
their nodes; `todo` are the nodes that `trie_dfs` has still to come to. What a read
behind the end of a token finds is chosen from `Behind`.

## What the runs check

Passing runs:

| Run | Instance | Shows |
|---|---|---|
| `tree` | two strings: all words of up to 3 items over two, and words `uxu` of 7 | after every iteration the tree is well formed (`TreeShape`), every suffix is a leaf and every inner node branches, every suffix link is right, every extension starts from the place that spells its prefix, Rule 3 loses nothing, every call returns, a string is turned away only if the tree had it, and the tree implements `SubstringIndex` |
| `common` | three strings of three words that share parts of several lengths, two calls, strings added before and between them; two words looked for, with a NUL or another byte behind them, and `first_k` with a NUL or any byte behind what it makes | labels are never stale, the bottom-up walk comes to a node after its kids, longest common, k-common and repeated substrings are right where no `max_len` cuts them off, the tokens of `first_k` are right where a NUL lies behind them, a word with a NUL behind it is found exactly if it is in the tree, calls return |
| `kmp` | every pattern of 6 and target of 8 over two letters, any garbage in the table | all occurrences, nothing else, linear scan, termination |
| `hash_table` | four pairs, two with one key, two keys that collide; sizes 2, 4, 7 and then ten times the entries | a map, through every enlargement and failed allocation; ownership of keys and values; iteration with removal |
| `trie` | five keys: empty, prefixes, one with a NUL; two values; failing allocations | a map; no leak and no dangling pointer after a rollback; use counts; the order of the walk |
| `set` | two operands and the result that stays or replaces the first operand; four values, two equal, two that collide; sizes 2 and then ten times the entries; failing allocations | the abstract sets; values freed by the set that owns them, never by a failed combination; `NULL` for want of memory only |
| `strings` | three strings, two sets, a tree; callers leave to the tree the strings they passed to it | lists and back links through all sequences of calls, also from within a callback; nothing freed is used |
| `encoding` | two payloads of four, three tokens of four, one of them listed again or not, `k_offset` 0 and K | everything from tokens to converted payloads: offsets, lists, merged codes, single bytes, final integers, termination |
| `merge` | every set of ten tokens, with prefixes that one, two, three and five bytes follow | what is added for a token stands for the tokens below the merged prefix with any byte behind it, and below a token that can be merged none is left out |

Runs in which TLC finds a counterexample, one for each finding in `PROJECT.json`:
`first_k_forever` (no common substring, or `min_len` 1: the call does not return),
`merged_variants` (other tokens are merged than were counted, because `main.c` sets
`k_offset` from `K` before `K` is set, and a token has one link for several lists),
`set_cleaned_up` (a caller that cleans up the set it passed to `lst_stree_new`, as
`lst_string.h` says to, frees every string twice).

Disagreements that the models follow and no run is devoted to:

- `lst_stree_add_string` refuses a proper substring of a string in the tree,
  not only a duplicate, once duplicates are not allowed (`lst_stree.c:912`).
- With k = 1, `first_k` can return the same token twice, and `main.c` does ask so for six
  payloads or fewer (line 103). The occurrences are then counted once for each
  listing, so that the count of an offset is no number of payloads: `OccurrencesRight` has
  `Tally`, and the merging compares `k_offset` with that.
- The second match of a token in a payload is marked for deletion altogether.
- `lst_stree_remove_string` "removes it from the tree" (`lst_stree.h:105`), but
  calls `lst_alg_set_visitors` first, which copies into `tree->bitstrings`, never
  allocated: the call crashes unless the labels are cached and the string is not
  in the tree.
- `lst_alg_substring_check` takes the byte behind the word for its end, and no
  string has a terminator: with another byte than 0 there it misses words that are
  in the tree, or reads on through `NULL`. `CheckRight` and `FirstKRight` have this
  byte as a premise. `first_k` copies each result with `strlen`, so that the bytes
  behind it become part of the token (`lst_algorithms.c:758`).
- `merge_common_prefix_main` goes on rewriting after the nodes below the merged
  prefix, so that a token beside them gets the text of a prefix it does not have;
  `MergeRight` speaks of the tokens below.
- Merged tokens are written to buffers of 50 (`position_constraints.c:510`) or
  `MAX_SUBSTRING_SIZE` bytes whatever their length.
- `max_len` of the searches drops every word that ends within an edge
  (`lst_algorithms.c:592` looks at nodes only), although `lst_algorithms.h:120` says
  it is there to "limit the string length". No property calls that right:
  `LongestRight` says what is returned where `max_len` cuts nothing off, and elsewhere
  only that it is wanted and within the limits.
- `lst_alg_longest_repeated_substring` reads the labels of nodes that nobody
  labelled (`lst_algorithms.c:701`), and crashes unless an earlier search labelled
  them all: action `CollectCrashes`, and the premise of `CallReturns`.
- The length that is compared with `min_len` counts the end marker at leafs.
- An empty set is returned instead of `NULL` when only the root qualifies.
- Tokens that are not merged and single bytes get codes from 258 upwards,
  although `position_constraints.h:79` to 81 announces negative ones.
- A single byte at two offsets keeps only one of them, the later one extracted.
- The kind of a single token is decided by the look of its text
  (`product_distribution_model.c:185`): a byte `^` or `$` anywhere is of the kind that
  `position_constraints.h:63` to 66 describes for the first and the last position.
  `SinglesRight` claims the kind of the position for all other bytes.
- The first payload is read behind its end where it is too short
  (`product_distribution_model.c:111`), and what lies there can become a token.
- Bytes are converted as signed: 255 becomes -1, which also marks deletion.

### Bounds, and why they are enough

All bounds are constants given in the configurations. `MaxStrings` bounds the
strings added: two strings are needed for a string that follows another, three
for "two of three". Two items make every way of branching below a node possible;
words of the form `uxu` make Rule 3 stop several phases early and one later phase
extend through chains of suffix links, with skip/count over more than one edge.
`MaxCalls` = 2 lets a call meet labels of an earlier one with a string added in
between. `Checked` are the words looked for: one that is
a whole string and one that is nowhere; `Behind` is NUL and
a letter. Of the bytes that lie behind a string up to the next 0, one is modelled:
whether there is one decides what the check answers and that a copy is longer.
`Twice` lets the first of the tokens be listed again at the end. `Inserts` says which values a caller inserts into which set:
an equal one into each, a colliding one, and another one into the second and the
result, which is enough for every enlargement to happen in an operand, in a union
and in an insertion into it. Three strings make a list with a first, a middle and
a last one. Patterns of six letters have nested borders, so that the failure
table falls back twice. Four pairs take the hash table through three enlargements and
beyond the list of primes, which is cut to small numbers: the code uses it only
as a list of sizes. The mutants in `PROJECT.json` show that the instances are
large enough to notice a bug in the code each property is about. The sets of
tokens of `merge` hold one prefix that too many bytes follow, one below which
another one can be merged, and one beside it. No other counter is bounded.

### Fairness

The program has one thread and no waiting: a call that has begun runs until it
returns. `WF_vars(Work)` says that a step of the running call is eventually
taken; calls themselves are under no fairness, and nothing is assumed about what
a caller does. Liveness is used for "every call returns" and "the conversion
ends", which fail if a loop makes no progress. "Every call" means those that the code can
serve (`InContract`): `first_k` for words of two items or more, of which there is one,
with NUL behind what it makes; `lrs` where all nodes have labels; a check of a word with
NUL behind it. The others crash, or run for ever as `first_k_forever` shows.
`tree`, `common`, `kmp`,
`encoding` and `first_k_forever` use the fair specification.

## What is proved

TLAPS checks, for all values of the constants and behaviours of any length:

- `SuffixTreeProof`: `TypeCorrect` (`Spec => []TypeOK`: no pointer of the
  construction dangles) and `ShapeCorrect` (`Spec => []TreeShape`: up and down
  pointers are inverse to each other, `num_kids` counts the kids, `leafs` lists
  every leaf once, exactly the edges to leafs end at a phase counter), and
  `LeavesStay` (`Spec => OnceALeaf`: a leaf stays a leaf at its suffix, and a suffix
  link that is set is not set again). The assumptions are those on the constants:
  inputs are sequences of items that are not negative. Over the same tree,
  `VisitsCounted` (`AlgSpec => []BusCountsKids`: the walk of `lst_alg_bus` counts each
  kid of each node once, and is over only when it has counted them all).
- `UkkonenProof`: every safety property of the construction, `SuffixesCorrect`
  (`SuffixesAreLeaves`), `ExtensionsCorrect` (`ExtensionInPlace`), `LinksCorrect`
  (`SuffixLinksRight`) and `ImplicitCorrect` (`ImplicitTree`), and that it implements the
  abstract index, `IndexImplemented` (`Spec => IndexSpec`). Over the same tree,
  `LabelsCorrect` (`AlgSpec => []LabelsRight`) and `CheckCorrect` (`AlgSpec => CheckRight`).
- `KmpProof`: `TypeCorrect` (no index leaves its array), `TableCorrect` (the
  failure table holds longest borders), `SearchSound` and `SearchFindsAll`, together
  `SearchCorrect` (all occurrences are reported, and nothing else), and
  `ScanForward`.

- `HashTableProof`: `ChainsCorrect`, `OwnershipCorrect`, `IteratorCorrect`, and
  `ImplementsMap` (`Spec => MapSpec`).
- `TrieProof`: `NodesCorrect` (`NoLeakNoDangling`), `CountsCorrect` (`UseCounts`),
  `WalkInOrder` (`DfsRight`), and `ImplementsMap` (`Spec => MapSpec`).
- `StringSetsProof`: `ListsCorrect` (`ListsRight`) and, if callers do not clean up
  the sets they passed to a tree, `NothingFreed` (`NothingFreedIsUsed`). Without that
  premise it is false: run `set_cleaned_up`.
- `HashSetProof`: `SetsCorrect`, `ValuesFreedCorrect`, `NullOnlyWithoutMemory`, and
  `ImplementsSets` (`Spec => SetSpec`).
- `EncodingProof`: `CodesCorrect` (`CodesDistinct`), `OccurrencesCorrect`
  (`OccurrencesRight`), `VariantsCorrect` (`VariantsRight`), `MergedCorrect`
  (`MergedRight`), `SinglesCorrect` (`SinglesRight`) and `ConvertedCorrect`
  (`ConvertedRight`, with `TypeOK`): every safety property of the way of the tokens
  through `main.c`.

The assumptions are those that the modules state on their constants: keys that are
equal have equal hashes, table sizes are positive, `NULL` is no object. Keys,
hashes, the list of sizes, characters and the number of objects are arbitrary. In
the encoding payloads and tokens are texts without NUL that are not empty, with a NUL behind them, a payload has at
most 256 bytes (`utils.c` cuts it at `N`), and the first and last bytes that are counted
do not overlap; texts, their number, how often each is listed, the bytes behind a
payload where bytes are counted, `k_offset` and the thresholds are arbitrary.

`TypeOK` is proved in each of these modules: it is the first conjunct of the
inductive invariant. It is no property of a run on its own.

*Suffix tree.* Neither `TypeOK` nor `TreeShape` is inductive alone: following
`node[n].up_edge` stays in range only if the shape is right, and the split keeps
the shape only if the pointers are in range. The inductive invariant is
`IInv == TypeOK /\ TreeShape /\ WellPlaced`; `WellPlaced` says that `end` points
to a node or into an edge and that the root has kids once a phase runs. Each
action has a lemma. Those that leave the tree alone use `SameTree`; Rule 1 changes
ends only; `AddLeafAt` and `SplitEdge` add a node or two, and for them the four
parts of the shape are shown one by one from the facts about the kids of the old
and the new nodes. `LeavesStay` follows from `IInv` and a second invariant,
`LinkPending`: the node whose link the next extension sets has none yet, and no
addition leaves such a node to the next one. Its lemmas end in `Keeps`; a leaf that
`SplitEdge` moves to a new edge keeps its number of kids, so it has none in the new
tree either.

*The words of the tree.* The invariant of Ukkonen's construction is `WordsInv`: `IInv`,
and for some function `d`, the number of items above each node, `Right(d)`. `Path` is a
recursive function, which the invariant does not mention: a node stands for the items of
the string of its edge from `Pos` on, `d` of them, and `Agree` compares such items. The
parts are those of the textbook argument, made exact for this code. `Depths` and
`Windows`: every edge continues the word of its upper end within one of the suffixes
made so far, which ends where its leaf ends. `Forks`: kids start with different items,
and inner nodes have two. `Complete`: the suffixes made, `Made` of each string, have
their leafs; `Made` counts on through skipped phases and the early stop. From these
follows, by induction on the depths, that two nodes with one word are one node and that
words which have an item of an edge in common follow it (`WordsSettled`, `Follows`,
`GoesOn`). `Links`: the suffix link of every inner node but the newest is right.
`ControlRight` says for every `pc` where the addition stands. Before a phase every
suffix of the items so far can be read (`Implicit`), and `end` is at the first one that
was not made; in a phase, `Stopped`, `Reusing` and `Extended` are the three ways in
which the next extension starts, and `Heading` says what the skip string has still to
read below its node. The step that makes this delicate is Rule 3: it leaves the phase
although shorter suffixes were not looked at, and the invariant of the next phase needs
all of them. They can be read because each is the end of the word
that Rule 3 found, which begins an earlier suffix, whose own suffixes can be read
(`RestReadable`). At the end marker, which no other string has, Rule 3
is impossible, so that all suffixes were made. Every action has its lemma (`...Right`);
for those that add nodes, `Grows` says that what could be read is still read.

*The index.* What can be read from the root are the `Readable` words (`VocabularyIsRead`).
`SpansAgree` and its like lead from items to the sequences of which `Path` consists,
and `PathWord` is the induction along the way up from a node. A step of an addition can
only make more readable (`WorkGains`), all of it within the promised substrings
(`ReadIsPromised`), and when the call returns nothing is missing (`EndFinishes`).

*Bottom-up search.* `Counting` says what the walk has done: the leafs before the cursor
are visited, and the inner nodes that were counted and are not in the queue; `bus_visited`
is the number of visited kids, and an inner node that was visited had them all. The
parent of the node at hand therefore still misses a kid, so it is no visited node,
and it is in the queue exactly if it was counted before (`VisitCounts`). That the walk
is complete when the queue is empty (`AllCounted`) needs that the tree has no cycle:
`Grounded`, which the construction preserves, says that every set of nodes that is not
empty has a node none of whose kids is in the set. Take the nodes that still miss a
kid: one of them would only have complete kids, and those were visited.

*Labels.* A string is to be at a node exactly if one of its suffixes goes through it
(`CarriersAre`); at an inner node those are the strings of its kids (`InnerCarries`).
`LabelInv` follows the two passes: `Cleared`, then `Filled`, where a node that still
misses kids has the labels of those that were visited, and `Kept` for as long as
`needs_visitor_update` is not set. That the finished labels are the right ones is an
induction from the leafs upwards, again by `Grounded`. Between calls an addition that
changes the tree sets the flag before it returns (`TreeStepKeeps`).

*Check of a substring.* `Reached` says that the word was compared up to an item below
the upper end of the edge at hand. If the word occurs anywhere, the tree reads it
(`OccurrenceRead`), so that it follows the edge (`NowhereOnEdge`) and goes on below the
node (`ChildRight`); if the comparison comes to the end of the word, the string of the
edge has it (`FoundOnEdge`).

*Pattern search.* `IInv` adds to the properties that, while the table is built,
`len` is a border that all longer ones failed to continue (`BuildInv`), and, while
the target is scanned, that `j` items before `i` match and all occurrences that
start before this match are reported (`SearchInv`). The heart is that borders of
borders are borders and that a match cannot start between two of them.

*Hash table.* `Chained` says chain by chain what `ChainsRight` says of all entries at
once: an operation changes one chain, and the loop of `hash_table_enlarge` moves one
entry between two tables, the old one of which is empty up to `i`. `PairsOwned` adds
to `Ownership` that key and value of an entry came together (otherwise an overwritten
entry could free one of them and keep the other) and that the pair which waits for the
enlarging is stored nowhere. `IterAhead` says that the iterator has returned exactly
the entries before the place where it stands. `ImplementsMap` maps every step to one of
`FiniteMap` or to a stutter; the steps of the enlarging loop move entries and leave
`Stored` as it is.

*Trie.* Between two calls `TreeOfNodes` and `Counts` are the properties. While a
path is released, for a removal or a rollback, the node whose parent is gone is an
`Orphan`, no key is below it, so that its count is 1 and it goes as well; and the nodes
in `Pending` count a key that has no value yet, or no more. `Path` places `cur` on the
path of the key, `FreeList` says that `trie_free` has in its list exactly the nodes
whose parent is gone. `Walk` is the invariant of `trie_dfs`: the stack is the path to
a place, and what was visited is what comes before that place in the order of
`strcmp`. That a key is there exactly if every letter leads to a node is an
induction along the key, by the least place that fails (`LeastNatural`).

*String sets.* `Chains` and `Apart` say that `le_next`, `le_prev` and `lh_first` link
each list as its history says, and no string twice. `Ahead` is what makes the loop
right although it reads the link after the callback: from the last string seen on,
the links are those of the list as it was at the start, since strings are added at
the head, and the string that a callback may remove keeps its own link. `Alive` says
that whoever is freeing, a set or the tree, has only strings that live and that the
other one does not have.

*Set.* `Good` is what `set_query` relies on. That `set_enlarge` keeps it needs that
`Relinked` is a sequence of all the values with the new index, each once: `Precedes` is
a strict total order on the finite set of values, so the number of values behind one is
different for each, and takes all values up to their number (`Ranks`). `Positioned` and
`Returned` place the iterator and the value that the caller may remove behind it;
`Owned` shares the freed and the stored values out among the sets that free them; `HalfMade` says
that the set being made holds the union, or the intersection, of what the iterator
has passed, `Passed`. When the iterator ends, `Passed` is the whole set, which gives
`ImplementsSets`. `NullOnlyWithoutMemory` follows because `HalfMade` excludes that a value
to be copied is already there: `set_insert` refuses it only if an allocation failed.

*Encoding.* One invariant for every stage, each from those of the stages before.
`Codes`: both counters run ahead of all codes handed out, and nothing is merged
before `merge`. `Traversing`: what the trie has counted for a token at an offset and
what is still in the list add up to the number of payloads that have it there, times
the number of its listings, `Tally`; that a flow lists each token as often as it is
`Listed` for each offset (`FlowOf`), and that a sequence put together of others has
an element as often as they have together (`TimesFlatten`), is an induction along the
list. `Listing`: `num_variants` counts the tokens that the walk over the trie is
through with, and the head of the list is the last of them in the order of `strcmp`;
the order is total on texts (`BeforeTotal`, `BeforeTransitive`), so `Rest` says where
the walk is. The link of a token is right for all its lists only if any two tokens
that share an offset share all those of the later one, `Nested`; with `k_offset = K` and
every token listed once that is so, because in every payload the one is a prefix of
the other (`NestedInAll`). `MergedSoFar` says of every token which of its offsets were merged
already; while each token has one frequent offset at most, no later merge touches it.
`CountedRight` and `ExtractedRight` say which bytes were counted before the place
where the loop stands, and which of the single bytes have their token; `Sample` is
what they say of an offset where the first payload ends. `SoFar` is the
loop invariant of `string_replace`, item by item: up to `src_p` an item is what the
tokens up to the one at hand make of it, behind it what those before made of it, or
unset if there were none. It needs that the search is `Between` two matches, that the
next one is the match it comes to (`NextMatch`), and that `replacement_counter` is the
length of the matches before; the token at hand comes behind all that were tried, so
that where it has a match it decides (`ItemCovered`).

### Only model-checked

- Liveness under fairness: the provers have no rules for it (`AddStringReturns`,
  `CallReturns`, `Returns`, `EncodingEnds`).
- The results of the searches, `LongestRight` and `FirstKRight`. The order in which
  `lst_alg_dfs` collects its nodes is written with `SetToSortSeq` and `SelectSeq`, which
  the provers cannot expand.
- `MergeCommonPrefix` (`MergeRight` speaks of texts put together and taken apart
  again).

## Not modelled

- What `lst_stree_remove_string` would do behind the point where it crashes, and the
  bitstring labels that only it uses; nobody calls it.
- Hash and equality functions: they are pure, and constants of the modules.
- The `extension` array of the searches, string classes, and the printing
  functions; the free functions that nothing calls.
- Allocation failure in the suffix tree and the position constraints: no caller
  looks at the results.
- The bytes of buffers, except where a read behind the end decides what happens.
  Files, directories, debugging output.

## Plan

1. `HashSet` in place of the mathematical sets of `CommonSubstrings`, on a smaller
   instance, if the number of states allows.
