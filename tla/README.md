# A TLA+ verification of PCLIB

PCLIB is a C99 library of data structures: every container is a struct the
caller owns and a set of functions on it. The library is sequential and keeps
no global state. What makes it hard to test is not concurrency but

- long sequences of legal calls that lead a container into a state in which one
  of its loops has no end, a pointer is stale, or a count is off by one;
- `malloc`, `calloc` and `realloc` that fail in the middle of an operation;
- boundaries: a full table, an index that wraps, an unsigned sum that overflows,
  a block without room for its terminator;
- functions of the caller (hash functions, comparators, visitors) called from
  inside a loop, which may use the container being walked.

The modules translate the code of `src/src/*.c` function by function; TLC checks
them on small instances; TLAPS proves their invariants, action properties and
refinements for all values of their constants.

## Inventory

| Part | State | Operations | What makes it correct |
|---|---|---|---|
| hash map, `hash_map.c` | `len`, `cap`, a block of (hash, pair pointer) slots, hash function | put, put_if_absent, replace, remove, get, has_key, get_or_default, ensure_capacity, rehash, clear, foreach | a table probed openly behaves as a dictionary; probe loops end; cached hash codes are current; growth loses nothing |
| ring buffer, `ring_buffer.c` | block with `start`, `end`, cursors `lo`, `hi` | offer, poll, peek, size, foreach, clear | a bounded queue through every wrap; foreach meets live elements only, in order, and ends |
| array list, `array_list.c` | `len`, `cap`, block | add, insert, set, remove, reverse, compact, ensure_capacity, foreach | a sequence; nothing outside the block is touched; a failed allocation changes nothing |
| string buffer, `string_buffer.c` | `len`, `cap`, block | append, copy, clear, compact, ensure_capacity | a terminated string inside its block |
| bit array, `bit_array.c` | `c`, words | set, unset, toggle, get, resize, and, or, xor, not, compact | a function on `0 .. c-1`; bits beyond `c` never become visible |
| doubly linked list, `bidi_list.c` | nodes, `first`, `last`, `len` | add and remove at both ends, remove_match, remove_if, reverse, sort, foreach both ways | `prev` is the inverse of `next`; a stable sort; `len` and `last` are exact |
| singly linked list, `forward_list.c` | nodes, `first`, `len` | the same without `prev` | as above |
| tree set, map, multiset, multimap, `tree_*.c` | nodes with `lhs`, `rhs`, a count or values; `len` | put, put_if_absent, remove and its counted forms, get, in-order walks | search order, `len` = what is stored, in-order walks sorted and bounded |
| heap sort, `heap.c` | the caller's array | make_max_heap, heapsort | a sorted permutation |
| optional, closure, named parameters | a pointer, a pair of pointers, a macro | trivial | not modelled |

The parts do not call each other. What they interact with is the caller: through
call and return, through the functions the caller passes in, and through the
allocator.

## Plan

Done, in this order, because their invariants are the least obvious:

1. `HashMap` with `Dictionary`, its abstract specification, and its proofs;
2. `RingBuffer` with `Fifo`, and its proofs;
3. `Trees` with `Assoc`: one module for the four tree containers;
4. `Sequence`, the abstract sequence, and `Lists`, which implements it for both
   linked lists: links under every edit and the merge sorts;
5. `Block`, with `ArrayList` and `StringBuffer`, the other two implementations of
   `Sequence`; `BitArray` against `BitVectors`; `Heap`, the loops of a pure
   algorithm.

6. Proofs about all of them: every safety invariant, every action property, and the
   refinements of `Dictionary`, `Fifo`, `Assoc`, `Sequence` (by the lists and by the
   blocks) and `BitVectors`.

What remains with TLC is liveness, see the end of "Proofs".

## Hash map

`HashMap.tla` models `hash_map.c`. The variables `len`, `cap`, `mem` and
`hasher` are the fields of `hash_map`; `live` holds between `init_hmap` and
`free_hmap`. A slot is a hash code and a pair or `NULL`; a pair is a key and the
rest of it, `key_equal` compares keys.

A function runs in one step, but for the two loops whose ends are in question:

- `find_bucket` is `pc = "find"`, one probe per step (`FindNext`), with its
  `hashcode` and `k` as `code` and `k`; the step that finds the slot also does
  what the caller then does with it (`EndPut`, `EndRemove`, ...);
- `rehash_move` is `pc = "move"`, one probe per step: `MoveNext` when the slot is
  taken, `MovePlace` when it is vacant, `MoveVacant` when it is vacant and the
  source slot has no pair, `MoveDone` for the rest of `hmap_ensure_capacity` or
  `hmap_rehash`. After growth a put goes on to find its bucket.

`rehash_move` runs its probe loop for the vacant slots of the old block too, from a
hash that is whatever the slot holds (`malloc` left it, a removed pair, or an
earlier move) or what the new hash function says of `NULL`. The model does not keep
the hash of a vacant slot: `StaleHash` chooses any hash code when such a slot is
turned to, and its loop runs from there like the others, so `WritersReturn` is about
all of them. What the loop leaves in the vacant slot it ends at is again any hash.

`malloc` fails whenever it likes (`GrowTo`, `hmap_rehash`) and always beyond
`MaxCap` slots. Hash codes and probe sums are taken modulo `SizeMod`. The macros
`HMAP_GROW` and `HMAP_PROBE`, which a build may override, are constants; the
model-checking module gives them their default forms with a smaller quantum.
`hmap_foreach`, `hmap_size` and `hmap_capacity` change nothing and are no
actions. A caller passes functions that are not `NULL` to `hmap_rehash` and does
not change a map from inside a hash function.

`Dictionary.tla` is what the header promises, a partial function from keys to
values with calls that are issued and answered. `DictOf` is the refinement
mapping: the pairs that the block holds.

### Runs

| Run | Instance | Shows |
|---|---|---|
| `hashmap_dictionary` | 3 keys, 2 values, 2 hash functions, capacities 0, 3, 6, words of 16 values, everything but remove | `ImplementsDictionary`, `AllReachable`, `SizeExact`, `SearchReturns` |
| `hashmap_all` | the same with capacities 0, 2, 4 and remove | `TypeOK`, `LenBounds`, `HashesCurrent`, `PutHasRoom`, `NothingLost`, `CallsTakeEffect`, `WritersReturn` |
| `hashmap_lookup_returns` | init, put, remove, get | violated: a lookup of an absent key in a full table does not return |
| `hashmap_remove_leaves` | the same | violated: a removal hides pairs of other keys |
| `hashmap_rehash_null` | init, put, rehash | violated: the new hash function is called with `NULL` |

One hash function lets two keys collide and puts the third in the slot beside
them, so chains form, join and reach round the end of the table; the other has
all hash codes at the end of the range, so `h + k` overflows during a search.
Two growths happen before memory ends: with three keys the table is filled to
the last slot (capacity 3, and capacity 2 or 4 with stale counts), the case in
which probe loops are in danger. Capacities 3 and 6 do not divide the 16 words,
so an overflowing probe sequence jumps. More keys than three add no new relation
between two probe chains; the proofs cover the rest.

### What does not hold

- `find_bucket` (line 81) ends only at a vacant slot or at the key. `hmap_put`
  fills the table completely, and then lookups and removals of an absent key run
  for ever. Puts never do: `PutHasRoom`, `WritersReturn`.
- `hmap_remove` (line 243) vacates a slot in the middle of probe chains and leaves
  `len` as it was. Pairs of other keys become unreachable and may be stored twice
  afterwards; the size is too large, which also makes a put grow a table that has
  room. What is left of the dictionary is `CallsTakeEffect`: the key of a call
  itself is found (or not) as the call said.
- `rehash_move` (line 45) calls the new hash function for vacant slots, with `NULL`.

Without removal the map is the dictionary it promises to be.

## Ring buffer

`RingBuffer.tla` models `ring_buffer.c`. A pointer into the block is the index of
its element: `lo`, `hi`, and `cnt` for `end`. Every call is a step, except
`ringbuf_foreach`, which calls a function of the caller for every element:
`walking` holds while that function runs, `cur` is the loop's `i`, and in that
time the function may offer, poll and observe, before `ForeachNext` takes the loop
to its next test. It does not clear or free the buffer it is walking. `MaxPolls`
bounds how many elements it polls in one call. `given` and `touched` only observe:
what was handed out while the buffer was left alone, and whether the function has
changed the buffer (`"yes"`) or polled twice in one call (`"hasty"`).

`Fifo.tla` is a bounded queue; `Contents` and `cnt - 1` refine it.

The run `ringbuffer` has blocks of one, three and four elements and two values:
the block of one can hold nothing, the others wrap `lo` and `hi` at every relative
position. Elements are only moved, so two values tell an order from its reverse
and a repeated element from a new one. `MaxPolls` is 2, the least with which `lo`
overtakes the cursor: the loop looks at `hi` alone (line 115), and then hands out
elements that are no longer in the buffer, to the end of the block and round until it
meets `hi`. Polling the cursor's element and the next one in one
call is enough. The header says nothing of a function that changes the buffer.
So `HandsOutLive` and `CursorInside` promise live elements only until the
function has polled twice in one call, whatever it offers, and do not hold
beyond that: without their `touched # "hasty"`, TLC violates both in this run's
states. `ForeachEnds` has no such condition: foreach ends, overtaken or not,
unless its function offers successfully for ever and so moves `hi` on. Offers
that stop at some time do not keep it from its end.

`ringbuffer_capacity` is violated too: a buffer initialised with capacity `cnt`
refuses after `cnt - 1` elements, and one of capacity 1 accepts none.

## Trees

`Trees.tla` models `tree_set.c`, `tree_map.c`, `tree_multiset.c` and
`tree_multimap.c`. The four files repeat one tree with four payloads; `kind` says
which it is, and the actions are named after the functions of their file. A
payload is a sequence of values: one `NULL` in a set, `count` times `NULL` in a
multiset, one value in a map, the array of values in a multimap, with `cap` the
number it has room for. `nodes` holds the memory cells allocated, `lhs` and `rhs`
their pointers. A cell is named after the key first stored in it (and 0 or 1,
since `realloc` may move a node): which free cell `malloc` returns is not
observable, so this loses nothing and keeps the state space small.

`find_tree_node` is `pc = "find"`, with the pointer to a pointer that the C code
moves down the tree as `link`; the loop of remove for the minimum is `pc = "min"`
with `parent` and `min`. Everything else is part of the step that ends them:
insertion with a failed or successful `malloc`, the three ways of taking a node
out, and `free_subsequent_nodes`, which frees whatever still hangs from the node
it is given. `init_*` is the initial state, `free_*` is `*_clear`. A walk is one
step that answers with what the visitor saw; a visitor does not change the tree.
The three walks are one function, `inorder`, which is given the keys asked for: like
the C code they visit every node and pass over those that are not. The function
recurs on the number of levels; as many as there are nodes suffice.

`Assoc.tla` is what the headers promise: keys in order, each with its values.

The run `trees` gives a set five keys, the fewest with which the minimum that
replaces a removed node has a child and is not the removed node's own child, and
the other kinds three keys, two values, and at most `MaxLen` = 3 values in all,
so a node of a multimap grows twice (`GrowByTwo`), with and without moving, and
loses its first, a middle, its last and all of its values (`SomeRanges`). It shows
`TypeOK`, `IsTree`, `Ordered`, `LenExact`, `Fits`, `PointersStay`, `CallsReturn`
and `ImplementsAssoc`. Nothing was found wrong in these four files.

## Lists

`Lists.tla` models `bidi_list.c` and `forward_list.c`; `kind` says which, and the
actions are named after the functions of their file. `nodes` holds the cells
allocated, `first` and `last` are the list's fields (`mem` of a forward list is
`first`). A call is a step, except `remove_match` and `remove_if`: they call the
caller's predicate for every element while nodes go and `len` does not, so their
loop is `pc = "remove"`, one iteration per step. C holds a pointer to a link
there; `entry` is the node that link is in, or `NULL` for the field of the list.
`merge_list` and `sort_helper` are recursive functions on the nodes, with the links
that C changes at each level and the number of levels left as their first argument,
of which there are as many as nodes; `slow` is where `split_list` stops. `pc = "crashed"` is the end of the
program where C follows a null pointer.

`Sequence.tla` is what the headers of lists, array list and string buffer promise: a
finite sequence. A removal of whatever matches has its effect when it starts and
is answered later; `Contents` maps a list in the middle of one accordingly.

The run `lists` has lists of up to four nodes, so that both halves of a sort are
sorted again, and merging meets every order of two and two; three elements, two
of which the comparator takes for equal, which tells a stable sort from another;
predicates that are true of two elements and of all three, which leave some, or
nothing, before, between and behind the nodes they take (a removal that takes
none is that of an absent element by `remove_match`). It shows
`TypeOK`, `IsList`, `NodesStay`, `CallsReturn`, `ImplementsSequence`.

`lists_sort_pair` is violated: `list_sort` looks for the new last node from the
third on, and a list of two has none (`bidi_list.c` line 222). Every other length
is sorted well, and `fwdlist_sort` sorts every length.

## Array list and string buffer

`Block.tla` is what `array_list.c` and `string_buffer.c` have in common, which is
most of both: `len`, `cap`, the block `mem`, `realloc` that is refused whenever it
likes, `free`, compaction, and the mapping to `Sequence`. `ArrayList.tla` and
`StringBuffer.tla` add their own functions. A slot is an element or a character,
or `Junk` where nothing was written. `cpy_free` of nothing asks `calloc` for an empty
list or string, frees the block, and answers `NULL` when `calloc` refused. A string is
answered as its reader takes it (`AsRead`): with the byte behind its characters,
unless that is the terminator. Each call names the slots it reads and writes,
and `fault` says when one of them was not in the block; the program goes on then, as
it does when that memory belongs to nobody, having read `Junk`. It does not go on
after a null pointer. The growth macros, which a build may override, are the
constant `GROW`. A comparison with `NULL` is what tells an unused `out` pointer
from a used one: the model's calls always take the answer.

`ImplementsSequence` of this run, in `MCBlocks`, is the refinement of `Sequence` with
its exceptions spelled out. The array list has none. A string buffer may end the
program at a null pointer, and it gives out strings without their end (`Unended`):
every copy, and the block handed over by `cpy_free_strbuf` when it was not
terminated; the answer is then the string and the byte behind it, and the rest of
the call is as promised. Each is needed: without `Unended` the property is violated by
the first copy, and by handing over a string that filled its block.

What does not hold, and is excepted by name in `BlockSafe`, `KeepsTerminator` and
`ImplementsSequence`:

- `arrlist_remove` (line 213) moves two elements more than there are. Without two
  unused slots it reads and writes past the block (`blocks_remove`, violated). What it
  reads there never becomes an element.
- `strbuf_append_*` (lines 137, 150) write the terminator to the byte at `len`, but
  make sure of room for the characters only: a string that fills its block is
  terminated outside, and stays without a terminator when the block grows later
  by `strbuf_ensure_capacity`, until something is appended. `cpy_free_strbuf` hands
  such a block over as "well formed" (the comment at line 65).
- `strbuf_ensure_capacity` on a fresh buffer makes a block with nothing in it, not
  even a terminator; `strbuf_data` then hands out uninitialised memory.
- `strbuf_copy` (line 49) writes past its copy, leaves the copy without a
  terminator, and does not look whether it got memory.
- `strbuf_clear` (line 76), and appending nothing, follow a null pointer when the
  buffer has no block.

## Bit array

`BitArray.tla` models `bit_array.c`, with two arrays for the functions that take
two, on the words of `BitWords.tla`: a word is the set of the positions of its
one bits, so `&`, `|`, `^`, `~` and the mask of `bitarr_not` are set operators. New
memory from `realloc` is all zeroes or all ones. `BitVectors.tla` is what the
header promises: a size and a set of true bits.

Bits past the size may be left in the last word ("stray"): `bitarr_resize` clears
whole words when it shrinks, `bitarr_or` and `bitarr_xor` combine whole words with
a longer array, `init_cpy_bitarr` copies them (and does nothing without an
original). `StrayOrigin` says that nothing else
leaves any, `ImplementsBits` that the array is its true bits except in the steps
`StrayShows`: when it grows again, or is the longer operand, stray bits turn true.
`BlockFits` also says that the words past the last one in use are zero, on which
a later resize within the block relies. `bitarr_compact` of an array without bits
calls `realloc` for no bytes, which may free the block and return `NULL`; that is
taken for a failure, and `b` keeps pointing to freed memory, which the next
resize or free uses (`fault = "freed"`, where the model ends).

## Heap sort

`Heap.tla` models `heap.c`: one comparison, with the swap that may follow, per step,
for both functions. `IsHeap` is the invariant of `heapify`, stated with the
children `2n + 1` and `2n + 2`, not with the code's formula for the parent;
`Sorts` says that the array is always a permutation of the one passed, and that
the tail `heapsort` has placed is sorted and no smaller than the rest.

## The run of the four

`MCBlocks.tla` puts these modules side by side, since each works on one block of
memory: `part` says which of the four a behaviour uses, and the others keep their
initial state. The run `blocks` checks `TypeOK`, `IsHeap` and `Sorts` of `Heap`,
`BlockSafe`, `KeepsTerminator` and `ImplementsSequence` of the list and the buffer,
and `BlockFits`, `StrayOrigin` and `ImplementsBits` of the bit array.

- List and string: two elements, up to four of them, blocks of 3 and 6 slots and
  any size that compaction leaves. A block fills to its last slot at both sizes,
  and grows twice. The growth step has the form of the default macros with 3 for 16.
- Bits: words of two bits, sizes 0 to 3. Sizes 1 and 3 have a partial last word, 2
  has none; an array is cut inside a word, at its end, and by a whole word.
- Heap: three values, arrays of up to five, the fewest with a left and a right
  child two levels down; all arrays, so every pattern of equal elements.

Elements, and the two arrays, are symmetric: no module chooses among them.
`CHECK_DEADLOCK` is off in `lists` and `blocks`, where a null or freed pointer ends
the program; nothing else does, as some call is always possible.

## Fairness

There is one thread. `HashMap` assumes weak fairness of the steps of a running
call (`Find \/ Move`): a call is not abandoned, and nothing forces the caller to
make another; so do `Trees` (`Running`) and `Lists`
(`Removing`). `RingBuffer` assumes weak fairness of
`ForeachNext`: the function given to foreach returns, however many offers it makes
before. `ForeachEnds` does not ask for an end when offers succeed for ever.

## Proofs

All theorems are for arbitrary constants, under the named assumptions of the
modules.

`HashMapProofs` proves `TypeOK`, `LenBounds`, `HashesCurrent`, `PutHasRoom` and
`NothingLost` of every behaviour. The hypothesis `GrowKeepsPromise` is the
contract of `HMAP_GROW` (header line 30, "value >= n"), for the sizes that the model
can ask for; with the default macro it fails near `SIZE_MAX` only. None of the five
is inductive by itself. `PutHasRoom` needs `LenBounds`, and `LenBounds` needs to
know while a move runs that the new block is as large as `Room`, that it holds as
many pairs as were passed (`NothingLost`), and what the running call will do next
(`Room1` in the proof module). `HashesCurrent` needs the same of the block being
filled, for the function it is filled with. The inductive invariant `Safe` is the
conjunction, in two parts: `Shape`, about types and sizes, and `Stored`, about what
is in the slots. Each action gets a step; the cardinality facts are lemmas over
finite sets.

`CallsTakeEffect` needs nothing of the chains, which removes may break: a search
knows that no earlier probe would stop it (`Tried`), so a later lookup of the same
key ends at the same slot, the only one the call wrote.

`HashMapLookupProofs` adds `AllReachable` and `SizeExact` under the hypothesis that
`remove` is not among the functions used. The invariant `Found` says of a search
that all slots probed so far hold other keys, and of a move the same of the
new block and the pair being placed; then the slot found extends a chain or starts
one, and interrupts none. From it follows that no key is stored twice, and that a
search that ends at a vacant slot has a key that is not stored, wherever the slot
is; with these `IsDictionary` shows that each step is one of `Dictionary` or changes
nothing it shows. `Waiting` adds when a call is pending. A move only carries pairs
to other slots (`NothingLost`), so growth and rehash stutter or answer.

`RingBufferProofs` proves `TypeOK`, and that until a call polls twice foreach's
cursor is not overtaken (`CursorInside`) and it hands out live elements only
(`HandsOutLive`), for every size of block and every `MaxPolls`. For a foreach left
alone, which hands out the contents in order, and all of them, `Recorded` says that
what was handed out is the contents up to the cursor. `IsFifo` proves the
refinement of `Fifo`: the contents are read off the block through `Around`, so each
call needs a lemma on what it does to every index, wrapped or not.

`HeapProofs` proves `TypeOK`, `IsHeap` and `Sorts`. `IsHeap` holds up to the element
that heapify is moving; what is added is that `make_max_heap` always has the whole
array in view (`WholeArray`). `Sorts` speaks of a permutation: a swap of two elements
keeps it, by composing bijections, and the maximum moved behind the prefix is at
least what stays in it because the prefix is a heap, by following parents up to
the root, a smallest counterexample having none.

`BlocksProofs` proves `BlockSafe` and `KeepsTerminator` of the run of the four: each
call of `array_list.c` and `string_buffer.c` leaves the part of the block in use
written, and the few that leave the block are the ones the property names. There
is no more to the invariant than `BlockSafe` and a type for `cap`.
The refinement of `Sequence` is proved on top of it. Lemmas say
what every shift, append and copy does to `Contents` as a sequence, and
`HandsOver` and `StringHandsOver` what `cpy_free` answers, a refused `calloc` included.
The exceptions in the property, calls through a null pointer and strings given out
without their end, are the only steps that map to none, and the array list has none
of them.

`BitsProofs` proves `BlockFits` and `StrayOrigin`, and the refinement of
`BitVectors`, for words of any size. An array's bits are `w * WORDBITS + i`; that each
bit has one word and one place in it is proved first. The invariant
(`BitsInv`) says that each array points to nothing, to freed memory, or to a block
with all the words its bits need, and no bits elsewhere. `WordStep` then describes each call by what
it does to the words of its arrays, and the other two properties follow from that
description, not from the calls. Strays, bits in the last word behind the
array's end, are what makes this more than bookkeeping: `and`, `or` and `xor` of
arrays of different lengths make and spread them.

`TreesProofs` proves `TypeOK`, `IsTree`, `Ordered`, `LenExact`, `Fits` and `PointersStay`.
None is inductive alone, since a removal runs over several steps through states in
which one node is unlinked but not freed, or stands twice. The invariant
`TreesInv` says that the nodes are `Sound`: they are a tree (`Tree`), sorted, distinct
in their keys and hold what their kind of container lets them; that `len` is the
sum of what the nodes that count hold; that `link` is a link of this tree; and, by
cases, that nothing runs (`Idle`), that a search has gone right wherever it turned
(`Finding`: the node asked for, if there is one, is below `link`), or that a splice
looks for the smallest node to the right (`Splicing`). `Tree` is put so that it can
be reasoned about without a recursive definition: one pointer leads to each node
but the root, and a set of nodes that has the root and is closed under children
has all. Sums over finite sets, and the descent to smallest elements, are argued
by smallest counterexample, since induction over an arbitrary predicate is not
available. Four lemmas describe what calls do to a sound tree: a leaf hung under a
null link (`Inserted`), a node with one child at most taken out (`Spliced`), the
smallest larger node put in the place of one with two (`Replaced`), and a node whose
contents change, also when realloc moves it (`Rewritten`).

`IsAssociation`, in the same module, proves that the trees implement `Assoc`.
`DictShows` says that the dictionary is the nodes read by their keys, while a
splice is on its way too. Each call is then described twice: by what it does to
the nodes (`Got`, `Gone`, and `Others` for the nodes of the other keys), and by what
that does to the dictionary (`SetDict`, `DropDict`). `RestIs` says that the two pieces
that `tmmap_remove_values` moves together are the values `Assoc` keeps, whose places
it finds by counting. For the walks, `SubtreeVisited` proves that k levels of
`inorder` suffice for a subtree of k nodes, by a smallest counterexample: what the
left subtree hands out, the node, and what the right one hands out are joined, and
are in order because the tree is. The invariant gains `Answering`: what a running
call was asked, and that it has not answered yet.

`ListsProofs` proves `TypeOK`, `IsList`, `NodesStay` and that `Lists` implements
`Sequence`. The invariant (`LInv`) is that some sequence p of all the nodes is the
chain (`Shape`): each node's `next` is the one behind it, its `prev` the one before it,
and `first`, `last` and `len` say what p says. While a removal is running (`Loop`),
`len` is what it was at the start, `entry` is `NULL` or a node of p, and no node up to
there is one to be removed. Each call is a lemma on p: a node more at an
end (`AddedInFront`, `AddedBehind`), one less (`Removed`), all of them the other way
round (`ReversedIs`), or in another order (`ListSorted`). For the sorts, `Merges` and
`Sorts` say of a number of levels that it suffices for strands of that many nodes,
that the result is a chain of the same nodes in order, and that nothing else
changed; both are proved by a smallest counterexample. The order is that of the
comparator and, where it finds two elements equal, that of the strand before, so
stability is part of it; `RankedFrom` then identifies the result with the rank by
which `Sequence` defines its sort. That several steps of a removal amount to the one
of `Sequence` is `RemovesAsPromised`: the contents are what has been passed, and what
`Without` will leave of the rest.

The assumptions on constants are what the code, or its documentation, asks of a
build or a caller. The growth macros return at least what they are asked for
(`GrowAssumption`, the "value >= n" of the headers); a comparator is a weak order,
as for `qsort` (`CmpAssumption`); the null pointer is the address of no node, and
neither it nor a dangling pointer is a block of words (`NullAssumption`,
`PointerAssumption`); the comparator of a list is a weak order too (`CompAssumption`);
keys are integers in `Trees`, which its comparators compare.
Bounds are natural numbers (`MaxCountAssumption`, `MaxLenAssumption`,
`WordAssumption`); they may be as large as one likes.

Model-checked only:

- liveness, which is out of the prover's reach: `WritersReturn`, `SearchReturns`, and
  that removals and foreach end in `RingBuffer`, `Trees` and `Lists`;
- the runs that expect a violation, which need one counterexample only.

## Not modelled

`optional`, `closure` and `named_params.h`, which have no state and no behaviour to
check; the addresses, sizes and alignment of memory blocks; initialisation with a
data size of zero, which is refused; sizes near `SIZE_MAX` in the growth macros;
the depth of the recursion in `merge_list`, one frame per element; a list, array
or tree changed by the caller's function from inside a walk, except for the
ring buffer; data races, since a container is used by one thread.
