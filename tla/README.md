# TLA+ models of the tokamak vectorized execution core

This directory holds TLA+ models of the tokamak repository (`src/`). Each model is
checked with TLC. The repository is an early, partly written Rust code base: several
files do not compile as written (for example `random_table.rs` refers to a field
`builder` that `RandomTable` does not have, and `AlgebraBuilder::filter` is cut off
mid-expression). Where that happens, the model follows what the surrounding lines
plainly intend. The README says so at each such place.

## 1. Inventory

### Components, their state and their operations

| Component | Source | State | Operations |
|---|---|---|---|
| Page / MiniPage / PageBuilder | `src/common/rows.rs` | one MiniPage per column; each MiniPage has a write cursor and a published value count | `PageBuilder::new`, `writer(id)`, `build()` (finalises every MiniPage), `Page::bytesize` |
| Vectors | `src/src/rows/vector.rs` | `ArrayVector` (1024 slots, aligned buffer) or `ConstVector` (one 16-byte scalar) | `new`, `drop`, `is_const`, `first_value`, `as_array`, `from_vec` |
| Row blocks | `src/src/rows/vrows.rs`, `src/src/rows/mod.rs` | `HeapVRowBlock`: one aligned area cut into per-column vectors, a TEXT arena, a `selected` vector; `BorrowedVRowBlock`: borrowed vectors | `new` (layout), `put_*`, `get_*`, `vector(i)`, `selected_mut` |
| Input source: RandomTable | `src/src/common/random_table.rs` | a reused page, `row_num`, `cur_pos` | `open`, `has_next`, `next`, `close`, `choose_random_fn` |
| In-memory table: MemTable | not in `src/` (used by `src/src/common/tests/memtable_tests.rs`) | owned copies of written rows, `row_num` | `write(page)`, `row_num()`, `reader()` |
| Schema | `src/src/common/schema.rs` | ordered `(name, type)` columns | `column_id` (first match), `add`, `column` |
| Expression evaluator | `src/src/eval/interpreter.rs` | tree of `Field`, `ConstEval`, `ArithmMapEval`, `CompEval`, `AndEval` nodes; each binary node holds a result type, a result vector and a kernel pointer set by `bind` | `compile_map_eval` (MapCompiler visitor), `bind(schema)`, `eval(rowblock)`, kernel lookup `get_*_prim*` |
| Primitive kernels | not in `src/` (`eval::primitives`) | none (pure) | `map_<op>_{vv,vc,cv}` |
| Algebra tree and builder | `src/algebra/lib.rs` | a stack of partial `Operator` trees | `dataset`, `filter`, `join`, `join_with`, `build`; visitor `walk_op` |
| Function registry | `src/common/func.rs` | `FuncSignature (name, arg_types, kind)`, `InvokeAction` | `eq`, `partial_cmp`, `lt/le/gt/ge`, `cmp` |
| Package manager | `src/common/plugin.rs` | `pkgs: HashMap<name, Package>`, a type registry, a function registry | `new`, `new_with`, `add`, `load_all` |
| Lexer | `src/src/parser2/lexer.rs`, `token.rs` | `StringReader`: `pos`, `last_pos`, `curr`, `peek_tok`, `peek_span`; the thread's identifier interner, prefilled with the `declare_keywords!` table | `new`, `bump`, `next_token`, `real_token`, `advance_token`, `next_token_inner`, `scan_whitespace_or_comment`, `binop`, `str_to_ident`, `is_keyword`, `is_strict_keyword`, `is_reserved_keyword` |
| AST, compiler driver, codegen macros, engine crate root | `src/src/parser2/ast.rs`, `src/src/libtc_driver/driver.rs`, `src/src/codegen/macros.rs`, `src/src/engine/lib.rs` | type definitions, `unimplemented!()` bodies | none that change state |
| API DataFrame tests | `src/api/tests/df_tests.rs`, `src/src/api/tests/df_tests.rs` | tests only | none |

### How the components interact

A pipeline is single threaded. A consumer calls `InputSource::next()`; the source
rewrites the one page it owns and lends it out until the next call. The consumer
may project the page (a view over some of its MiniPages) and hand it to a sink such
as `MemTable::write`, which copies `value_count` rows. Expressions are compiled by a
visitor (`MapCompiler`) into an evaluator tree, bound to a schema once (field
indexes, result types, result vectors and kernel pointers are fixed by `bind`), then
evaluated page after page; every binary node writes into its own result vector,
which the next evaluation overwrites. Plans are assembled post-order on the
`AlgebraBuilder` stack. Packages fill the type and function registries when
`PackageManager::load_all` runs.

### What is hard

* **Page reuse.** `RandomTable` rewrites one page on every `next()`. Rows past
  `value_count` are stale rows of an earlier batch, and at end of stream the page keeps
  its old rows with `value_count = 0`. A sink that reads past `value_count`, or a
  source that forgets to reset it, duplicates rows. No test reads a page after the
  end of a stream.
* **Batch boundaries.** `row_num` of 0, exactly `ROWBATCH_SIZE`, a multiple of it,
  or one more than a multiple.
* **Order of steps inside `bind`.** `ArithmMapEval::bind` reads the children's
  result types before it binds them. A child that is itself an `ArithmMapEval` has
  no type until it is bound.
* **Operand order on the builder stack.** `join` pops two subtrees; which one is
  the right child is a matter of pop order.
* **Longest-match tokenizing.** `next_token_inner` looks one or two characters
  ahead and must consume exactly the characters of the token it returns. Token
  spans must tile the input.
* **Unordered iteration.** `PackageManager::load_all` iterates a `HashMap`, so the
  load order is not the insertion order. A failing package stops the loop after
  the earlier packages have already changed the registries.

### What makes each component correct

* Input source: each page has between 1 and `ROWBATCH_SIZE` rows until the rows run
  out, then 0 rows forever. The rows come in generation order, with none lost and none
  repeated. End of stream is always reached.
* Source to sink: the sink holds exactly the generated rows, in order, projected
  through the write map.
* Evaluator: bind succeeds for every well-typed expression. Bind is idempotent.
  Evaluation gives the element-wise result of the expression.
* Builder: `build()` succeeds iff one tree remains. The tree's Scan leaves, read
  left to right, are the datasets in the order they were pushed.
* Lexer: the tokens equal the longest-match tokenization of the input. The spans
  tile the input. `Eof` is always reached. An identifier is a keyword of a
  section exactly when its text is a word of that section.
* Registry: `ge` agrees with `cmp`. Packages load in insertion order. Packages are
  added before loading (the TODO of `add`), so after an Ok `load_all` the function
  registry holds the functions of exactly the packages in the map.

## 2. Plan

The modules are listed in the order they are built. The first three are the core.

1. `InputSource.tla`: the abstract contract of an input source (spec 4.C), with
   batches of 1..`RowBatchSize` fresh rows in order, then empty pages forever.
2. `RandomTable.tla`: `RandomTable::next` and `Page::new`, with the reused page and
   its stale rows modelled. It refines `InputSource`.
3. `MemTable.tla`: the sink (spec 4.D, modelled from the spec), with the write
   projection map, all-or-nothing `write`, and `row_num`.
4. `Pipeline.tla` composes 2 and 3 as the tests drive them:
   `next`, optional `project`, `write`, until a zero-row page has been written.
   `MCPipeline.tla` and its cfgs check the round trip, the refinement and
   termination.
5. `AlgebraBuilder.tla`: the builder stack with `dataset`, the unary combinators,
   `join`, `join_with` and `build`. It checks build soundness and the order of the
   Scan leaves against the spec.
6. `ExprEval.tla`: `MapCompiler` (or an `AndEval` the caller builds over two
   compiled trees), then `bind` as a post-order walk over the evaluator nodes, with `eval` over small integer pages. The values stay far from every type's limits, so overflow is not reached (see the hazards).
   It checks against a reference evaluator, bind idempotence and the bind order
   of nested arithmetic.
7. `Lexer.tla`: `StringReader` over a small alphabet, checked against a recursive
   longest-match reference tokenizer. It checks span tiling and reaching `Eof`.
   Every identifier scanned is interned into the keyword-prefilled table, and the
   keyword predicates are checked against the sections of `declare_keywords!`.
8. `Registry.tla`: the `FuncSignature` order as operators, checked against
   `cmp`. `PackageManager` is modelled with `HashMap` order as a nondeterministic
   permutation, and `load_all` with a package that fails. `add` may follow `load_all`.
9. `RowBlockLayout.tla`: the `HeapVRowBlock::new` layout arithmetic (aligned
   offsets, no overlap), checked over small widths and batch sizes. It also covers
   `ArrayVector`, `from_vec` (including its panic past `VECTOR_SIZE` values and the
   unwinding drop) and `ConstVector::new`, all over the same byte
   representation.

Abstract specifications worth stating: `InputSource` (refined by `RandomTable`),
and an abstract "sequence of rows" sink that `MemTable` refines (a later sitting).

## 3. Status

All nine planned modules exist and are checked. `PROJECT.json` lists every run,
every mutant (a plausible bug in a mapped definition, which TLC must catch with
the run's own cfg), the source lines each definition models, the findings and
the hazards.

### Modules and how they correspond to the code

| Module | Code | State | Actions |
|---|---|---|---|
| `InputSource` | spec 4.C | rows handed out so far, the current batch | `Next`: a batch of 1..`RowBatchSize` fresh rows, or an empty page once the rows run out |
| `RandomTable` | `random_table.rs` `next`, `rows.rs` `PageBuilder` | the reused page (per-column chunks and `value_count`), `cur_pos` | `NextBatch`, `NextExhausted` (the two branches of `next`) |
| `MemTable` | spec 4.D (code not in `src/`) | stored rows, `row_num` | `write` (all-or-nothing through the write map) |
| `Pipeline` | `memtable_tests.rs` driver | both of the above plus the consumer's step | `CallNext`, `WritePage`, `WriteRefused` |
| `AlgebraBuilder` | `algebra/lib.rs` | the builder stack of trees, the pushed datasets, status | `dataset`, `Unary`, `join`, `join_with`, `build`; a `pop().unwrap()` on a short stack sets status `panicked` |
| `ExprEval` | `eval/interpreter.rs`, `schema.rs` | expression, bound evaluator tree, status, input row, output, the caller's schema and the schema of the last bind | `CompileMapEval`, `CompileAnd` (`AndEval::new`), `Bind` (also again on a bound tree), `Eval` (disabled for `AndEval`, which has no `eval`), `Add` (`Schema::add`, at any time); binding and evaluation are recursive operators over the tree |
| `Lexer` | `parser2/lexer.rs`, `token.rs` | source text, `last_pos`, peeked token and span, tokens `next_token` returned, tokens the caller received, the interner's string table | `NextToken` (`next_token` with `advance_token` inside it), `RealToken` (`real_token`: `next_token` again while the token is Whitespace) |
| `Registry` | `common/plugin.rs`, `common/func.rs` | the name-to-package HashMap, the names in the order they were first inserted, the registered signatures, the order the last `load_all` iterated and what it returned | `Add`, `LoadAll` over every iteration order, a failing package after any prefix of its registrations |
| `RowBlockLayout` | `rows/vrows.rs`, `rows/vector.rs` | live allocations, the block's layout and its bytes | `HeapNew`, `Put`, `DropBlock`, `VecNew`, `FromVec`, `VecDrop`, `ConstNew`; a panic (`panicked`) ends the behaviour |

`RandomTable` refines `InputSource`: `Pipeline` instantiates `InputSource` with a
mapping from the page to a batch and checks `ImplementsInputSource`. Checking against a reference is done with
recursive operators: `RefEval` and `WellTyped` for the evaluator, `RefLex` (a
longest-match tokenizer built from `token_to_string`, with its own helpers, so it
shares no definition with the `StringReader` actions) for the lexer. `Init` stores
`RefLex(src, 0)` in the auxiliary variable `expected`. It is not program state: it
never changes, and it spares TLC from recomputing the reference in every state.

### Runs

| Run | Expect | What it shows |
|---|---|---|
| `pipeline` | pass | Every generated row reaches the sink once and in order, through the projection. `RandomTable` implements the `InputSource` contract. All rows are eventually written. |
| `builder` | pass | Every builder call keeps each stack tree over a consecutive run of the pushed datasets, and `build` returns the one remaining tree. |
| `builder_leaf_order` | violation | `join` makes the first pop the left child, so a built plan's leaves come out in reverse push order (spec 4.H says the last pushed is the right child). |
| `builder_no_panic` | violation | `join` or `join_with` on a short stack panics instead of returning an error at `build`. |
| `expr_eval` | pass | Binding resolves every field to its first schema column, also in the schema as later `add` calls grew it, or reports `UndefinedColumn`, evaluation equals the reference, and binding a bound tree again leaves it unchanged (spec P7, `BindIdempotent`). |
| `expr_nested_bind` | violation | `ArithmMapEval::bind` reads a nested child's type before binding it, so a well-typed `(b+c)+b` panics. |
| `lexer` | pass | The tokens `next_token` returns are a prefix of the longest-match tokenization, and all of it once `Eof` is returned. A caller that mixes `next_token` and `real_token` in any order receives every non-Whitespace token once and in order, and `real_token` never returns Whitespace. The texts of the module's unit tests are among the inputs, and on each of them the reference gives the tokens the test expects, so `MatchesReference` also checks that the unit tests pass. For every identifier received, `is_keyword` holds for exactly its own word, and `is_strict_keyword` and `is_reserved_keyword` hold for exactly the words of their section (`KeywordsRecognised`): interning gives a prefilled word the Name its row declares, and the hand-kept Name ranges match the table. `Eof` is always reached. |
| `lexer_pound` | violation | `#`, the `Pound` token, reaches `unimplemented!()` in `scan_whitespace_or_comment`. |
| `registry_add_after_load` | violation | After a `load_all` that returned Ok, `add` inserts a package that nothing loads, or replaces a loaded one whose functions stay registered, so the registry no longer matches the map (`RegistryMatchesPackages`; the TODO at `plugin.rs:39` says packages are to be added before loading). |
| `registry_order` | violation | `load_all` does not load packages in insertion order (spec 4.K). |
| `row_block` | pass | Every allocation and every column vector is 16-byte aligned, the vectors are disjoint and inside the area, and `get` returns the last `put` to each slot. An `ArrayVector`'s buffer lives exactly as long as the vector, also when `from_vec` panics part-way (`ArrayVectorsNeverLeak`). |
| `row_block_leak` | violation | A dropped `HeapVRowBlock` leaves its area allocated: it has no `Drop`. |

### Bounds and why they are enough

* `pipeline`: the batch size is 3 and the row counts run from 0 to 10. This covers an empty table, a
  partial batch, exactly one batch, a multiple of the batch size and one more than a multiple. A
  projection that reorders columns is included.
* `builder`: two datasets, two join types and two unary kinds, with up to 5 calls. This is enough for
  a join of joins and for every short-stack case.
* `expr_eval`: a three-column schema (INT2, INT4, INT4) plus a missing column, and the values {1,2}.
  One column can be added before or after bind: a second `b` (a duplicate name) or the missing `z`.
  There are 110 expressions: every leaf, sum, difference and comparison among them, a nested sum, and five
  `AndEval` trees (two comparisons, an unbound column on the right, an INT4 operand, a BOOL constant,
  two constants) that reach every outcome of `AndEval::bind`.
  This covers type promotion, const-const and duplicate-free lookup. Overflow is out of TLC's 32-bit
  integers, so it is a hazard, not a run.
* `lexer`: every text of length 0 to 3 over `< = > - . : ! a _ 1 space`, and every text of length 4 over
  `< = . : a space`. Every one- and two-character operator appears, as do `<<=`, `...`, `::` after an
  identifier (`a::a`), whitespace runs and whitespace between tokens. The caller picks `next_token` or
  `real_token` at every call. The nine texts of the module's own `assert_tokens` tests (`test_tokens`,
  `test_idents`, up to nine characters) are added to the inputs, and so are the words at the ends of the
  strict and reserved sections (`as`, `while`, `abstract`, `yield`), `do`, the weak keyword `union`, `Self`,
  and `a as` (a new identifier interned before a keyword).
* `registry_add_after_load` and `registry_order`: three packages, two of which share a name, and one that may fail. There are up to three
  calls, with `new_with` duplicates. Signatures of one name with different argument types are
  included.
* `row_block`: `VECTOR_SIZE` is 2 and not 1024. With 2, width times size is below 16 for narrow types,
  so the rounding in `compute_aligned_size` matters; at 1024 every width would already be aligned.
  `from_vec` is given four Vecs: one value, two values in either order, and three values, one past
  `VECTOR_SIZE`, which reaches the panic. Two INT8 values fill a 16-byte buffer exactly, so a wrong
  stride shows. The model keeps only the caller's latest `ConstVector`, since each one is an
  independent inline value.

### Fairness

`Pipeline` assumes weak fairness of the consumer loop, and `Lexer` of the caller's next call (`NextToken` or `RealToken`). The
tests that drive them (`memtable_tests.rs`, the lexer's `assert_tokens`) call
`next()` / `next_token()` in a loop until the stream ends, in one thread. The
other modules state no liveness and assume no fairness. `CHECK_DEADLOCK FALSE` is set where the
code really stops:
* `build` consumes the builder;
* a bind error ends compilation;
* the lexer stops at `Eof` or a panic;
* the registry and row-block runs stop when their call bounds are spent.

### Not modelled

* `FuncSignature::ge` (`func.rs:108`) returns `self.name <= other.name`. This is a one-line
  defect: `Registry.tla` states `SigGeAgreesWithCmp`, which any two signatures of different
  names break, but no run is spent on it.
* `BorrowedVRowBlock`. Its `set_vector` is private and never called, so its vector list is
  always empty and every `vector`/`get_<ty>` on it is an index panic.
* `ConstVector::is_const`. It returns `false` (`vector.rs:140`), which contradicts spec 3.
  Nothing calls it: kernels are chosen from the evaluator's `is_const`, so the defect has no
  reachable effect.
* The TEXT arena and the kernels. `memutil` and `eval::primitives` are not in the repository, and the
  kernels follow spec 4.F.
* `FilterCompiler`. Its `visit_comp` compiles into a local and drops it, so it changes no state.
* The AST, the driver, the codegen macros and the engine crate root. These are type definitions and
  `unimplemented!()` bodies. The one part of the AST the lexer produces, `ast::Name`, the index of an
  identifier in the interner, is modelled in `Lexer` as `NameOf`.
* The interner's own code (`util::interner::StrInterner`) is not in the repository. `Lexer` models it
  by the contract `token.rs` and `ast.rs` state: `prefill` names the strings by position, and `intern`
  keeps the Name of a known string and appends a new one. `gensym` is never called.
* The other `Token` predicates (`can_begin_expr`, `is_path_start`, `is_path_segment_keyword`,
  `is_any_keyword`). They read a token and change nothing, and no parser in the repository calls them.
* The MiniPage implementations. `MiniPage` and `MiniPageWriter` are traits that no type in the
  repository implements. `RandomTable` models their writes by the contract `rows.rs` gives them: a
  write fills a column's next row, and `finalize` (called by `build`) publishes it. Byte sizes
  (`bytesize`) and cursors are left out. Every `rows.rs` operation that has a body and changes state
  is an action, so the Page component counts as modelled.
* `from_vec`'s element type. `as_mut_array` views the buffer as `VECTOR_SIZE` elements of the caller's `T`,
  and nothing ties `T` to `data_ty`. `FromVec` takes `T` to have `data_ty`'s width, as every caller in the
  repository does. A wider `T` would write past the allocation; the hazard list records this.
* `ConstVector::first_value` and `as_array`. They only read, and no property depends on them.
* The DataFrame API tests. The API they test is not in the snapshot.
