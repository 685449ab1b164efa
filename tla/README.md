# Quickstep-Streaming in TLA+

Quickstep-Streaming is a C++ library of the parts of a streaming query engine:
a catalog, expressions over batches of tuples, two streaming operators, an
aggregation over windows of a stream, and the locks, queues, containers and
types they are made of. It has no main program and no storage; its users are
its unit tests and, in time, a driver that calls `open()`, `next()` and
`close()` of operators. Paths below are relative to the root of the repository.

## 1. The system

| Part | State | Operations | What makes it correct |
|---|---|---|---|
| `WindowAggregationHandleAvg` (`expressions/window_aggregation`) | a deque of tuples that are still needed, `sum_`, `count_`, the index of the tuple whose output is due, the start of the next aggregation | `calculate()` on one batch after the other | every tuple (or every `emit_duration`) gets one average, over exactly the tuples of its frame, as soon as the frame is known to be complete |
| `SpinSharedMutex` (`threading`) | one atomic word: a write bit and a count of readers | `lock`, `unlock`, `lockShared`, `unlockShared` | readers share, writers exclude; what was written is seen; a writer that has announced itself gets in |
| `SharedMutex` (`threading/cpp11`) | the same word under a mutex, two condition variables | the same four | the same, and no sleeper is forgotten |
| `ThreadSafeQueue` (`utility`) | a queue, a count of sleepers | `push`, `pushMultiple`, `popOne`, `popOneIfAvailable` | each item to one thread, in order; nobody sleeps beside an item |
| `CatalogDatabase` (`catalog`) | relations in a vector by id, in a map by lower-case name, and the id in each relation | add, drop by id or name, look up, save to a proto, construct from a proto | the three copies agree; ids are stable and never reused, also across a save |
| predicates (`expressions/predicate`) | trees of conjunctions, disjunctions, negations, comparisons; each list keeps a static result up to date | `addPredicate`, `NegatePredicate`, `getAllMatches(filter, existence_map)` | the static result is that of the operands; matching a batch at once is matching tuple by tuple |
| `ScalarCaseExpression` (`expressions/scalar`) | WHEN predicates, THEN scalars, a fixed branch if one is known | `getValueForSingleTuple`, `getAllValues` | each tuple gets the value of the first WHEN it satisfies, at its own position |
| `StreamingSelectOperator` (`streaming_operators`) | the `SelectSpec` between `open()` and `close()` | `open`, `next`, `close` | one output per input, of the tuples that satisfy all predicates and nothing else |
| types and values (`types`) | a `Type` is interned; a `TypedValue` holds its data or owns, or refers to, bytes | `getUnifyingType`, `coerceValue`, printing, parsing, protos; copies, moves, `ensureNotReference` | a value fits the type it is coerced to; what is written is read back; bytes are freed once, by their owner |
| dates and intervals (`types`, `types/port`) | | adding months and time, `gmtime`/`timegm`, printing, parsing, EXTRACT | the calendar is the calendar, before 1970 and at the end of a month too |
| operations (`types/operations`) | operators and comparators made once for two types | apply to two values, pointers, columns, accessors, literals, joined pairs | every way to compute gives the value of the slow, checked one |
| scalars (`expressions/scalar`, `ComparisonPredicate`) | the operator, static values | values of a tuple, a pair, a batch, a join; `getProto` and the factory | the same, whatever the operands are, and after serialization |
| schemas (`CatalogRelationSchema`, `Catalog`) | attributes in a `PtrVector`, by name, and lengths, offsets and indices kept beside them | `addAttribute`, lookups, save, restore | what is kept describes the attributes, in tuples of every size |
| containers (`types/containers`, `utility/BitVector.hpp`) | words of bits, cells with a null bitmap, an accessor's position and adapters | fill, read, move; shift, flip, count, find | the bits and cells are those that were written; an accessor visits its tuples, in order |
| `DAG` (`utility`) | nodes and their dependents | link, search for a cycle, divide into stages | a stage starts what no unfinished node precedes |

How they interact. An operator owns a `SelectSpec`, which owns predicates and
scalars; `next()` calls `getAllMatches()` of each predicate with the result of
the one before as filter, wraps the batch in an accessor that shows only the
tuples left, and calls `getAllValues()` of each scalar, which in turn may call
`getAllMatches()` with a filter *and* an existence map. The window handle
evaluates its argument with the same `getAllValues()`. `CatalogDatabase`
protects its relations with a `SpinSharedMutex`; `ThreadIDBasedMap` and
`ShardedLockManager` are further users of the shared mutexes.

What is hard. Concurrency is confined to the mutexes, the queue and the
catalog; there it is hard in the usual ways (stale reads, back-offs, lost
wake-ups, fairness). The rest is sequential, and hard because state is kept
incrementally over long sequences of calls (running sums, indices into a queue
that is shortened, static results, three copies of one directory), because
batch evaluation works by position in several numberings at once, or because
one result has many implementations: an arithmetic operation has a checked and an
unchecked one, the latter once for each kind of column, accessor, literal and join, each
specialised by type and nullability and by the build. Nothing is
persisted by a running program and no messages are sent: there are no crashes
to recover from and no deliveries to lose. `PROJECT.json` lists the hazards at
their lines, with the properties that would catch each.

## 2. The modules

| Module | Models | Depends on |
|---|---|---|
| `WindowAverage` | abstract: the averages of a stream, defined from the whole stream | |
| `WindowAggregation` | `WindowAggregationHandle`, `WindowAggregationHandleAvg` | refines `WindowAverage` |
| `SharedLock` | abstract: modes of threads, readers share and writers exclude | |
| `SpinSharedMutex`, `SharedMutex` | the two shared mutexes | refine `SharedLock` |
| `ThreadSafeQueue` | the queue | |
| `Directory` | abstract: names with ids that are never given twice | |
| `CatalogDatabase` | the relations of a database; its critical sections are atomic, as `SharedLock` allows | refines `Directory` |
| `Predicates` | predicate trees and `getAllMatches()` | |
| `ScalarCaseExpression` | CASE expressions | extends `Predicates` |
| `Selection` | abstract: a query evaluated one tuple at a time | |
| `StreamingSelectOperator` | the operator, composed of the two machines above | extends `ScalarCaseExpression`, refines `Selection` |
| `Types`, `TypedValues` | type lattice, coercion, text and protos of values | one extends the other |
| `Calendar`, `CalendarText` | dates and intervals as numbers, and as text | extend `TypedValues` |
| `BinaryOperations`, `ArithmeticOperators`, `UnaryOperations` | operations: rules on types and checked evaluation; operators made once | extend `TypedValues`, the last one `CalendarText` too |
| `Comparisons`, `ComparisonBatches`, `ComparisonUtil` | comparisons of two values, of batches, for sorting and searching | extend `TypedValues` |
| `Expressions`, `ExpressionProtos`, `JoinedCases` | scalars and comparison predicates; all expressions as protos; CASE over a join | extend the eight above |
| `WindowFunctions` | what window functions say of their arguments | extends operations and comparisons |
| `ValueCalls` | one call on types, what operations and functions say of types, values, datetimes, bit vectors, columns, cursors over tuples, vectors of pointers, schemas or catalogs per behaviour | extends `UnaryOperations`, `WindowFunctions`, `Containers`, `Schemas` |
| `ExpressionCalls` | one call of any of the above per behaviour | extends them |
| `BitVectors`, `Containers` | bit vectors; columns, accessors, adapters | one extends the other |
| `Dags`, `Schemas` | the DAG; schemas, `PtrVector`, the catalog of databases | |
| `ValueOwnership` | the bytes of values, by owner: a machine of its own | |
| `DataCalls` | one call per behaviour, or a history of values | extends `ExpressionCalls`, `Dags`, `ValueOwnership` |
| `MC*` | constants for TLC | |
| `*Proofs` | theorems about the module they extend; `DataProofs` about `ValueOwnership` and the operations of `ValueCalls`, `ValueCallsProofs` about the rest of it | |

### WindowAggregation

`window_`, `sum_`, `count_`, `current_tuple_index_` and `current_value_` are
variables under the names of the code. `calculate()` is called with a batch
(`Calculate`), and each turn of its loops is an action: taking the next tuple
(`NextTuple`), emitting an output and moving the frame (`EmitOutput`), dropping tuples
at the front (`DropFront`, `DropDone`), adding the new tuple (`Update`), `Return`.
`current_tuple_index_ - value_preceding_` wraps in `std::size_t`, here modulo
`SizeT`. Reading an empty deque, or past its end, leads to the state
`"undefined"`, from which the model makes no further claim. Values are numbers
small enough to tell sums of different sets of tuples apart; an average is kept
as sum and count.

`WindowAverage` knows the stream and its frames only: the k-th output is the
average of the frame of the k-th tuple (aggregations: the k-th period). Its
safety part forbids an output that is wrong, early or out of order; its liveness part
demands each one once the stream has shown that its frame is complete.

### SpinSharedMutex and SharedMutex

Each atomic operation of `SpinSharedMutex` is an action. A relaxed load may
return an older value: `visible` holds, per thread, the values it may still read.
`known` is the set of threads that the latest exclusive section happens before,
through the release and acquire orders the code asks for, and `unordered` the readers
whose section happens before nobody else's yet. `SharedMutex` is modelled per critical section of its mutex, with
sleeping threads and spurious wake-ups.

### ThreadSafeQueue

One action per critical section; a thread that waits has released the mutex. The
items are the numbers of their pushes (`pushed` counts them), and the history `taken`
holds them in the order in which threads took them. A push signals all sleepers
(`signalAll()`), and each may also wake up by itself.

### CatalogDatabase

`rel_vec_` (with `NULL` for the dropped), `rel_map_` and the relations' ids.
Saving and restoring are loops of single steps, since `getProto()` and the
constructor take no lock; the relations' names differ only in case where it
matters. Restoring may put `NULL`s between relations.

### Predicates, ScalarCaseExpression, StreamingSelectOperator

A `TupleIdSequence` is a set of tuple ids. A comparison, or a constant, is a
leaf: the set of tuples that satisfy it. Nodes are built bottom up in any way
that `addPredicate()` and `NegatePredicate()` allow, static, dynamic and nested operands
mixed; `meaning` records what a node was built to say. `getAllMatches()` is a
machine with a stack of frames, one per running call; a frame holds the filter and
existence map of its call and the sequences its loop updates. `ScalarCaseExpression`
calls it for each WHEN with the tuples that no earlier WHEN has matched, collects a
column per branch and multiplexes the columns by position.
`StreamingSelectOperator` builds predicates, puts them into a spec as predicates
or WHENs, and runs `next()` over batches through both machines. Both builds of
`QUICKSTEP_ENABLE_VECTOR_PREDICATE_SHORT_CIRCUIT` are covered (`short_circuit`).

### Types to WindowFunctions

These are pure: operators that say what a function returns. A `Type` is a record
(interned, so that `equals()` is equality), a value is its type id and its data or NULL. Numbers
are counted in halves, so that a cast loses something: a conversion to an integral type drops the
half, one to INT keeps the lower word (`LowerWord`, by `IntLimit`), one to a floating point type
takes the nearest number that has no more digits than the type (`Rounded`, by `FloatLimit` and
`DoubleLimit`). Hash and `fastEqualCheck()` read the bytes a value is stored in (`InlineBits`), which differ
between types for the same number, and are used between values of one type only. The result of
arithmetic is a term that names the operation, the type it is computed in and
the operands in order, which is what the code's many paths may get wrong. Strings are
their bytes with the terminator. An operator or comparator of the code is a class template: here it is the
record of its template arguments, made by the same case distinction, and the methods that
apply it to columns, accessors, literals and joined pairs are operators on that record,
with the branch the code takes for each nullability. Reading through a null pointer gives `Crash`, a model value that is no truth value. Dates have the units of
time as parameters (`HoursInDay`, ...), since a real day of microseconds times a century does not fit
TLC's integers; days, months and leap years are the calendar's own.

### ValueCalls, ExpressionCalls, DataCalls

Where a component keeps no state between calls, a behaviour is one call: the initial
state chooses it and its arguments, one action per kind of call computes `results` by
every path the code has, and a property compares them with each other or
with a definition of what the call means. `BitVectors`, `Containers`, `Dags` and `Schemas` keep state, but only
inside one object and one thread: the chosen call is a whole sequence of operations on a new
object (every length, position and order of them within the bounds), and the property is about the object at its end.
`WindowFunctions` belongs here too: what `WindowAggregationHandleAvg` does with the
operators it makes is in `WindowAggregation`.

### ValueOwnership

Slots are `TypedValue`s, blocks what `malloc()` returned or a column's buffer. Actions are construction, copy,
move and assignment with a reference or an owned value on either side,
`ensureNotReference()`, `makeReferenceToThis()`, the release of data and destruction. A block may be handed out again once it is freed,
so that a reference kept too long would read another value.

## 3. The runs

| Run | Question | Result |
|---|---|---|
| `window_average` | does `calculate()` give `WindowAverage` for every frame that starts at UNBOUNDED PRECEDING, and do `sum_`, `count_` match `window_` for all frames? | yes |
| `window_sliding_rows` | do the unit test's sliding ROWS frames work? | no: the index wraps and the deque is emptied |
| `window_tumbling` | do aggregations drop what has left the window? | no: averages accumulate |
| `window_hopping` | does the emit loop stop when windows have gaps? | no: it never ends |
| `spin_shared_mutex` | is the spinning mutex a shared lock, with progress? | yes |
| `spin_shared_mutex_reads` | are a reader's reads ordered before the next writer's writes? | no: both sides are relaxed |
| `shared_mutex` | is the sleeping mutex a shared lock, with progress? | yes |
| `thread_safe_queue` | is every item delivered once, in order, with no lost wake-up? | yes |
| `catalog_database` | do lookups agree, and are ids stable through drops, saves and restores? | yes |
| `streaming_select` | is evaluating batches with nested filters the same as evaluating tuples? | yes |
| `data_calls` | does each call of the types, operations, comparisons, expressions and data structures return what it means, by every path, in every build? | yes |
| `case_first_match` | does a CASE take the first WHEN that matches? | no: a later WHEN that is statically TRUE wins |

What the properties say is written above each of them in the modules. Type
correctness is proved (section 5) and in no run. The properties are: exact outputs and outputs in time (`EmitsExactFrames`,
`EmitsWhatIsDue`), the running sums (`SumIsOfWindow`), refinement of the abstract
specifications (`Implements...`), who waits and who is woken
(`NobodySleepsInVain`, `NobodySleepsBesideItem`, `WaitersCounted`), progress
(`PendingWriterGetsIn`, `SomeoneGetsIn`, `WaitersMoveOn`, `CalculateReturns`), agreement of copies
(`LookupsAgree`, `RestoredIsSaved`), static results (`NodesMeanWhatWasAdded`), filters
(`FilterIsMeant`), and positions (`BranchesPartition`, `ValuesInPlace`). `data_calls` checks twelve:

| Invariant | Says |
|---|---|
| `CoercionsAreSafe` | what may be coerced safely fits its type, and coerced back it is what it was, but for integers with more digits than the floating point type; unification is an upper bound, in either order, and the least |
| `SignaturesAgree` | the result type, the partial types, plausibility and hints of an operation agree with `canApplyToTypes()`, and those of window functions with their handles |
| `EveryPathComputesTheSame` | a scalar gives a tuple, a pair, a batch and a join the value of the checked evaluation, through every kind of operand, copy elision and literal folding; CASE over a join takes the first WHEN of each pair |
| `EveryPathMatchesTheSame` | the same for comparisons, with filters and existence maps (`MatchesAreThoseThatHold`); comparators for sorting and searching are strict weak orders that agree between types, and bounds divide a sorted range (`OrdersAgree`); nothing is claimed of a NULL where `NullsAreRead` is about it |
| `KnownDeviations` | what the code does where a comment says otherwise, exactly: a comparison with NULL is false, but for the places that read through the null pointer instead, for which tuples of which batches (`NullsAreRead`, finding 7); what `all()` of a narrow vector with padding answers, and where the bits of a tail shifted back are when they are not where `BitVector.hpp` says (`BitVectorsDeviate`, findings 8 to 10) |
| `WrittenIsReadBack` | types, values, dates, intervals, expressions and predicates come back from their protos, and from text where there is a parser |
| `MonthsMoveTheCalendar` | adding months and time, `gmtime` and `timegm` follow the calendar |
| `BitVectorsHoldTheirBits` | both kinds of bit vector, word by word, hold what was set, flipped, shifted, assigned and intersected, and nothing in their padding; nothing is claimed of what `BitVectorsDeviate` is about |
| `CursorsVisitTheirTuples` | columns give back what was put in, and accessors with their adapters visit the tuples they should, backwards too |
| `StagesFollowTheLinks` | a DAG finds its cycles, and its stages respect the links |
| `BlocksAreOwnedOnce` | no block is owned twice, lost, or freed under a live value |
| `SchemasDescribeTuples` | the lengths, offsets and indices a schema keeps are those of its attributes, also after a save; lookups agree in a catalog |

### Bounds

- Window: streams of at most `MaxTuples` = 5 tuples in any division into
  batches, 17 frames of all kinds, at most `MaxOutputs` = 7 outputs, `SizeT` = 64 for 2^64. Five tuples are enough for a
  frame to open, fill, pass and leave two tuples behind; every index stays far
  from 64 unless it wraps. Streams end, and an undefined state has no successor:
  deadlock is not checked.
- Mutexes: three threads for `SpinSharedMutex` (a writer in, a writer pending, a
  reader backing off meet), four for `SharedMutex` (two writers and two readers
  asleep at once); `kWriteBit` = 4 and `kWriteMask` = 8 are above the number of threads, as 2^31 is.
- Queue: three threads, `MaxItems` = 4 pushes, `MaxBatch` = 2: a `pushMultiple()` of two
  items meets two sleepers and a `popOneIfAvailable()`.
- Catalog: four relations, three of which have the same name up to case, ids up
  to 2 so that one addition overflows.
- Select: two nodes of at most `MaxOperands` = 2 operands, two leaves that depend on
  the tuple (P, Q) and the two constants, a tuple for each combination of P and Q,
  `MaxPredicates` = 2 predicates and WHENs together per spec, two batches of 4 and 2 tuples. A
  predicate or WHEN is a node, or one of the leaves in `BareLeaves` = {P, TRUE}; beside
  the CASE there is a column with a plain attribute. Every
  pair of static, dynamic and nested operands in either order occurs, and each kind of
  node inside each other. Nodes are interchangeable, so the run uses symmetry (it checks safety only);
  it reaches 909,746 states.

- Calls: all ten types in both nullabilities, strings of one and two bytes, two values
  per type and NULL where it may be; batches of every pair of the values of two types. The
  operands of expressions are restricted to twelve types that take every branch of the
  templates (integer and not, equal and mixed, nullable and not, fixed and variable length). A
  day has 800 ticks (2 hours of 2 minutes of 2 seconds of 100 ticks); the datetimes stand before
  1970, around the ends of February, at leap years, 2000 and 2100. Bit vectors
  have words of `SizeTBits` = 3 bits for 64, and of 3, 5 or 7 for the narrow ones; lengths from 0 to
  11 bits are no word, part of one, a full one, several. All patterns are tried up to `MostBits` = 4 bits,
  few (all ones, a single one, a single zero) on longer ones. Accessors have at most
  3 tuples and 4 moves, graphs 4 nodes, `PtrVector` 4 changes at the
  first two positions, schemas 4 attributes and catalogs 4 names for 3 ids, values 3 slots, 3 blocks and a buffer. A call has no successor: deadlock
  is not checked. An INT is in -8 .. 7.5, a FLOAT has up to 4 halves exactly and a DOUBLE 16; numbers beyond these
limits (`MCWideNumbers`: at and beyond a limit, and where a tie is rounded either way) are coerced, and nothing else is
done with them. The run reaches 320,856 states.

### Fairness

`WindowAggregation`: the calling thread runs `calculate()` to its end (weak
fairness of its steps); batches arrive or not. `SpinSharedMutex`: every thread
that is inside an operation runs, threads that hold the lock release it, and
stores become visible eventually; no thread must ever ask for the lock. No strong
fairness is assumed, so no thread is promised to win against others for ever, and
the properties do not claim it. `SharedMutex`: weak fairness of each thread's
steps; a signal is not fair to anyone in particular and spurious wake-ups need
not happen. `ThreadSafeQueue`: a thread that has been woken resumes; pushes and
pops are never owed. `CatalogDatabase` and `StreamingSelectOperator` state safety
only, and a call of `DataCalls` is one step.

## 4. Findings

Each is shown by a run (`PROJECT.json` quotes the lines): 1 to 3, 5 and 6 by a counterexample, the others by
a property that says what the code does against the comment.

1. Sliding ROWS frames (`window_sliding_rows`): `inWindow()` subtracts in
   `std::size_t`, and `calculate()` does not move `current_tuple_index_` back when it
   pops the front, so the unit test's own frame reads an empty deque.
2. Aggregations never slide (`window_tumbling`): `inWindow(0)` is always true.
3. An aggregation with gaps between windows makes `calculate()` loop for ever
   (`window_hopping`).
4. The header says that UNBOUNDED PRECEDING only stores tuples without an
   output; the code keeps the whole stream (`window_average`, `UnboundedKeepsEverything`).
5. `SpinSharedMutex::unlockShared()` releases nothing (`spin_shared_mutex_reads`):
   the comment argues about readers' writes and forgets their reads. Hardware
   with total store order hides it.
6. CASE with a dynamic WHEN before one that is statically TRUE takes the latter for
   all tuples (`case_first_match`); `getAllValuesForJoin()` of the same class
   takes the first match.
7. "Comparing NULL with any value always results in false" (`Comparison.hpp:497`), but two comparators
   do not test for it (`data_calls`, `KnownDeviations`, as are 8 to 10): of two string attributes of one accessor a misplaced parenthesis
   lets a NULL through (`AsciiStringComparators-inl.hpp:280`); LIKE tests neither a nullable attribute
   (`PatternMatchingComparators-inl.hpp:239`) nor a value (`PatternMatchingComparators.hpp:87`). The model
   gives `Crash` there, and nowhere else.
8. `all()` of a short bit vector with padding is false for a full one (`BitVectorsDeviate`, a part of `KnownDeviations`): the mask it is
   compared with is an `int` with more bits than the word (`BitVector.hpp:510`).
9. `shiftTailBackwardRegularVersion()` does not clear the first word when the tail starts with it and
   moves more than a word (`BitVector.hpp:1094`).
10. `shiftTailBackwardShortVersion()` shifts ones into the padding, where `onesCount()` and `any()` see
    them (`BitVector.hpp:1161`). No code of the repository uses the short version.

`EveryPathMatchesTheSame` and `BitVectorsHoldTheirBits` except what 7 to 10 are about (`ReadsNull`, `SpoiltByPadding`,
`Misshifted`), so that together with `KnownDeviations` they show that there is nothing else of the kind.

Met while translating, without a run of their own. Where the models reach them the
property names the exception (`ComputesInDouble`, and the conditions on
fractions before 1970 and on months that are not negative); 13 and 15 to 19 are at calls the models leave out.

11. `INT % FLOAT` by the unchecked modulo returns a DOUBLE, though the result type is FLOAT
    (`ArithmeticBinaryOperators.hpp:159`).
12. Subtracting months carries one way only: with a negative interval the month leaves its range
    and `timegmCustom()` reads beside its table (`DateOperatorOverloads.hpp:74`, `timegm.cpp:142`).
13. `VarCharType::coerceValue()` from a padded CHAR that is too long keeps its bytes
    (`VarCharType.cpp:165`); only unsafe coercions reach it.
14. A substring that starts at the end of its type allocates no bytes and writes a terminator
    (`SubstringOperation.hpp:128`); its join variant reserves room for all tuples of
    the accessor instead of the pairs (`SubstringOperation.cpp:193`).
15. `DatetimeType.cpp:236` assigns where it means to compare, in the test for a result of -1.
16. A LONG and a FLOAT are compared in float by one path and in double by the other.
17. Shifts of short bit vectors may shift an `int` by its width or more (`BitVector.hpp:1151`, `:1161`); `setBitRange` up to
    the end of the array touches the word behind it (`:923`). The model has both (`Misshifted`, `leaves`).
18. A `TypedValue` assigned a reference to its own data frees it first (`TypedValue.hpp:219`);
    `positionalWriteTypedValue()` never clears a NULL bit (`ColumnVector.hpp:372`).
19. The constructor from a `DateLit` does not clear the union first (`TypedValue.hpp:132`), unlike that from an `int`, and a
    `DateLit` has six bytes: two equal dates made apart may differ in hash and `fastEqualCheck()`.

## 5. What is proved

TLC checks the instances above; the theorems below hold for every value of the
constants that meets the named assumptions (`ASSUME` in the module that declares the
constant). Each module of proofs states an inductive invariant, proves that the
initial states satisfy it and every step keeps it, and derives the properties.

| Module | Theorems | For |
|---|---|---|
| `WindowAggregationProofs` | `TypeCorrect`, `SumCorrect`, `OrderCorrect`, `KeepsEverything`, `EmitsCorrectly`, `FrameCorrect` | all frames, streams, batchings |
| `SpinSharedMutexProofs` | `Implements`, `CountsCorrectly`, `HoldersSeeWrites`, `TypeCorrect` | every finite set of fewer than `kWriteBit` threads |
| `SharedMutexProofs` | `Implements`, `NoLostWakeup`, `CountsCorrectly`, `TypeCorrect` | every finite set of fewer than `kWriteMask` threads |
| `ThreadSafeQueueProofs` | `DeliversInOrder`, `NoLostWakeup`, `CountsWaiters` | every finite set of threads, any number of items and batches |
| `CatalogDatabaseProofs` | `TypeCorrect`, `LookupsCorrect`, `RestoresInPlace`, `Implements` | all relations, names, and limits of ids |
| `StreamingSelectProofs` | `NodesCorrect`, `FilterCorrect`, `BranchesCorrect`, `ValuesCorrect`, `OperatorImplementsSelection`, `TypeCorrect` | all leaves, nodes, specs and batches, both builds |
| `DataProofs` | `CoercionIsPreorder`, `SubsumedIsHeld`, `UnifyingIsLeast`, `TypesReadBack` | all types, strings of every length |
| | `TimesAreCalendars` | all times, all units of time |
| | `OwnershipCorrect` | any number of values, blocks and columns |
| `ValueCallsProofs` | `CoercionsAreCorrect` | all types, all their values |
| | `MovesAreCorrect` | all datetimes and months |
| | `BitVectorsCorrect`, `DeviationsCorrect` | bit vectors of every length and content, all widths of words |
| | `CursorsCorrect` | columns of all types, any number of values and of tuples, all ids and orders of ids, any moves |
| | `SignaturesCorrect` | all operations, functions and comparisons on all types, known or not; strings of every length |
| | `SchemasCorrect` | any number of attributes of all types, of names of databases, of changes to a vector of pointers, and every limit of ids |

**Window aggregation.** The properties speak of sums and outputs; what makes them
inductive is where the deque stands in the stream. `TypeInv`: `window_` is the tail of
the stream, and `emit_duration` alone decides which of the two positions moves.
`SumInv` on top of it: `sum_` and `count_` are those of the tuples in that tail, without
the new tuple while the frame still has to move up to it. `FrameInv` on top of
both, for the promised streams: nothing has been dropped, the position is the next output's, the
stream is in order, and every tuple taken so far is in the next output's
frame. Then the running average *is* the average of the frame at the moment it
is emitted (`EmitsCorrectly`, step by step against `WindowAverage`). `OrderInv` is for
all frames, those that go wrong too: seen from the stream, the current tuple (`Behind`) never moves
back, and every tuple that has had its output lies before it. Assumed: frames and
values have their types, NULL is not a number.

**Mutexes.** The invariants say what `state_` counts (`StateCounts`, `Counts`) in
terms of the sets of threads at each label, that no reader is inside beside a
writer (`NoReaderBesideWriter`; in `SharedMutex` it follows from the counts), who
knows of the last exclusive section (`HoldersKnow`), and that nobody sleeps without a
cause (`NoSleeper`). Assumed: the threads are fewer than the write bit, so that
no count carries into it; with 2^31 this is the code's own assumption.

**Queue.** `IInv`: queue and history together are the numbers of the pushes in
order (`InOrder`), nobody sleeps beside an item, and `num_waiters_` is the
number of threads inside `popOne()` that found nothing.

**Catalog.** `IInv`: vector, map and the relations' own ids agree (`Agree`); a
relation not yet given away is in no vector; what has been saved so far
describes the vector up to `index` (`SavedUpTo`); what has been restored so far is the saved
vector up to `index` (`RestoredUpTo`). The last two, over the loops of
`getProto()` and the constructor, are what `RestoresInPlace` and the refinement of
`Directory` need. Assumed: lowering a name twice is lowering it once.

**Select.** Four layers, each resting on the one before. `TreeInv`: the static result of
a list is decided by its static operands (`CacheOK`), its operands are complete and
their meanings are its own. `CallInv`: every running call of `getAllMatches()` has the
matches of the operands it has been through, within its own filter (`FrameOK`), each call
asks what its caller's operand and filter are (`Calls`), and the outermost what
`next()` or a CASE asked for. `OperatorInv` and `CaseInv`: calls run only where they are
made, and `BranchesPartition` for the WHENs so far. `ColumnsInv`: each column is that of its branch,
and the places of the branches written so far have their values; that positions and
tuples determine each other (`AtPositionFacts`) comes from counting. On top of them `RowsInv` says
where `next()` stands among its inputs and expressions, and that each column made so far has, at each
place, the value its expression has for the tuple of that place alone; so the steps of the machines are
stutters of `Selection` but for `open()`, the call, the output and `close()`
(`OperatorImplementsSelection`). `Selection` knows a query (which tuples, which row of each) and
batches; its rows are numbered by counting the selected places. Assumed: a
leaf with a static result is satisfied by all tuples or by none, leaves are
not nodes, and NULL is not a set of tuple ids. None of it uses the bounds on operands and
predicates.

**Values.** `OwnershipInv`: owning is injective, an owned block is live and a live one owned, so that a destroyed value
frees what is there and nobody else's; and what a value means is what is in its block.
Each statement of the code is one of two cases (the slot gets a value that owns nothing, or one with a
new block), which are lemmas. Assumed: a column's memory is none that `malloc()` returns for a value.

**Types and values.** Safe coercion is decided by nullability, ids and lengths (`HoldsByFields`); from
that it is a preorder, and `GetUnifyingType()` finds a least upper bound. It is
not commutative, and the theorem does not say so: of CHAR(n) and VARCHAR(n), each of which holds the
other, the first is returned. `CoercionsAreCorrect` adds the values: the text of a string ends at its first
terminator or with its bytes (`StringsAreText`), a coercion keeps it (`CoercedString`) and with it
what is compared and hashed, in a value that fits the new type; as it needs only room for the text, it also
leads back (`TextOfCoerced`). A number that is cast to a type above its own is the same number, and cast back the same value
(`CastAndBack`): what has to be shown is that no word is cut (`LowerWordOfInt`) and nothing rounded (`RoundedIsExact`).
Excepted is an integer with more digits than the floating point type has (`Rounds`), which `Type.hpp:270` warns of; of it only
remains that it fits, and that its hash gives back what it was rounded to. Nothing is said of hashes of different numeric types,
which differ. Assumed (`PrecisionAssumption`, `ArgumentsAssumption`): the limits are numbers, and the values are
those of their types as `IsValueOf` describes them (an INT in its range, a FLOAT one that there is), with no bytes behind a string's terminator. A CHAR
read from a column at its full width (`ColumnVector.hpp:205`) can have such bytes, which a
coercion to VARCHAR keeps (`VarCharType.cpp:165`); the theorem and the run leave these values out.

**Calendar.** `gmtime_r()` is described by what it means (the year, the month and the second the time lies in),
`timegmCustom()` is the code's own arithmetic of days and leap years. That the former finds a year at all
is where the work is: the mean year is off by one at most (`MeanYear`), and of the years around it one
has the day (`YearOfDayFacts`, by the least number principle, `Minimum`). Then the two are inverse on all
times (`TimesAreCalendars`), for units of time of any length, and the months carry into years as
they should (`Moves`), to the last day of a shorter month (`ClampedIsMoved`). `MovesAreCorrect` is about months
that are not negative: the property says nothing of others (finding 12).

**Bit vectors.** A vector is the set of the places of its ones, place `i * width + b` for bit `b` of word `i`
(`PlaceOf`). Places are ordered word by word (`PlaceOrder`), which is all a search needs
(`SearchFacts`), and every vector is an array of words that its set determines and whose padding is
empty (`MadeOf`, `VectorParts`), so that questions about words are questions about places. A range is a part of
one word, whole words and a part of the last (`RangePlaces`, `SetRangeFacts`); the number of ones
is a sum over the words (`OnesCountFacts`, by the least set of words that would refute it). The
shifts are the hard part: each word of the result is joined from parts of two words, and `PlaceCarried` and
`Carries` turn "so many bits on" into the word and the bit the code computes with quotients and
remainders, once for each of its cases (`SplitFacts`, `JoinedFacts`, `ShiftForwardFacts`;
`AcrossFacts`, `WholeFacts`, `ShiftBackwardFacts`). `BitVectorsCorrect` makes no claim where the code does not do
what its comments say: of the shifts that `Misshifted` lists (findings 9 and 17), of the padding of a narrow vector that was shifted
back (finding 10), and of `all()` of a full narrow vector with padding (`SpoiltByPadding`, finding 8). `DeviationsCorrect` says of these what
the code does instead: `ShiftBackwardFacts` is about every distance, and gives the tail that is due and with it what stays in the word it
starts with (`Staying`), which in that case is copied and not cleared; a narrow vector shifted back is one whose length is
its word's (`ShortBackwardFacts`). Left are the narrow shifts that C++ does not define. Assumed (`WordsAssumption`): words have at least one bit, and the narrow widths
come in order.

**Signatures.** The rules of an operation on types are five case distinctions (can it be applied, of what type is the result,
of what type when an argument is unknown, is a signature plausible, which hint is handed down) and a sixth that makes the
operator. The proof brings each to one function of two ids, `ResultID`: `CanApplyIs`, `ResultTypeIs` and `OperatorIs` say that
applicability, result and operator are given by it, `ResultsAre` that what can become of an unknown argument is its
image (`ResultIDs`), nullable as `MayBeNull` says. The rules for unknown arguments are tables; `PartialTypesAre` and
`PlausibleAre` say that a table lists that image, neither less nor more, and `HintsAre` that a hint is in it. For unary operations, functions and
comparisons the same is done rule by rule (`UnarySignaturesRight`, `FunctionsRight`, `ComparesAre`); `AveragesAgree` follows the type of AVG's sum through
the three operators its handle makes. Assumed (`OperationsAssumption`): an unknown argument may have any nullable number or time, and some
nullable string, and casts are to types there are.

**Structures.** A call on a structure is a loop, a recursive function over the positions of a sequence; that such
a function takes the steps it is defined by is proved once for each loop (`VectorsSteps` to `ReconstructSchemaSteps`), and an
invariant of the loop is then carried from one position to the next (`UpTo`). For a vector of pointers it says
that each object the changes have brought is owned, deleted or released, and only one of the three (`Followed`):
no change can then delete what is not owned (`ChangeFollowed`, one case per change), and the destructor
deletes the rest (`DestroyFacts`). The skipping iterator stops at the first object from where it is (`SkipFacts`), so it
visits all of them (`VisitFacts`). For a catalog it says that vector and map are those of one sequence of
different names (`CatalogOver`, `HoldsNames`), which is also what is read back. For a schema, `Described`: the first k attributes are
listed by id and by name in lower case (`Listed`); the counters of variable length and nullable attributes and the indices
given so far count the ids of a set in order (`Counted`); the fixed part is tiled by the fixed attributes so far
(`LaidOut`), though the lengths and offsets are resized in between; and the totals are sums (`Summed`). Each of these is handed on by
`addAttribute()` on its own (`ListedStep`, `CountStep`, `LayoutStep`, `SummedStep`), and `DescribedStep` puts them together. Reading
a schema back is the same loop from a vector that was allocated with its final length (`FirstAttribute`). Assumed
(`StructuresAssumption`): attributes are given names that differ in lower case, as `addAttribute()` checks; lowering
a name twice is lowering it once; string types have room for a character, as their factories check.

**Columns and cursors.** Filling a column is a loop over the order in which it is filled, and so is reading it back. The
loop keeps that the cells written so far hold their values and that the bitmap marks those of
them that were given NULL, whichever way each was written (`ValueWritten`, `ColumnFilled`, `ColumnReadBack`). A cursor's state is a position
among all tuples, while the moves count the tuples it visits. What relates the two is a rank: a cursor
stands at the k-th tuple if its position is an id that is visited and k - 1 of them lie before it (`StandsIn`). `next()` and
`previous()` search for a bit forwards or backwards, and raise or lower the rank by one because there is no
one in between (`Advanced`, `Retreated`, from `SearchFacts` of bit vectors); an ordered adapter stands
at an index of its sequence. So after any moves the cursor stands where they lead (`CursorsStand`), also
before the first and behind the last tuple, and each answer follows from where it stands (`EndsFound`,
`PositionFound`, `VisitedBelow`, `TupleRead`). Assumed (`ArgumentsAssumption`): the values of a type are
of that type, or NULL if it is nullable. The moves do not leave the position before the first tuple backwards
nor the one behind the last forwards (`Legal`), which the code has no meaning for.

The theorems of `ValueCallsProofs` are stated of `ValueSpec`, whose behaviours are the calls of `data_calls` on
types, signatures, values, datetimes, bit vectors, columns, cursors and structures. Their invariant (`ValueInv`) says that a call is one that can
be made and that what it has returned is right; each kind of call is one lemma.

Only model-checked: all liveness (`EmitsWhatIsDue`, `CalculateReturns`,
`PendingWriterGetsIn`, `SomeoneGetsIn`, `WaitersMoveOn`), since the proof system does not
cover fairness and ENABLED; and the invariants of `data_calls` on expressions and graphs.
`EveryPathComputesTheSame`, `EveryPathMatchesTheSame`, `WrittenIsReadBack` and `StagesFollowTheLinks` compare
recursive operators over trees of expressions, protos and graphs, which the provers cannot expand.
`OrdersAgree`, a part of `EveryPathMatchesTheSame`, is about sorted sequences of
three values, where sorting is an operator of the library that takes an operator as a parameter. Where a proof
needed an induction it is done by the least counterexample. The violations of section 4 are traces, and need no
proof.

## 6. What is not modelled

`PROJECT.json` lists every part with its reason. In short:

- The window operator: its spec does not compile. Handles of COUNT, SUM, MAX and MIN: there are none.
- The width of integers and the arithmetic of floating point, but for coercions and casts, which wrap and round:
  results are terms. So the overflow of a sum is not seen, nor the rounding of an average, nor a comparison of numbers
  that one of the types cannot tell apart; and a LONG has no range. A floating point number that is out of the
  range of an `int` is not cast to one, which C++ leaves undefined.
- Formatting: display names, columns of printed tables, messages, hexadecimal dumps. Texts of values
  are modelled as far as they can be parsed again.
- Memory, beyond the bytes of one value: the outputs of `next()` keep references into a
  column that is freed on return (`StreamingSelectOperator.cpp:91`), which is listed as a hazard; pointers that outlive a lock.
- Protos that the program does not write, except those its validation tells apart: a schema with attributes
  missing is refused before it is built, so that a restored schema has no gaps.
- `clone()`, pointers to parents, dropping a database (it does what dropping a relation does).
- The platform's mutexes and threads; `BloomFilter` and `PrimeNumber`, which nothing uses;
  `ShardedLockManager`, which nothing creates; utilities without state.
- Crashes and lost messages: nothing is stored and nothing is sent.

## 7. Plan

Done, in this order: window aggregation, the shared mutexes, the queue, the
catalog, the select path; types, dates, operations, comparisons, expressions with
their protos and joins, schemas, containers, the DAG, ownership of values. Left:

1. Integers of their width, in the kernels of the arithmetic operations and in the running sum.
2. Months subtracted with a negative interval, as a state without a promise after the read beside
   the table.
3. Dropping databases; two databases that share a relation.
