------------------------------ MODULE CallbackList ------------------------------
(***************************************************************************)
(* jQuery.Callbacks: the list behind deferreds, ready handlers and the     *)
(* answers of requests, as operators on its record.  "memory" is empty     *)
(* when false; "open" says that the stack exists, which it does not with   *)
(* the option once and after lock().  Indices start at 0 as in the code.   *)
(***************************************************************************)
EXTENDS Integers, FiniteSets, SequencesExt

Options == {"once", "memory", "unique", "stopOnFalse"}

\* Callbacks(options)
NewCallbacks(options) ==
  [options |-> options, list |-> <<>>, disabled |-> FALSE, open |-> "once" \notin options,
   stack |-> <<>>, memory |-> <<>>, fired |-> FALSE, firing |-> FALSE,
   firingLength |-> 0, firingIndex |-> 0]

\* Mutant: "fired" is not set.
StartFireAgain(cb, data, start) ==
  [cb EXCEPT !.memory = <<data>>, !.firing = TRUE, !.firingIndex = start, !.firingLength = Len(cb.list)]

\* fire(data) up to its loop; "start" is firingStart.
StartFire(cb, data, start) ==
  [cb EXCEPT !.memory = IF "memory" \in cb.options THEN <<data>> ELSE <<>>,
             !.fired = TRUE, !.firing = TRUE,
             !.firingIndex = start, !.firingLength = Len(cb.list)]

\* The test of the loop, and the callback it comes to.
GoesOn(cb) == ~cb.disabled /\ cb.firingIndex < cb.firingLength
Current(cb) == cb.list[cb.firingIndex + 1]

Disable(cb) ==
  [cb EXCEPT !.disabled = TRUE, !.list = <<>>, !.open = FALSE, !.stack = <<>>, !.memory = <<>>]

\* The end of fire(): the next fire that was asked for meanwhile, a list that has
\* fired for good, or a list that is left as it is.
FiresAgain(cb) == ~cb.disabled /\ cb.open /\ cb.stack # <<>>
EndFire(cb) ==
  IF cb.disabled THEN [cb EXCEPT !.firing = FALSE]
  ELSE IF FiresAgain(cb)
       THEN StartFire([cb EXCEPT !.stack = Tail(@)], Head(cb.stack), 0)
  ELSE IF cb.open THEN [cb EXCEPT !.firing = FALSE]
  ELSE IF cb.memory # <<>> THEN [cb EXCEPT !.firing = FALSE, !.list = <<>>]
  ELSE Disable([cb EXCEPT !.firing = FALSE])

\* add(f): a list with memory that is not firing fires the new one at once.
Push(cb, f) ==
  IF "unique" \in cb.options /\ f \in ToSet(cb.list) THEN cb
  ELSE [cb EXCEPT !.list = Append(@, f)]

\* Mutant: a list that has fired for good takes no more calls.
FiresOnAddOpen(cb) == ~cb.disabled /\ ~cb.firing /\ cb.memory # <<>> /\ cb.open

FiresOnAdd(cb) == ~cb.disabled /\ ~cb.firing /\ cb.memory # <<>>
Add(cb, f) ==
  LET longer == Push(cb, f)
  IN IF cb.disabled THEN cb
     ELSE IF cb.firing THEN [longer EXCEPT !.firingLength = Len(longer.list)]
     ELSE IF FiresOnAdd(cb) THEN StartFire(longer, cb.memory[1], Len(cb.list))
     ELSE longer

\* A list without what is at these positions.
Without(list, gone) ==
  LET left == (DOMAIN list) \ gone
      kept == CHOOSE s \in [1..Cardinality(left) -> left] :
                \A j, k \in DOMAIN s : j < k => s[j] < s[k]
  IN [j \in DOMAIN kept |-> list[kept[j]]]

\* Mutant: the callback that is running removes itself and the next one is skipped.
RemoveFnBelow(cb, f) ==
  LET gone == {k \in DOMAIN cb.list : cb.list[k] = f}
      Moved(n) == IF cb.firing THEN n - Cardinality({k \in gone : k - 1 < n}) ELSE n
  IN [cb EXCEPT !.list = Without(@, gone),
                !.firingLength = Moved(@), !.firingIndex = Moved(@)]

\* remove(f): every f leaves the list.  A loop that is running is put right, by one for
\* each f at or below its index; an f above it stays above it while others leave.
RemoveFn(cb, f) ==
  LET gone == {k \in DOMAIN cb.list : cb.list[k] = f}
      Moved(n) == IF cb.firing THEN n - Cardinality({k \in gone : k - 1 <= n}) ELSE n
  IN [cb EXCEPT !.list = Without(@, gone),
                !.firingLength = Moved(@), !.firingIndex = Moved(@)]

\* empty() also gives a disabled list its list back.
Empty(cb) == [cb EXCEPT !.list = <<>>, !.disabled = FALSE, !.firingLength = 0]

Lock(cb) ==
  LET locked == [cb EXCEPT !.open = FALSE, !.stack = <<>>]
  IN IF cb.memory = <<>> THEN Disable(locked) ELSE locked

\* fireWith(context, data): ignored, kept for later, or the start of a loop.
Accepts(cb) == ~cb.disabled /\ (~cb.fired \/ cb.open)
Starts(cb) == Accepts(cb) /\ ~cb.firing
FireWith(cb, data) ==
  IF ~Accepts(cb) THEN cb
  ELSE IF cb.firing THEN [cb EXCEPT !.stack = Append(@, data)]
  ELSE StartFire(cb, data, 0)

===============================================================================
