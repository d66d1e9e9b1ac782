-------------------------------- MODULE DomBooks --------------------------------
(***************************************************************************)
(* What jQuery keeps about the elements of a page, as operators on a       *)
(* record "dom": the ids of elements, the cache that is indexed by them,   *)
(* with the handlers of events in it, and the listeners it has the browser *)
(* keep.  An element is a node of the tree or detached; its entry in the   *)
(* cache is private data, user data and handlers by type.  Values of data  *)
(* are left out, and namespaces of events and plain objects with data.     *)
(***************************************************************************)
EXTENDS Integers, Sequences, FiniteSets, SequencesExt, FiniteSetsExt, TLC

CONSTANTS Nodes,     \* all elements there can be, the document included
          Doc,       \* the document
          None       \* no element

ASSUME None \notin Nodes

\* A selector is a sequence of names, see Matches.
NoSelector == <<>>

\* jQuery.event.special: what a type is bound as, without and with a selector.
BindType(type) == IF type = "mouseenter" THEN "mouseover" ELSE type
DelegateType(type) ==
  IF type = "mouseenter" THEN "mouseover" ELSE IF type = "focus" THEN "focusin" ELSE type
Special == {"click", "focus", "focusin", "mouseenter"}
\* Types whose setup and teardown count attaches instead of adding a listener.
SetUp == {"focusin"}

NoEntry == [events |-> <<>>, handle |-> None, private |-> {}, data |-> {}]
NoHandlers == [list |-> <<>>, delegates |-> 0]

-------------------------------------------------------------------------------
(* Ids and the cache.                                                         *)

HasEntry(dom, e) == dom.id[e] \in DOMAIN dom.cache
Entry(dom, e) == IF HasEntry(dom, e) THEN dom.cache[dom.id[e]] ELSE NoEntry

\* internalData creates the id and the entry.
Issue(dom, e) ==
  LET reused == dom.deletedIds # <<>>
      id == IF reused THEN Last(dom.deletedIds) ELSE dom.guid
  IN [dom EXCEPT !.id[e] = id,
                 !.deletedIds = IF reused THEN Front(@) ELSE @,
                 !.guid = IF reused THEN @ ELSE @ + 1,
                 !.cache = (id :> NoEntry) @@ @]

Touch(dom, e) == IF HasEntry(dom, e) THEN dom ELSE Issue(dom, e)

WithEntry(dom, e, entry) ==
  LET touched == Touch(dom, e) IN [touched EXCEPT !.cache[touched.id[e]] = entry]

Data(dom, e, keys) == WithEntry(dom, e, [Entry(dom, e) EXCEPT !.data = @ \union keys])
PrivateData(dom, e, keys) == WithEntry(dom, e, [Entry(dom, e) EXCEPT !.private = @ \union keys])

IsEmpty(entry) == entry.events = <<>> /\ entry.private = {} /\ entry.data = {}

Dropped(dom, e, id) ==
  [dom EXCEPT !.cache = [i \in DOMAIN @ \ {id} |-> @[i]], !.id[e] = 0, !.deletedIds = Append(@, id)]

\* Mutant: cleanData does not ask whether the entry is still there.
DropAnyhow(dom, e, id) == Dropped(dom, e, id)

\* The end of cleanData for an element; "id" is what it had at first.
Drop(dom, e, id) == IF id \in DOMAIN dom.cache THEN Dropped(dom, e, id) ELSE dom

DropIfEmpty(dom, e) == IF IsEmpty(Entry(dom, e)) THEN Drop(dom, e, dom.id[e]) ELSE dom

\* removeData(key), and _removeData(elem, "events") once no handler is left.
RemoveData(dom, e, key) ==
  IF HasEntry(dom, e)
  THEN DropIfEmpty(WithEntry(dom, e, [Entry(dom, e) EXCEPT !.data = @ \ {key}]), e)
  ELSE dom
RemoveEvents(dom, e) ==
  DropIfEmpty(WithEntry(dom, e, [Entry(dom, e) EXCEPT !.handle = None]), e)

\* data(key) of a key that is not stored reads the attribute data-<key> and stores it;
\* data() does so for all of them, and notes it.  The document has no attributes, and may
\* get an entry with nothing in it.
Read(dom, e, key) == IF key \in dom.attributes[e] THEN Data(dom, e, {key}) ELSE dom
ReadAll(dom, e) ==
  IF e = Doc THEN Touch(dom, e)
  ELSE IF "parsedAttrs" \in Entry(dom, e).private THEN dom
  ELSE PrivateData(Data(dom, e, dom.attributes[e]), e, {"parsedAttrs"})

-------------------------------------------------------------------------------
(* Handlers.                                                                  *)

Handlers(dom, e, type) ==
  LET events == Entry(dom, e).events
  IN IF type \in DOMAIN events THEN events[type] ELSE NoHandlers

Handler(origType, h, selector, one, nr) ==
  [origType |-> origType, h |-> h, selector |-> selector, one |-> one, nr |-> nr]

\* The first handler of its type: setup, or a listener of the browser.
Listen(dom, e, type, handle) ==
  IF type \in SetUp THEN [dom EXCEPT !.attaches = @ + 1]
  ELSE [dom EXCEPT !.listeners[e] = @ \union {<<type, handle>>}]

\* The last one: teardown, which is looked for under the type that was asked for, or the
\* listener is removed.  "forgotten" (history) counts how often nothing is torn down where
\* setup was called.
Unlisten(dom, e, asked, type, handle) ==
  IF asked \in SetUp THEN [dom EXCEPT !.attaches = @ - 1]
  ELSE [dom EXCEPT !.listeners[e] = @ \ {<<type, handle>>},
                   !.forgotten = IF type \in SetUp THEN @ + 1 ELSE @]

\* jQuery.event.add for one type that is already mapped: delegates in front.
Bind(dom, e, type, handler) ==
  LET entry == Entry(dom, e)
      old == Handlers(dom, e, type)
      handle == IF entry.handle = None THEN e ELSE entry.handle
      new == [list |-> IF handler.selector = NoSelector THEN Append(old.list, handler)
                       ELSE InsertAt(old.list, old.delegates + 1, handler),
              delegates |-> old.delegates + IF handler.selector = NoSelector THEN 0 ELSE 1]
      bound == WithEntry(dom, e, [entry EXCEPT !.handle = handle, !.events = (type :> new) @@ @])
  IN IF old.list = <<>> THEN Listen(bound, e, type, handle) ELSE bound

Add(dom, e, type, handler) ==
  Bind(dom, e, IF handler.selector = NoSelector THEN BindType(type) ELSE DelegateType(type), handler)

\* What remove() is asked for; "" is any type, and any handler.
Asked(type, h, selector) == [type |-> type, h |-> h, selector |-> selector]
\* Mutant: the selector is not compared.
FitsAnySelector(asked, handler) ==
  /\ asked.type \in {"", handler.origType}
  /\ asked.h \in {"", handler.h}
Fits(asked, handler) ==
  /\ asked.type \in {"", handler.origType}
  /\ asked.h \in {"", handler.h}
  /\ asked.selector \in {NoSelector, handler.selector}

\* jQuery.event.remove for "origType", which handlers are bound for as "type", up to the
\* deletion of their list.
RemoveType(dom, e, origType, type, asked) ==
  LET old == Handlers(dom, e, type)
      kept == SelectSeq(old.list, LAMBDA handler : ~Fits(asked, handler))
      delegates == Cardinality({i \in DOMAIN kept : kept[i].selector # NoSelector})
      entry == Entry(dom, e)
      with == [entry EXCEPT !.events =
                 IF kept # <<>> THEN (type :> [list |-> kept, delegates |-> delegates]) @@ @
                 ELSE [t \in DOMAIN @ \ {type} |-> @[t]]]
      removed == WithEntry(dom, e, with)
  IN IF old.list = <<>> THEN dom
     ELSE IF kept = <<>> THEN Unlisten(removed, e, origType, type, entry.handle)
     ELSE removed

Unbind(dom, e, asked) ==
  LET mapped(type) == IF asked.selector = NoSelector THEN BindType(type) ELSE DelegateType(type)
      types == IF asked.type = "" THEN DOMAIN Entry(dom, e).events ELSE {asked.type}
      without == FoldSet(LAMBDA type, d : RemoveType(d, e, type, mapped(type), asked), dom, types)
  IN IF Entry(dom, e).events = <<>> THEN dom
     ELSE IF Entry(without, e).events = <<>> THEN RemoveEvents(without, e)
     ELSE without

-------------------------------------------------------------------------------
(* cleanData.                                                                 *)

\* Types with a special entry go the way of remove(), which does not know a handler
\* for "focus" that is bound as "focusin"; of the others only the listener goes.
CleanType(dom, e, type) ==
  IF type \in Special THEN Unbind(dom, e, Asked(type, "", NoSelector))
  ELSE Unlisten(dom, e, type, type, Entry(dom, e).handle)

\* Entries that are dropped with such handlers are forgotten as well.
Forget(dom, e) ==
  IF "focusin" \in DOMAIN Entry(dom, e).events THEN [dom EXCEPT !.forgotten = @ + 1] ELSE dom

CleanElement(dom, e) ==
  IF HasEntry(dom, e)
  THEN LET without == FoldSet(LAMBDA type, d : CleanType(d, e, type), dom,
                              DOMAIN Entry(dom, e).events)
       IN Drop(Forget(without, e), e, dom.id[e])
  ELSE dom

CleanData(dom, elems) == FoldLeft(LAMBDA d, e : CleanElement(d, e), dom, elems)
===============================================================================
