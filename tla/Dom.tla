----------------------------------- MODULE Dom -----------------------------------
(***************************************************************************)
(* jQuery and the tree of a page: handlers are bound and removed, nodes    *)
(* are moved, copied and removed with what jQuery keeps about them (module *)
(* DomBooks), and events run handlers that may do all of this themselves.  *)
(* Scripts and text are left out.  "agenda" is as in module Deferred.      *)
(***************************************************************************)
EXTENDS DomBooks

CONSTANTS Tree,      \* the nodes below each node at the start
          Names,     \* the nodeName of each node of this tree
          Keys,      \* the attributes data-* of each node of this tree
          Calls,     \* the calls of the user, and of handlers, and events in the browser
          Returns,   \* what handlers may do: "go", "false", "stop", "stopNow", "throw"
          MaxCalls   \* bound on calls

ASSUME DomAssumption ==
  /\ Doc \in Nodes
  /\ DOMAIN Tree \subseteq Nodes /\ DOMAIN Names = DOMAIN Tree /\ DOMAIN Keys = DOMAIN Tree
  /\ Returns \subseteq {"go", "false", "stop", "stopNow", "throw"}
  /\ MaxCalls \in Nat

VARIABLES
  dom,     \* the tree and the books: see Init, and module DomBooks
  agenda,  \* events in progress and handlers that are running, the innermost first
  calls,   \* calls made so far
  bound    \* history: the bindings there should be

vars == <<dom, agenda, calls, bound>>

At(f, n, other) == IF n \in DOMAIN f THEN f[n] ELSE other

Init ==
  /\ dom = [kids |-> [n \in Nodes |-> At(Tree, n, <<>>)],
            name |-> [n \in Nodes |-> At(Names, n, "")],
            attributes |-> [n \in Nodes |-> At(Keys, n, {})],
            id |-> [n \in Nodes |-> 0], cache |-> <<>>, deletedIds |-> <<>>, guid |-> 1,
            listeners |-> [n \in Nodes |-> {}], attaches |-> 0, forgotten |-> 0,
            active |-> None, serial |-> 0]
  /\ agenda = <<>> /\ calls = 0 /\ bound = {}

-------------------------------------------------------------------------------
(* The tree.                                                                  *)

Made(n) == dom.name[n] # ""

Parent(d, n) ==
  IF \E p \in Nodes : Contains(d.kids[p], n) THEN CHOOSE p \in Nodes : Contains(d.kids[p], n)
  ELSE None

\* A node, its parent, and so on up to the root; and a node and all below it.
Chain(d, n) ==
  LET up[m \in Nodes] ==
        LET p == Parent(d, m) IN IF p = None THEN <<m>> ELSE <<m>> \o up[p]
  IN up[n]
Subtree(d, n) ==
  LET down[m \in Nodes] ==
        <<m>> \o FlattenSeq([i \in DOMAIN d.kids[m] |-> down[d.kids[m][i]]])
  IN down[n]
Below(d, n) == Tail(Subtree(d, n))
Within(d, n, m) == Contains(Subtree(d, n), m)
InPage(d, n) == Within(d, Doc, n)

\* The browser takes the focus from what leaves the page.
Detach(d, n) ==
  [d EXCEPT !.kids = [p \in Nodes |-> SelectSeq(d.kids[p], LAMBDA m : m # n)],
            !.active = IF @ # None /\ Within(d, n, @) THEN None ELSE @]

NextSibling(d, n) ==
  LET kids == d.kids[Parent(d, n)]
      place == CHOOSE i \in DOMAIN kids : kids[i] = n
  IN IF place = Len(kids) THEN None ELSE kids[place + 1]

\* insertBefore, or appendChild when "next" is None.
Insert(d, parent, n, next) ==
  LET kids == d.kids[parent]
      place == IF next = None THEN Len(kids) + 1
               ELSE CHOOSE i \in DOMAIN kids : kids[i] = next
  IN [d EXCEPT !.kids[parent] = InsertAt(kids, place, n)]

\* The element that a selector, a sequence of names of ancestors and the element, is
\* asked about, within a context.
Matches(d, selector, n, context) ==
  LET hits[i \in DOMAIN selector] ==
        {m \in Nodes :
           LET above == ToSet(Tail(Chain(d, m)))
           IN /\ d.name[m] = selector[i]
              /\ IF i = 1 THEN context = Doc \/ context \in above
                 ELSE above \cap hits[i - 1] # {}}
  IN n \in hits[Len(selector)]

-------------------------------------------------------------------------------
(* Copies.                                                                    *)

Spare(d) == {n \in Nodes : d.name[n] = ""}
Copyable(d, n) == Len(Subtree(d, n)) <= Cardinality(Spare(d))
CopyOf(d, n) ==
  LET spare == SetToSeq(Spare(d))
      nodes == Subtree(d, n)
  IN [m \in ToSet(nodes) |-> spare[CHOOSE i \in DOMAIN nodes : nodes[i] = m]]

\* cloneNode(true) copies neither listeners nor expandos.
CloneNode(d, n) ==
  LET copy == CopyOf(d, n)
      original(m) == CHOOSE o \in DOMAIN copy : copy[o] = m
      new == {copy[o] : o \in DOMAIN copy}
  IN [d EXCEPT !.kids = [m \in Nodes |-> IF m \in new
                           THEN [i \in DOMAIN @[original(m)] |-> copy[@[original(m)][i]]] ELSE @[m]],
               !.name = [m \in Nodes |-> IF m \in new THEN @[original(m)] ELSE @[m]],
               !.attributes = [m \in Nodes |-> IF m \in new THEN @[original(m)] ELSE @[m]]]

\* Handlers of a copy get numbers of their own.
Renumbered(d, handler) == [handler EXCEPT !.nr = @ + d.serial]

\* cloneCopyEvent up to the handlers: the entry is taken over but for handle and events.
\* Mutant: the copy keeps the handle of the original.
TakeOverWithHandle(d, source, copy) ==
  WithEntry(d, copy, [Entry(d, source) EXCEPT !.events = <<>>])
TakeOver(d, source, copy) ==
  WithEntry(d, copy, [Entry(d, source) EXCEPT !.events = <<>>, !.handle = None])

CopyEvents(d, source, copy) ==
  LET events == Entry(d, source).events
      each(type, handlers, to) ==
        FoldLeft(LAMBDA done, handler : Bind(done, copy, type, Renumbered(d, handler)), to, handlers)
  IN IF IsEmpty(Entry(d, source)) THEN d
     ELSE FoldSet(LAMBDA type, to : each(type, events[type].list, to),
                  TakeOver(d, source, copy), DOMAIN events)

\* jQuery.clone: with the data and handlers of no node, of the node, or of all.
Clone(d, n, whose) ==
  LET copy == CopyOf(d, n)
      from == IF whose = "none" THEN <<>> ELSE IF whose = "own" THEN <<n>> ELSE Subtree(d, n)
      copied == FoldLeft(LAMBDA to, m : CopyEvents(to, m, copy[m]), CloneNode(d, n), from)
  IN [copied EXCEPT !.serial = 2 * @]

BoundToCopies(d, b, n, whose) ==
  LET copy == CopyOf(d, n)
      from == IF whose = "none" THEN {} ELSE IF whose = "own" THEN {n} ELSE DOMAIN copy
  IN b \union {[Renumbered(d, x) EXCEPT !.at = copy[x.at]] : x \in {y \in b : y.at \in from}}

-------------------------------------------------------------------------------
(* What is on the agenda.                                                     *)

IsNext(op) == agenda # <<>> /\ Head(agenda).op = op
Idle == agenda = <<>>

\* An event that goes along a path of elements, each with the type it has there.  At the
\* element "at", handlers are queued with the element they are called on.
Event(kind, type, target, related, path) ==
  [op |-> "event", kind |-> kind, type |-> type, target |-> target, related |-> related,
   path |-> path, at |-> None, queue |-> <<>>, now |-> None, prevented |-> FALSE,
   called |-> <<>>]
Typed(nodes, type) == [i \in DOMAIN nodes |-> <<nodes[i], type>>]
Bubbling(d, kind, type, target, related) ==
  Event(kind, type, target, related, Typed(Chain(d, target), type))

\* jQuery.event.trigger determines the path in advance.
TriggerPath(d, n, type, only) ==
  <<<<n, BindType(type)>>>> \o
  IF only THEN <<>>
  ELSE Typed(IF type = "focus" THEN Chain(d, n) ELSE Tail(Chain(d, n)), DelegateType(type))

\* An element gets the focus: what jQuery has put on the document captures it, and
\* simulates an event that bubbles.
Focus(d, n) ==
  (IF d.attaches > 0 THEN <<Bubbling(d, "trigger", "focusin", n, None)>> ELSE <<>>)
  \o <<Event("native", "focus", n, None, <<<<n, "focus">>>>)>>

\* The target and what is above it, below the element "at" if that is above.
Inside(d, at, target) ==
  LET above == Chain(d, target)
      end == SelectInSeq(above, LAMBDA n : n = at)
  IN IF end = 0 THEN above ELSE SubSeq(above, 1, end - 1)

\* jQuery.event.handlers: the delegates from the target up to this element, then the rest.
Queue(d, at, type, target) ==
  LET handlers == Handlers(d, at, type)
      delegates == SubSeq(handlers.list, 1, handlers.delegates)
      direct == SubSeq(handlers.list, handlers.delegates + 1, Len(handlers.list))
      matching(n) == SelectSeq(delegates, LAMBDA handler : Matches(d, handler.selector, n, at))
      items(n, list) == [i \in DOMAIN list |-> [on |-> n, handler |-> list[i]]]
      inside == Inside(d, at, target)
  IN FlattenSeq([i \in DOMAIN inside |-> items(inside[i], matching(inside[i]))]) \o items(at, direct)

-------------------------------------------------------------------------------
(* Calls.                                                                     *)

Silently == UNCHANGED agenda

On(c) ==
  LET handler == Handler(c.type, c.h, c.selector, c.op = "one", dom.serial + 1)
  IN /\ c.op \in {"on", "one"}
     /\ dom' = Add([dom EXCEPT !.serial = @ + 1], c.n, c.type, handler)
     /\ bound' = bound \union {[at |-> c.n] @@ handler}
     /\ Silently

\* What off() leaves of the bindings: all that differ in something it names, and those it
\* does not look for, as delegated handlers for "focus" when no selector is given.
BoundAs(type, selector) == IF selector = NoSelector THEN BindType(type) ELSE DelegateType(type)
Unbound(b, n, asked) ==
  {x \in b : \/ x.at # n
             \/ /\ asked.type # ""
                /\ \/ asked.type # x.origType
                   \/ BoundAs(asked.type, asked.selector) # BoundAs(x.origType, x.selector)
             \/ asked.h # "" /\ asked.h # x.h
             \/ asked.selector # NoSelector /\ asked.selector # x.selector}

Off(c) ==
  /\ c.op = "off"
  /\ dom' = Unbind(dom, c.n, Asked(c.type, c.h, c.selector))
  /\ bound' = Unbound(bound, c.n, Asked(c.type, c.h, c.selector))
  /\ Silently

DataCall(c) ==
  /\ \/ c.op = "data" /\ dom' = Data(dom, c.n, {"x"})
     \/ c.op = "read" /\ dom' = Read(dom, c.n, "x")
     \/ c.op = "readAll" /\ dom' = ReadAll(dom, c.n)
     \/ c.op = "removeData" /\ dom' = RemoveData(dom, c.n, "x")
  /\ UNCHANGED bound /\ Silently

CleanedFrom(b, nodes) == {x \in b : ~Contains(nodes, x.at)}

RemoveNode(c) ==
  /\ c.op = "remove"
  /\ dom' = Detach(CleanData(dom, Subtree(dom, c.n)), c.n)
  /\ bound' = CleanedFrom(bound, Subtree(dom, c.n))
  /\ Silently

DetachNode(c) ==
  /\ c.op = "detach"
  /\ dom' = Detach(dom, c.n)
  /\ UNCHANGED bound /\ Silently

Emptied(d, n) ==
  FoldLeft(LAMBDA to, kid : Detach(to, kid), CleanData(d, Below(d, n)), d.kids[n])

\* empty(), and html() of a string that makes one element of the name c.type
EmptyNode(c) ==
  /\ c.op = "empty"
  /\ dom' = Emptied(dom, c.n)
  /\ bound' = CleanedFrom(bound, Below(dom, c.n))
  /\ Silently
Html(c) ==
  /\ c.op = "html"
  /\ \E new \in Spare(dom) :
       /\ new = Head(SetToSeq(Spare(dom)))
       /\ dom' = Insert([Emptied(dom, c.n) EXCEPT !.name[new] = c.type], c.n, new, None)
  /\ bound' = CleanedFrom(bound, Below(dom, c.n))
  /\ Silently

CloneCall(c) ==
  /\ c.op \in {"clone", "cloneOwn", "cloneAll"} /\ Copyable(dom, c.n)
  /\ LET whose == IF c.op = "clone" THEN "none" ELSE IF c.op = "cloneOwn" THEN "own" ELSE "all"
     IN /\ dom' = Clone(dom, c.n, whose)
        /\ bound' = BoundToCopies(dom, bound, c.n, whose)
  /\ Silently

\* append(), prepend(), before() and after() for one element; the content is taken from
\* where it is before the place is looked at.
MoveNode(c) ==
  LET moved == Detach(dom, c.other)
      beside == c.op \in {"before", "after"}
      parent == IF beside THEN Parent(moved, c.n) ELSE c.n
      next == IF c.op = "before" THEN c.n
              ELSE IF c.op = "after" THEN NextSibling(moved, c.n)
              ELSE IF c.op = "prepend" /\ moved.kids[c.n] # <<>> THEN Head(moved.kids[c.n])
              ELSE None
  IN /\ c.op \in {"append", "prepend", "before", "after"} /\ ~Within(dom, c.other, c.n)
     /\ dom' = IF parent = None THEN moved ELSE Insert(moved, parent, c.other, next)
     /\ UNCHANGED bound /\ Silently

\* append() to two elements: the first one gets a copy with all data and handlers.
AppendToBoth(c) ==
  LET moved == Detach(dom, c.other)
      copied == Insert(Clone(moved, c.other, "all"), c.n, CopyOf(moved, c.other)[c.other], None)
  IN /\ c.op = "appendBoth" /\ Made(c.to) /\ Copyable(dom, c.other)
     /\ ~Within(dom, c.other, c.n) /\ ~Within(dom, c.other, c.to)
     /\ dom' = Insert(copied, c.to, c.other, None)
     /\ bound' = BoundToCopies(moved, bound, c.other, "all")
     /\ Silently

\* replaceWith for an element with a parent: "next" and the parent are noted before the
\* content is taken from where it is.
Replaced(d, n, other) ==
  LET next == NextSibling(d, n)
      taken == Detach(d, other)
      place == IF next = other /\ n # other THEN NextSibling(taken, n) ELSE next
      removed == Detach(CleanData(taken, Subtree(taken, n)), n)
  IN Insert(removed, Parent(d, n), other, place)

ReplaceNode(c) ==
  /\ c.op = "replaceWith" /\ Parent(dom, c.n) # None
  /\ ~Within(dom, c.other, c.n) \/ c.other = c.n
  /\ dom' = Replaced(dom, c.n, c.other)
  /\ bound' = CleanedFrom(bound, Subtree(IF c.n = c.other THEN dom ELSE Detach(dom, c.other), c.n))
  /\ Silently

\* trigger(type): focus() goes the way of the browser, unless the element has the focus.
Trigger(c) ==
  /\ c.op = "trigger"
  /\ IF c.type = "focus" /\ dom.active # c.n
     THEN IF InPage(dom, c.n)
          THEN dom' = [dom EXCEPT !.active = c.n] /\ agenda' = Focus(dom, c.n) \o agenda
          ELSE UNCHANGED dom /\ Silently
     ELSE /\ UNCHANGED dom
          /\ agenda' = <<Event("trigger", c.type, c.n, None, TriggerPath(dom, c.n, c.type, FALSE))>>
                       \o agenda
  /\ UNCHANGED bound
TriggerHandler(c) ==
  /\ c.op = "triggerHandler"
  /\ agenda' = <<Event("only", c.type, c.n, None, TriggerPath(dom, c.n, c.type, TRUE))>> \o agenda
  /\ UNCHANGED <<dom, bound>>

\* The user of the browser clicks, moves the mouse from c.other, or moves the focus.
Happens(c) ==
  /\ c.op = "happens" /\ Idle /\ InPage(dom, c.n)
  /\ IF c.type = "focus"
     THEN /\ dom.active # c.n /\ dom' = [dom EXCEPT !.active = c.n]
          /\ agenda' = Focus(dom, c.n)
     ELSE /\ agenda' = <<Bubbling(dom, "native", c.type, c.n, c.other)>>
          /\ UNCHANGED dom
  /\ UNCHANGED bound

Call ==
  /\ Idle \/ IsNext("run")
  /\ calls < MaxCalls
  /\ \E c \in Calls :
       /\ Made(c.n) /\ (c.other # None => Made(c.other))
       /\ \/ On(c) \/ Off(c) \/ DataCall(c) \/ RemoveNode(c) \/ DetachNode(c) \/ EmptyNode(c)
          \/ Html(c) \/ CloneCall(c) \/ MoveNode(c) \/ AppendToBoth(c) \/ ReplaceNode(c)
          \/ Trigger(c) \/ TriggerHandler(c) \/ Happens(c)
  /\ calls' = calls + 1

-------------------------------------------------------------------------------
(* Events.                                                                    *)

\* The element whose handle the event runs at its next element, if any: the browser has
\* listeners, trigger() looks for handlers.  Mutant: the second event of trigger() is not
\* discarded.
HandledTwice(event) ==
  LET n == event.path[1][1]
      type == event.path[1][2]
  IN IF event.kind \in {"native", "quiet"}
     THEN {l[2] : l \in {x \in dom.listeners[n] : x[1] = type}}
     ELSE IF Handlers(dom, n, type).list # <<>> THEN {Entry(dom, n).handle} \ {None} ELSE {}
Handled(event) ==
  LET n == event.path[1][1]
      type == event.path[1][2]
  IN IF event.kind = "quiet" THEN {}
     ELSE IF event.kind = "native" THEN {l[2] : l \in {x \in dom.listeners[n] : x[1] = type}}
     ELSE IF Handlers(dom, n, type).list # <<>> THEN {Entry(dom, n).handle} \ {None} ELSE {}

\* The event comes to the next element of its path, and dispatch fixes its handlers.
Reach ==
  /\ IsNext("event") /\ Head(agenda).queue = <<>> /\ Head(agenda).path # <<>>
  /\ LET event == Head(agenda)
         next == [event EXCEPT !.path = Tail(@)]
     IN IF Handled(event) = {} THEN agenda' = <<next>> \o Tail(agenda)
        ELSE \E at \in Handled(event) :
               agenda' = <<[next EXCEPT !.at = at,
                                        !.queue = Queue(dom, at, event.path[1][2], event.target)]>>
                         \o Tail(agenda)
  /\ UNCHANGED <<dom, calls, bound>>

\* A handler for mouseenter is not called when the mouse comes from inside.
Ignored(event, item) ==
  /\ item.handler.origType = "mouseenter" /\ event.related # None
  /\ Within(dom, item.on, event.related)

\* dispatch calls a handler.  One that is bound with one() first removes itself, and with
\* it all bindings of its function for the type.
Handle ==
  /\ IsNext("event") /\ Head(agenda).queue # <<>>
  /\ LET event == Head(agenda)
         item == Head(event.queue)
         handler == item.handler
         asked == Asked(handler.origType, handler.h, handler.selector)
         called == [event EXCEPT !.queue = Tail(@), !.now = item.on,
                                 !.called = Append(@, <<item.on, handler.nr>>)]
     IN IF Ignored(event, item)
        THEN /\ agenda' = <<[event EXCEPT !.queue = Tail(@)]>> \o Tail(agenda)
             /\ UNCHANGED <<dom, bound>>
        ELSE /\ agenda' = <<[op |-> "run"], called>> \o Tail(agenda)
             /\ dom' = IF handler.one THEN Unbind(dom, event.at, asked) ELSE dom
             /\ bound' = IF handler.one THEN Unbound(bound, event.at, asked) ELSE bound
  /\ UNCHANGED calls

\* A handler returns, after it has perhaps stopped the event.
Return ==
  /\ IsNext("run")
  /\ LET event == agenda[2]
         here == SelectSeq(event.queue, LAMBDA item : item.on = event.now)
     IN \E how \in Returns \ {"throw"} :
          agenda' = <<IF how = "go" THEN event
                      ELSE [event EXCEPT !.path = <<>>, !.prevented = @ \/ (how = "false"),
                                         !.queue = IF how = "stopNow" THEN <<>> ELSE here]>>
                    \o SubSeq(agenda, 3, Len(agenda))
  /\ UNCHANGED <<dom, calls, bound>>

\* A handler throws: trigger() throws, and so on, up to a listener, which the browser ends.
Throw ==
  /\ IsNext("run") /\ "throw" \in Returns
  /\ LET listeners == {i \in DOMAIN agenda : agenda[i].op = "event" /\ agenda[i].kind = "native"}
     IN agenda' = IF listeners = {} THEN <<>>
                  ELSE LET i == Min(listeners)
                       IN <<[agenda[i] EXCEPT !.queue = <<>>]>> \o SubSeq(agenda, i + 1, Len(agenda))
  /\ UNCHANGED <<dom, calls, bound>>

\* The event is over.  After trigger() the default action follows: click() of the element,
\* unless it is a link, which makes the browser send the event once more.
Over ==
  /\ IsNext("event") /\ Head(agenda).queue = <<>> /\ Head(agenda).path = <<>>
  /\ LET event == Head(agenda)
         clicks == /\ event.kind = "trigger" /\ event.type = "click" /\ ~event.prevented
                   /\ event.target # Doc /\ dom.name[event.target] # "a"
     IN agenda' = IF clicks
                  THEN <<[Bubbling(dom, "quiet", "click", event.target, None)
                            EXCEPT !.called = event.called]>> \o Tail(agenda)
                  ELSE Tail(agenda)
  /\ UNCHANGED <<dom, calls, bound>>

Wait == Idle /\ UNCHANGED vars

Next == Call \/ Reach \/ Handle \/ Return \/ Throw \/ Over \/ Wait

Spec == Init /\ [][Next]_vars

-------------------------------------------------------------------------------
(* What should hold.                                                          *)

\* No two elements have the same id in the cache of jQuery.data, an id is either in use
\* or in core_deletedIds, once, to be used again, none is lost, and no entry is left that
\* is empty, but for one of the document, which data() makes.
IdsOwned ==
  LET used == {dom.id[n] : n \in Nodes} \ {0}
  IN /\ \A m, n \in Nodes : (m # n /\ dom.id[m] = dom.id[n]) => dom.id[m] = 0
     /\ DOMAIN dom.cache = used
     /\ IsInjective(dom.deletedIds)
     /\ used \intersect ToSet(dom.deletedIds) = {}
     /\ used \union ToSet(dom.deletedIds) = 1..(dom.guid - 1)
     /\ \A i \in DOMAIN dom.cache : IsEmpty(dom.cache[i]) => i = dom.id[Doc]

\* The browser has one listener for each element and type with handlers, and it is the one
\* of this element; and the listener on the document is there as long as an element has
\* handlers for focusin.  An element still counts, once for each time, that is removed while
\* "focus" is delegated there, or where off("focus", selector) or one() takes the last of
\* such handlers.
ListenersMatch ==
  LET types(n) == DOMAIN Entry(dom, n).events
  IN /\ \A n \in Nodes : /\ dom.listeners[n] = {<<type, n>> : type \in types(n) \ SetUp}
                         /\ Entry(dom, n).handle = (IF types(n) = {} THEN None ELSE n)
     /\ dom.attaches = Cardinality({n \in Nodes : SetUp \intersect types(n) # {}}) + dom.forgotten

\* The handlers that an event would run at an element are those that were bound to it and
\* not removed, by off(), with the element, or as it ran once; copies included.  First come
\* the delegates, from the target up, then the others, each in the order they were bound.
\* off("focus") does not remove handlers that are delegated, off("focus", selector) does.
InOrder(bindings) == SetToSortSeq(bindings, LAMBDA a, b : a.nr < b.nr)
RunsWhatIsBound ==
  \A at \in {n \in Nodes : Made(n)} :
  \A type \in {BoundAs(b.origType, b.selector) : b \in bound} \union DOMAIN Entry(dom, at).events :
    LET mine == {b \in bound : b.at = at /\ BoundAs(b.origType, b.selector) = type}
        numbers(n, bindings) == [k \in DOMAIN bindings |-> <<n, bindings[k].nr>>]
        direct == InOrder({b \in mine : b.selector = NoSelector})
        on(n) == InOrder({b \in mine : b.selector # NoSelector /\ Matches(dom, b.selector, n, at)})
        due(inside) == FlattenSeq([i \in DOMAIN inside |-> numbers(inside[i], on(inside[i]))])
                       \o numbers(at, direct)
    IN IF mine = {} THEN Handlers(dom, at, type).list = <<>>
       ELSE \A target \in {n \in Nodes : Made(n)} :
              LET queue == Queue(dom, at, type, target)
              IN due(Inside(dom, at, target)) = [i \in DOMAIN queue |-> <<queue[i].on, queue[i].handler.nr>>]

\* An event calls no handler twice on an element: not when trigger() makes the browser
\* send it again, and not when the tree or the handlers change meanwhile.
OncePerEvent == \A i \in DOMAIN agenda : agenda[i].op = "event" => IsInjective(agenda[i].called)
===============================================================================
