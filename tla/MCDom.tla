--------------------------------- MODULE MCDom ---------------------------------
(***************************************************************************)
(* A small instance of Dom for TLC: a document with a paragraph, a link    *)
(* in it, and two spare nodes for copies and new content.                  *)
(***************************************************************************)
EXTENDS Dom

CONSTANTS doc, para, link, s1, s2

MCNodes == {doc, para, link, s1, s2}
MCTree == doc :> <<para>> @@ para :> <<link>> @@ link :> <<>>
MCNames == doc :> "#document" @@ para :> "p" @@ link :> "a"
MCKeys == doc :> {} @@ para :> {} @@ link :> {"x"}

Do(op, n, type, h, selector, other, to) ==
  [op |-> op, n |-> n, type |-> type, h |-> h, selector |-> selector, other |-> other, to |-> to]
Plain(op, n) == Do(op, n, "", "", NoSelector, None, None)
Bind1(op, n, type, h) == Do(op, n, type, h, NoSelector, None, None)
With(op, n, other) == Do(op, n, "", "", NoSelector, other, None)
In(n, type, h, selector) == Do("on", n, type, h, selector, None, None)

MCBindings ==
  {Bind1("on", para, "click", "f"), Bind1("one", para, "click", "f"),
   Bind1("on", para, "mouseenter", "f"), Bind1("on", link, "click", "g"), Bind1("on", para, "focusin", "g"),
   In(para, "click", "f", <<"a">>), In(para, "focus", "f", <<"a">>), In(doc, "click", "g", <<"p", "a">>),
   Do("one", para, "focus", "f", <<"a">>, None, None)}
MCUnbindings ==
  {Plain("off", para), Do("off", para, "click", "", <<"a">>, None, None),
   Do("off", para, "focus", "", NoSelector, None, None), Do("off", para, "focus", "", <<"a">>, None, None)}
MCData ==
  {Plain("data", para), Plain("read", link), Plain("readAll", link), Plain("readAll", doc),
   Plain("removeData", para)}
MCTreeCalls ==
  {Plain("remove", link), Plain("remove", para), Plain("detach", link), Plain("empty", para),
   Plain("cloneAll", para), Plain("cloneOwn", para), Plain("clone", link), Do("html", para, "a", "", NoSelector, None, None),
   With("append", doc, link), With("prepend", doc, link), With("before", para, link),
   With("after", para, link), With("append", s1, link), With("replaceWith", para, s1),
   With("replaceWith", para, link), With("replaceWith", para, para),
   Do("appendBoth", doc, "", "", NoSelector, link, para)}
MCEvents ==
  {Bind1("trigger", link, "click", ""), Bind1("trigger", para, "click", ""),
   Bind1("trigger", link, "focus", ""), Bind1("triggerHandler", para, "click", ""),
   Bind1("happens", link, "click", ""), Do("happens", link, "mouseover", "", NoSelector, para, None),
   Bind1("happens", link, "focus", "")}
MCCalls == MCBindings \union MCUnbindings \union MCData \union MCTreeCalls \union MCEvents
===============================================================================
