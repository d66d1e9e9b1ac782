---------------------------------- MODULE Page ----------------------------------
(***************************************************************************)
(* The page lire.html on top of jQuery.ajax(): what it asks of the server, *)
(* and what it shows when answers come, in whatever order.  It has only    *)
(* success callbacks; an answer of the server is known by its request.     *)
(***************************************************************************)
EXTENDS Ajax

CONSTANT MaxUnderway  \* bound on requests at the same time

\* The page has only success callbacks.
ASSUME PageAssumption == Places = {"success"}

\* The settings of $.getJSON().
Plain == [type |-> "json", crossDomain |-> FALSE, async |-> TRUE, timeout |-> FALSE, fixed |-> FALSE,
          beforeSend |-> FALSE]

VARIABLES
  ready,     \* the ready handler has been called
  asked,     \* what each request asks for
  images,    \* the requests whose images are shown, from the top
  perf,      \* the line above the results: empty, to wait, or the time of a request
  heading,   \* the heading of the results: the first one, an error, or of a request
  overlap    \* history: the requests under way when the last search was asked, and
             \* whether any two requests ever overlapped

page == <<ready, asked, images, perf, heading, overlap>>
pageVars == <<vars, page>>

None == 0
Wait4 == -1
ErrorShown == -1

PageInit ==
  /\ Init
  /\ ready = FALSE /\ asked = <<>> /\ images = <<>> /\ perf = None /\ heading = None
  /\ overlap = [last |-> {}, ever |-> FALSE]

ClearingKinds == {"tags", "search", "url"}

Ask(what, rest) ==
  /\ AjaxThen(Plain, rest)
  /\ asked' = Append(asked, what)
  /\ LET now == {r \in DOMAIN requests : Pending(r)}
     IN overlap' = [last |-> IF what \in ClearingKinds THEN now ELSE overlap.last,
                    ever |-> overlap.ever \/ now # {}]

\* The bounds leave room for the request that an answered extraction makes.
Room(n) ==
  /\ Len(requests) + Cardinality({r \in DOMAIN asked : asked[r] = "extract" /\ Pending(r)}) + n
       <= MaxRequests
  /\ Cardinality({r \in DOMAIN requests : Pending(r)}) < MaxUnderway

\* Mutant: the old images stay until there are new ones.
TagSearchKeeping(rest) ==
  /\ Ask("tags", rest)
  /\ perf' = Wait4
  /\ UNCHANGED <<ready, images, heading>>

\* tagSearchDo()
TagSearchDo(rest) ==
  /\ Ask("tags", rest)
  /\ images' = <<>>
  /\ perf' = Wait4
  /\ UNCHANGED <<ready, heading>>

\* $(document).ready(), once, at DOMContentLoaded or at load.
DomReady ==
  /\ Idle /\ ~ready
  /\ ready' = TRUE
  /\ Ask("start", <<>>)
  /\ UNCHANGED <<images, perf, heading>>

\* Return in the input field.
Keypress ==
  /\ Idle /\ Room(1)
  /\ TagSearchDo(<<>>)

SearchFor(what) ==
  /\ Room(1)
  /\ Ask(what, <<>>)
  /\ images' = <<>>
  /\ perf' = Wait4
  /\ heading' = Len(requests) + 1
  /\ UNCHANGED ready

\* A link below an image.
Search == Idle /\ images # <<>> /\ SearchFor("search")

\* A link below the input field for the address of an image.
SearchUrl == Idle /\ SearchFor("url")

Extract ==
  /\ Idle /\ images # <<>> /\ Room(2)
  /\ Ask("extract", <<>>)
  /\ UNCHANGED <<ready, images, perf, heading>>

-------------------------------------------------------------------------------
(* The success callbacks.                                                     *)

Answered(what) == IsNext("user") /\ asked[Todo.r] = what
Returns == agenda' = Rest /\ UNCHANGED <<requests, active, net, names, acts, told, fate>>

\* A tag search reads tags[0] of every document; one that has none is a TypeError, and
\* the images after it are not shown.
FailsIn(r) ==
  /\ agenda' = <<>>
  /\ fate' = [fate EXCEPT !.thrown = @ \cup {r}]
  /\ UNCHANGED <<requests, active, net, names, acts, told>>

\* New images are inserted after the heading.
Show(r) == images' = <<r>> \o images

StartAnswered ==
  /\ Answered("start")
  /\ perf' = Todo.r
  /\ Show(Todo.r)
  /\ Returns
  /\ UNCHANGED <<ready, asked, heading, overlap>>

TagsAnswered ==
  /\ Answered("tags")
  /\ perf' = Todo.r
  /\ heading' = Todo.r
  /\ \/ Show(Todo.r) /\ Returns
     \/ (Show(Todo.r) \/ UNCHANGED images) /\ FailsIn(Todo.r)
  /\ UNCHANGED <<ready, asked, overlap>>

\* Mutant: the time is only shown with images.
SearchAnsweredWaiting ==
  /\ Answered("search")
  /\ \/ Show(Todo.r) /\ perf' = Todo.r /\ UNCHANGED heading
     \/ heading' = ErrorShown /\ UNCHANGED <<images, perf>>
  /\ Returns
  /\ UNCHANGED <<ready, asked, overlap>>

\* Mutant: the heading is not changed by an error.
SearchAnsweredSilently ==
  /\ Answered("search")
  /\ perf' = Todo.r
  /\ Show(Todo.r) \/ UNCHANGED images
  /\ Returns
  /\ UNCHANGED <<ready, asked, heading, overlap>>

SearchAnswered ==
  /\ Answered("search")
  /\ perf' = Todo.r
  /\ \/ Show(Todo.r) /\ UNCHANGED heading
     \/ heading' = ErrorShown /\ UNCHANGED images
  /\ Returns
  /\ UNCHANGED <<ready, asked, overlap>>

\* Here the page does not look for an error: documents that are missing are a TypeError.
UrlAnswered ==
  /\ Answered("url")
  /\ perf' = Todo.r
  /\ \/ Show(Todo.r) /\ Returns
     \/ UNCHANGED images /\ FailsIn(Todo.r)
  /\ UNCHANGED <<ready, asked, heading, overlap>>

\* An extraction that failed without an error in its answer is taken for one that succeeded.
ExtractAnswered ==
  /\ Answered("extract")
  /\ \/ TagSearchDo(Rest)
     \/ /\ heading' = ErrorShown
        /\ Returns
        /\ UNCHANGED <<ready, asked, images, perf, overlap>>

Callbacks == StartAnswered \/ TagsAnswered \/ SearchAnswered \/ UrlAnswered \/ ExtractAnswered
PageProgram == (Machine /\ UNCHANGED page) \/ Callbacks

\* Data that cannot be parsed are an error for the page.
ServerAnswers == (AnswerWith("ok") \/ AnswerWith("error")) /\ UNCHANGED page

PageNext ==
  \/ PageProgram
  \/ DomReady \/ Keypress \/ Search \/ SearchUrl \/ Extract
  \/ ServerAnswers
  \/ Wait /\ UNCHANGED page

\* Code comes to its end and the server answers.
PageSpec ==
  /\ PageInit /\ [][PageNext]_pageVars
  /\ WF_pageVars(PageProgram) /\ WF_pageVars(ServerAnswers)

-------------------------------------------------------------------------------

Clearing == {r \in DOMAIN asked : asked[r] \in ClearingKinds}
LastOf(S) == CHOOSE r \in S : \A x \in S : x <= r

\* lire.html:121-151 ("clear the old data"): images of an older request are shown only
\* when it was still under way when the last search was asked; no request shows its
\* images twice.
ImagesRecent ==
  /\ IsInjective(images)
  /\ Clearing # {} =>
       LET c == LastOf(Clearing)
       IN \A i \in DOMAIN images : images[i] < c => images[i] \in overlap.last

\* lire.html:19-32, 119-157: when nothing is under way and no two requests ever
\* overlapped, the heading and the images are of the last search, or they tell of an
\* error, and the page waits only for a request that failed.
HeadingTells ==
  (Idle /\ Clearing # {} /\ ~overlap.ever /\ \A r \in DOMAIN requests : ~Pending(r)) =>
    LET c == LastOf(Clearing)
        later == {r \in DOMAIN asked : r > c}
        succeeded == requests[c].outcome = "success"
    IN (\A r \in later : asked[r] # "start") =>
         /\ (perf = Wait4) = ~succeeded
         /\ ToSet(images) \subseteq {c}
         /\ images # <<>> /\ later = {} => heading = c
         /\ images = <<>> /\ succeeded /\ asked[c] = "search" => heading = ErrorShown

\* lire.html:123-130: "Please stand by" is replaced, unless the request failed: there are
\* no error callbacks.
PageSettles ==
  (perf = Wait4) ~> (perf # Wait4 \/ \E r \in Clearing : requests[r].outcome = "error")

===============================================================================
