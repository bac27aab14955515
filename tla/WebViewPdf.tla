----------------------------- MODULE WebViewPdf -----------------------------
(* From HTML to PDF with the web view of the system (native-webview-pdf):      *)
(* WKWebView on macOS and iOS, WebView2 on Windows, WebKitGTK on Linux.  A     *)
(* call blocks its thread.  On Apple's systems views live on the main thread:  *)
(* a call from another thread sends the main queue a chain of blocks, which    *)
(* goes on whether the caller still waits or not.                              *)
EXTENDS Naturals, Sequences, FiniteSets

CONSTANTS
  Threads,    \* threads that render, the main thread among them
  Main,       \* the one that holds Apple's views
  MaxCalls    \* calls in one behaviour

\* "none" is the owner of GTK before the first call.
ASSUME ThreadsAssumption == "none" \notin Threads

VARIABLES
  os,
  call,       \* the calls so far
  pipes,      \* calls whose Pipeline is allocated
  pending,    \* main queue: blocks that will run, and the handler of createPDF
  com,        \* calls between CoInitializeEx and CoUninitialize
  windows,    \* calls whose hidden window exists
  gtk,        \* the thread of GTK
  prints,     \* print operations that have not ended
  file        \* the file print operations of this process write
views == <<os, call, pipes, pending, com, windows, gtk, prints, file>>

None == [kind |-> "none"]
Failed == [kind |-> "error"]
TimedOut == [kind |-> "timeout"]
Pdf(c) == [kind |-> "pdf", of |-> c]
\* What the file may hold beside a document: of an earlier process with the same id
Left == Pdf(0)
Empty == [kind |-> "empty"]

Calls == DOMAIN call
Idle(t) == \A c \in Calls : call[c].thread = t => call[c].at = "returned"
Sets(c, field, x) == call' = [call EXCEPT ![c][field] = x]
Goes(c, at) == Sets(c, "at", at)
At(c, at) == c \in Calls /\ call[c].at = at
\* A spinning caller goes on: what it had waited for is taken.
GoesOn(c, at) == call' = [call EXCEPT ![c].at = at, ![c].answer = None]
Returned(c, result) == [call EXCEPT ![c].at = "returned", ![c].result = result]
apple == <<pipes, pending>>
microsoft == <<com, windows>>
gnome == <<gtk, prints, file>>

--------------------------------------------------------------------------------
(* A call.  Its `answer` is what its condition variable, channel or flag has   *)
(* been given and it has not taken.                                            *)

New(t, at, result) == Append(call, [thread |-> t, at |-> at, result |-> result, answer |-> None])

\* html_to_pdf of macos.rs: on the main thread, or through the main queue
dispatch_pipeline(t) ==
  /\ os = "apple"
  /\ IF t = Main THEN call' = New(t, "load", None) /\ UNCHANGED pending
     ELSE call' = New(t, "wait", None) /\ pending' = pending \cup {<<"setup", Len(call) + 1>>}
  /\ UNCHANGED <<pipes, microsoft, gnome>>

\* CoInitializeEx fails on a thread of another apartment.
html_to_pdf_windows(t) ==
  /\ os = "windows"
  /\ \/ call' = New(t, "returned", Failed) /\ UNCHANGED com
     \/ call' = New(t, "window", None) /\ com' = com \cup {Len(call) + 1}
  /\ UNCHANGED <<windows, apple, gnome>>

\* gtk::init fails without a display, and panics on a second thread.
html_to_pdf_linux(t) ==
  /\ os = "linux"
  /\ \/ gtk = "none" /\ call' = New(t, "returned", Failed) /\ UNCHANGED gtk
     \/ gtk \in {"none", t} /\ call' = New(t, "load", None) /\ gtk' = t
     \/ gtk \notin {"none", t} /\ call' = New(t, "returned", Failed) /\ UNCHANGED gtk
  /\ UNCHANGED <<prints, file, apple, microsoft>>

html_to_pdf(t) ==
  /\ Len(call) < MaxCalls /\ Idle(t)
  /\ dispatch_pipeline(t) \/ html_to_pdf_windows(t) \/ html_to_pdf_linux(t)

--------------------------------------------------------------------------------
(* Apple: the blocks of the main queue *)

Then(from, to) == pending' = (pending \ {from}) \cup to

\* The view is made and loads; or the queue runs on another thread.
pipeline_setup(c) ==
  /\ <<"setup", c>> \in pending
  /\ \/ Then(<<"setup", c>>, {<<"poll", c>>}) /\ pipes' = pipes \cup {c} /\ UNCHANGED call
     \/ Then(<<"setup", c>>, {}) /\ Sets(c, "answer", Failed) /\ UNCHANGED pipes
  /\ UNCHANGED <<os, microsoft, gnome>>

\* What a block does when the pipeline is over: it is dropped, and then the caller told.
\* Mutant: the caller is told first.
Over_ToldFirst(c, from, answer) ==
  Sets(c, "answer", answer) /\ Then(from, {<<"drop", c, answer.kind>>}) /\ UNCHANGED pipes
Over(c, from, answer) ==
  /\ pipes' = pipes \ {c} /\ Then(from, {<<"signal", c, answer.kind>>})
  /\ UNCHANGED call

\* Mutant: the timeout does not return, and the poll is scheduled again.
PollEnds_FallsThrough(c) ==
  /\ pipes' = pipes \ {c} /\ Then(<<"poll", c>>, {<<"signal", c, "timeout">>, <<"poll", c>>})
  /\ UNCHANGED call
PollEnds(c) == Over(c, <<"poll", c>>, TimedOut)

\* A poll of a view that still loads is scheduled again, which changes nothing here.
pipeline_poll(c) ==
  /\ <<"poll", c>> \in pending
  /\ \/ PollEnds(c)
     \/ Then(<<"poll", c>>, {<<"completion", c>>}) /\ UNCHANGED <<call, pipes>>
  /\ UNCHANGED <<os, microsoft, gnome>>

\* WebKit calls the handler of createPDF, or never does.
pipeline_create_pdf(c) ==
  /\ <<"completion", c>> \in pending
  /\ \E answer \in {Pdf(c), Failed} : Over(c, <<"completion", c>>, answer)
  /\ UNCHANGED <<os, microsoft, gnome>>

signal_result(c) ==
  /\ \E answer \in {Pdf(c), Failed, TimedOut} :
       /\ <<"signal", c, answer.kind>> \in pending
       /\ Then(<<"signal", c, answer.kind>>, {}) /\ Sets(c, "answer", answer)
  /\ UNCHANGED <<os, pipes, microsoft, gnome>>

\* The caller wakes, for the answer or not: it returns what is there, and gives up only
\* after a whole wait without one.
Takes(c) ==
  /\ At(c, "wait") /\ call[c].answer # None
  /\ call' = [Returned(c, call[c].answer) EXCEPT ![c].answer = None]
  /\ UNCHANGED <<os, apple, microsoft, gnome>>
\* Mutant: the wait has no limit.
GivesUp_Never(c) == FALSE /\ UNCHANGED views
GivesUp(c) ==
  /\ At(c, "wait") /\ call[c].answer = None
  /\ call' = Returned(c, TimedOut)
  /\ UNCHANGED <<os, apple, microsoft, gnome>>

--------------------------------------------------------------------------------
(* Windows *)

\* The end of html_to_pdf: the window is destroyed on the way of success only.
Ends(c, result) ==
  /\ call' = Returned(c, result)
  /\ com' = com \ {c}
  /\ windows' = IF result.kind = "pdf" THEN windows \ {c} ELSE windows
  /\ UNCHANGED <<os, apple, gnome>>

create_hidden_window(c) ==
  /\ At(c, "window")
  /\ \/ Goes(c, "environment") /\ windows' = windows \cup {c} /\ UNCHANGED <<os, com, apple, gnome>>
     \/ Ends(c, Failed)

\* Both wait for the runtime, however long it takes.
create_environment(c) ==
  /\ At(c, "environment")
  /\ \/ Goes(c, "controller") /\ UNCHANGED <<os, microsoft, apple, gnome>>
     \/ Ends(c, Failed)

\* The controller, its view, and the navigation that begins
create_controller(c) ==
  /\ At(c, "controller")
  /\ \/ Goes(c, "load") /\ UNCHANGED <<os, microsoft, apple, gnome>>
     \/ Ends(c, Failed)

--------------------------------------------------------------------------------
(* Spinning on the thread of the call: Windows, Linux, Apple's main thread.    *)

\* The view loaded, with the page or without: WebView2 tells them apart.
Loads(c) ==
  /\ At(c, "load") /\ call[c].answer = None
  /\ \/ Sets(c, "answer", Pdf(c))
     \/ os = "windows" /\ Sets(c, "answer", Failed)
  /\ UNCHANGED <<os, apple, microsoft, gnome>>

Expires(c) ==
  IF os = "windows" THEN Ends(c, TimedOut)
  ELSE call' = Returned(c, TimedOut) /\ UNCHANGED <<os, apple, microsoft, gnome>>

\* spin_runloop, spin_gtk and wait_for_navigation look, and then at the clock.
spin_load(c) ==
  /\ At(c, "load")
  /\ \/ /\ call[c].answer.kind = "pdf"
        /\ GoesOn(c, "print")
        /\ prints' = IF os = "linux" THEN prints \cup {c} ELSE prints
        /\ UNCHANGED <<os, apple, microsoft, gtk, file>>
     \/ call[c].answer = Failed /\ Ends(c, Failed)
     \/ call[c].answer = None /\ Expires(c)

\* createPDF and PrintToPdfStream answer their caller, if it still waits.
Printed(c) ==
  /\ os # "linux" /\ At(c, "print") /\ call[c].answer = None
  /\ \E answer \in {Pdf(c), Failed} : Sets(c, "answer", answer)
  /\ UNCHANGED <<os, apple, microsoft, gnome>>

\* A print operation ends, in time or not, and says so whether it wrote the file or failed.
PrintEnds(c) ==
  /\ c \in prints /\ prints' = prints \ {c}
  /\ file' \in {Pdf(c), Empty, file}
  /\ IF At(c, "print") THEN Sets(c, "answer", Empty) ELSE UNCHANGED call
  /\ UNCHANGED <<os, apple, microsoft, gtk>>

\* Mutant: the file stays when it was read.
AfterRead_Stays == file
AfterRead == None
ReadFile(c) ==
  /\ call' = Returned(c, IF file.kind = "pdf" THEN file ELSE Failed)
  /\ file' = AfterRead
  /\ UNCHANGED <<os, apple, microsoft, gtk, prints>>

spin_print(c) ==
  /\ At(c, "print")
  /\ \/ os = "linux" /\ call[c].answer # None /\ ReadFile(c)
     \/ os = "windows" /\ call[c].answer # None /\ Ends(c, call[c].answer)
     \/ /\ os = "apple" /\ call[c].answer # None /\ call' = Returned(c, call[c].answer)
        /\ UNCHANGED <<os, apple, microsoft, gnome>>
     \/ call[c].answer = None /\ Expires(c)

--------------------------------------------------------------------------------
WebViewInit ==
  /\ os \in {"apple", "windows", "linux"}
  /\ call = <<>> /\ pipes = {} /\ pending = {} /\ com = {} /\ windows = {}
  /\ gtk = "none" /\ prints = {}
  /\ file \in IF os = "linux" THEN {None, Left} ELSE {None}

\* What the thread of a call does
Caller(c) == Takes(c) \/ GivesUp(c) \/ create_hidden_window(c) \/ spin_load(c) \/ spin_print(c)
\* What the runtime of WebView2 does for it
Runtime(c) == create_environment(c) \/ create_controller(c)
MainQueue(c) == pipeline_setup(c) \/ pipeline_poll(c) \/ pipeline_create_pdf(c) \/ signal_result(c)

WebViewNext ==
  \/ \E t \in Threads : html_to_pdf(t) /\ UNCHANGED os
  \/ \E c \in Calls : Caller(c) \/ Runtime(c) \/ MainQueue(c) \/ Loads(c) \/ Printed(c) \/ PrintEnds(c)

WebViewSpec == WebViewInit /\ [][WebViewNext]_views

\* Threads run and clocks advance, and WebView2 answers when it is asked for a view.
\* Nothing is asked of the main queue, of pages and of print operations.
WebViewFairness == \A c \in 1..MaxCalls : WF_views(Caller(c)) /\ WF_views(Runtime(c))

--------------------------------------------------------------------------------
\* A PDF is that of the HTML of the call (lib.rs, html_to_pdf).  On Linux every print of
\* a process goes to one file: when a print fails, its call reads what an earlier print
\* left there, but only one whose call gave up, or of a dead process with the same id.
RendersItsOwn ==
  \A c \in Calls : call[c].result.kind = "pdf" =>
    LET d == call[c].result.of IN
    \/ d = c
    \/ os = "linux" /\ (d = 0 \/ call[d].result = TimedOut)

\* The pending block or handler that will free a pipeline
Owners(c) == {b \in pending : b[2] = c /\ b[1] \in {"poll", "completion"}}
\* A pipeline is owned by one block or handler as long as it is there and by none after,
\* though its caller may give up at any time; and a call that returned a PDF has left
\* nothing behind: no pipeline, window, apartment or file (macos.rs, pipeline_poll to
\* signal_result; windows.rs, html_to_pdf_inner; linux.rs).
ViewsAccounted ==
  \A c \in Calls :
    /\ Cardinality(Owners(c)) = IF c \in pipes THEN 1 ELSE 0
    /\ call[c].result.kind = "pdf" => c \notin pipes \cup windows
    /\ call[c].at = "returned" => c \notin com

\* A call returns, even if the main thread never gets to it (macos.rs, dispatch_pipeline;
\* the timeouts of 30 s of the others).
RendersReturn == \A c \in 1..MaxCalls : (c \in Calls) ~> (c \in Calls /\ call[c].at = "returned")
=============================================================================
