-------------------------- MODULE WebViewPdfProofs --------------------------
(***************************************************************************)
(* Proofs of what html_to_pdf promises, on the three systems and for any   *)
(* number of threads and calls: a PDF is that of its call, and what was    *)
(* allocated for a call is freed once.                                     *)
(***************************************************************************)
EXTENDS WebViewPdf, FiniteSetTheorems, SequenceTheorems, TLAPS

Stages == {"wait", "window", "environment", "controller", "load", "print", "returned"}
Answer == {None, Failed, TimedOut, Empty} \cup {Pdf(n) : n \in Nat}
Call == [thread : Threads, at : Stages, result : Answer, answer : Answer]

\* The blocks of a call; a told one carries the kind of the answer.
Block(c) == {<<"setup", c>>, <<"poll", c>>, <<"completion", c>>}
              \cup {<<"signal", c, kind>> : kind \in {"pdf", "error", "timeout"}}
Owned(c) == <<"poll", c>> \in pending \/ <<"completion", c>> \in pending

Typed ==
  /\ os \in {"apple", "windows", "linux"}
  /\ call \in Seq(Call) /\ file \in Answer
  /\ pipes \subseteq Calls /\ com \subseteq Calls /\ windows \subseteq Calls /\ prints \subseteq Calls
  /\ \A b \in pending : \E c \in Calls : b \in Block(c)

\* A thread is in one call at a time, which has no result before it returns.
OneEach ==
  /\ \A c \in Calls : call[c].at # "returned" => call[c].result = None
  /\ \A c, d \in Calls : call[c].thread = call[d].thread /\ call[c].at # "returned" /\ call[d].at # "returned" => c = d

\* What the systems have of their own; GTK has one thread.
Apart ==
  /\ os # "apple" => pending = {}
  /\ os # "windows" => com = {} /\ windows = {}
  /\ os # "linux" => prints = {} /\ file = None
  /\ \A c \in Calls :
       /\ call[c].at = "wait" => os = "apple"
       /\ call[c].at \in {"window", "environment", "controller"} => os = "windows"
       /\ os = "linux" /\ call[c].at # "returned" => call[c].thread = gtk

\* A call is answered with its own document.
OwnAnswers == \A c \in Calls : call[c].answer.kind = "pdf" => call[c].answer = Pdf(c)

\* A print that has not ended has a call that waits for it, or gave up; the document of the
\* file is one that its call will read, or gave up on.
Printing ==
  /\ \A c \in prints : \/ call[c].at = "print" /\ call[c].answer = None
                       \/ call[c].at = "returned" /\ call[c].result = TimedOut
  /\ file.kind = "pdf" =>
       \/ file = Left
       \/ \E d \in Calls : /\ file = Pdf(d)
                           /\ \/ call[d].at = "print" /\ call[d].answer # None
                              \/ call[d].at = "returned" /\ call[d].result = TimedOut

\* The chain of blocks of a call: one of them is pending until the caller is told, and the
\* pipeline is there while it is the poll or the completion.
Chains ==
  /\ \A c \in Calls : \A a, b \in Block(c) \cap pending : a = b
  /\ \A c \in Calls : c \in pipes <=> Owned(c)
  /\ \A c \in Calls : Block(c) \cap pending # {} =>
       call[c].at \in {"wait", "returned"} /\ call[c].answer = None /\ call[c].result.kind # "pdf"

Freed ==
  \A c \in Calls : /\ call[c].result.kind = "pdf" => c \notin windows
                   /\ call[c].at = "returned" => c \notin com

\* The result of a call: its own document, or the one of the file that had been given up
Result(c, result) ==
  \/ result = Pdf(c)
  \/ os = "linux" /\ result = Left
  \/ os = "linux" /\ \E d \in Calls : result = Pdf(d) /\ call[d].at = "returned" /\ call[d].result = TimedOut
Results == \A c \in Calls : call[c].result.kind = "pdf" => Result(c, call[c].result)

IInv == Typed /\ OneEach /\ Apart /\ OwnAnswers /\ Printing /\ Chains /\ Freed /\ Results

LEMMA InitInv == WebViewInit => IInv
<1>1. SUFFICES ASSUME WebViewInit PROVE IInv
  OBVIOUS
<1>2. call = <<>> /\ Calls = {} /\ call \in Seq(Call) /\ pending = {} /\ pipes = {}
  BY <1>1, EmptySeq DEF WebViewInit, Calls
<1>3. Left \in Answer /\ None \in Answer
  BY DEF Left, Answer
<1>4. QED
  BY <1>1, <1>2, <1>3 DEF WebViewInit, IInv, Typed, OneEach, Apart, OwnAnswers, Printing, Chains, Freed, Results, Left, None, Pdf

--------------------------------------------------------------------------------
\* What a step may do to the record of a call, whatever it does besides
Goodly(c, r) ==
  /\ r \in Call /\ r.thread = call[c].thread
  /\ call[c].at = "returned" => r.at = "returned" /\ r.result = call[c].result
  /\ r.at # "returned" => r.result = None
  /\ r.result.kind = "pdf" => Result(c, r.result)
  /\ r.answer.kind = "pdf" => r.answer = Pdf(c)
  /\ r.at = "wait" => os = "apple"
  /\ r.at \in {"window", "environment", "controller"} => os = "windows"

\* Only the record of c changes.
Only(c) ==
  /\ call' \in Seq(Call) /\ Calls' = Calls
  /\ \A d \in Calls \ {c} : call'[d] = call[d]

\* The part of Apart that is about calls
OnTheirSystem(c) ==
  /\ call[c].at = "wait" => os = "apple"
  /\ call[c].at \in {"window", "environment", "controller"} => os = "windows"
  /\ os = "linux" /\ call[c].at # "returned" => call[c].thread = gtk

LEMMA OnlyStep ==
  ASSUME IInv, NEW c \in Calls, NEW r, Goodly(c, r), call' = [call EXCEPT ![c] = r], UNCHANGED <<os, gtk>>
  PROVE  /\ Only(c) /\ call'[c] = r
         /\ OneEach' /\ OwnAnswers' /\ Results' /\ \A d \in Calls : OnTheirSystem(d)'
<1>1. call \in Seq(Call) /\ Calls = 1..Len(call)
  BY LenProperties DEF IInv, Typed, Calls
<1>2. Only(c) /\ call'[c] = r
  BY <1>1, ExceptSeq, LenProperties DEF Goodly, Only, Calls
<1>3. \A d \in Calls : /\ call'[d].thread = call[d].thread
                       /\ call[d].at = "returned" => call'[d].at = "returned" /\ call'[d].result = call[d].result
                       /\ call'[d].at # "returned" => call'[d].result = None
  BY <1>2 DEF Only, Goodly, IInv, OneEach
<1>4. OneEach'
  BY <1>2, <1>3 DEF Only, IInv, OneEach
<1>5. OwnAnswers'
  BY <1>2 DEF Only, Goodly, IInv, OwnAnswers
<1>6. \A d \in Calls : OnTheirSystem(d)'
  BY <1>2, <1>3 DEF Only, Goodly, IInv, Apart, OnTheirSystem
<1>7. Results'
  <2>1. \A d \in Calls : call'[d].result.kind = "pdf" => Result(d, call'[d].result)
    BY <1>2 DEF Only, Goodly, IInv, Results
  <2>2. ASSUME NEW d \in Calls, Result(d, call'[d].result) PROVE Result(d, call[d].result)'
    BY <1>2, <1>3, <2>2 DEF Only, Result
  <2>3. QED
    BY <1>2, <2>1, <2>2 DEF Only, Results
<1>8. QED
  BY <1>2, <1>4, <1>5, <1>6, <1>7

LEMMA Await ==
  ASSUME IInv, UNCHANGED views PROVE IInv'
  BY DEF views, IInv, Typed, OneEach, Apart, OwnAnswers, Printing, Chains, Freed, Results, Result, Calls, Owned

\* Records of the kinds that steps make
LEMMA Records ==
  ASSUME IInv, NEW c \in Calls
  PROVE  /\ \A at \in Stages : [call[c] EXCEPT !.at = at] \in Call
         /\ \A at \in Stages, answer \in Answer : [call[c] EXCEPT !.at = at, !.answer = answer] \in Call
         /\ \A result \in Answer : [call[c] EXCEPT !.at = "returned", !.result = result] \in Call
         /\ \A answer \in Answer : [call[c] EXCEPT !.answer = answer] \in Call
         /\ {None, Failed, TimedOut, Empty, Left} \subseteq Answer
         /\ Pdf(c) \in Answer
         /\ call[c] \in Call
<1>1. call[c] \in Call /\ c \in Nat
  BY ElementOfSeq, LenProperties DEF IInv, Typed, Calls
<1>2. QED
  BY <1>1 DEF Call, Stages, Answer, Left, Pdf

\* A step in Apple's part, which is all there is on Apple's systems
LEMMA AppleStep ==
  ASSUME IInv, os = "apple", NEW c \in Calls, Only(c) \/ UNCHANGED call,
         OneEach', OwnAnswers', Results', Calls' = Calls, \A d \in Calls : OnTheirSystem(d)',
         Chains', pipes' \subseteq Calls, \A b \in pending' : \E d \in Calls : b \in Block(d),
         UNCHANGED <<os, microsoft, gnome>>
  PROVE  IInv'
<1> USE DEF microsoft, gnome
<1>1. com = {} /\ windows = {} /\ prints = {} /\ file = None
  BY DEF IInv, Apart
<1>2. Typed'
  BY DEF IInv, Typed, Only
<1>3. Apart' /\ Printing' /\ Freed'
  BY <1>1 DEF Apart, Printing, Freed, None, OnTheirSystem
<1>4. QED
  BY <1>2, <1>3 DEF IInv

LEMMA BlocksApart == ASSUME NEW c, NEW d, NEW b \in Block(c), b \in Block(d) PROVE c = d
  BY DEF Block

LEMMA SignalsApart ==
  ASSUME NEW c, NEW kind PROVE <<"signal", c, kind>> \notin {<<"poll", c>>, <<"completion", c>>}
<1>1. <<"signal", c, kind>>[1] = "signal" /\ <<"poll", c>>[1] = "poll" /\ <<"completion", c>>[1] = "completion"
  OBVIOUS
<1>2. QED
  BY <1>1

\* A block runs, and what remains of the chain is `rest`.
LEMMA ChainGoesOn ==
  ASSUME IInv, NEW c \in Calls, NEW b \in Block(c) \cap pending, NEW rest \in SUBSET Block(c),
         \A x, y \in rest : x = y, Then(b, rest),
         Calls' = Calls, IF rest = {} THEN Only(c) ELSE UNCHANGED call,
         c \in pipes' <=> <<"poll", c>> \in rest \/ <<"completion", c>> \in rest,
         pipes' \ {c} = pipes \ {c}, pipes' \subseteq Calls
  PROVE  Chains' /\ \A x \in pending' : \E d \in Calls : x \in Block(d)
<1>1. Block(c) \cap pending = {b}
  BY DEF IInv, Chains
<1>2. Block(c) \cap pending' = rest
  BY <1>1 DEF Then
<1>3. \A d \in Calls \ {c} : Block(d) \cap pending' = Block(d) \cap pending
  BY BlocksApart DEF Then
<1>4. \A x \in pending' : \E d \in Calls : x \in Block(d)
  BY DEF Then, IInv, Typed
<1>5. \A d \in Calls : \A x, y \in Block(d) \cap pending' : x = y
  BY <1>2, <1>3 DEF IInv, Chains
<1>6. \A d \in Calls : d \in pipes' <=> <<"poll", d>> \in pending' \/ <<"completion", d>> \in pending'
  <2>1. \A d : {<<"poll", d>>, <<"completion", d>>} \subseteq Block(d)
    BY DEF Block
  <2>2. ASSUME NEW d \in Calls \ {c} PROVE d \in pipes' <=> <<"poll", d>> \in pending' \/ <<"completion", d>> \in pending'
    <3>1. d \in pipes' <=> d \in pipes
      BY <2>2
    <3>2. d \in pipes <=> <<"poll", d>> \in pending \/ <<"completion", d>> \in pending
      BY <2>2 DEF IInv, Chains, Owned
    <3>3. QED
      BY <3>1, <3>2, <2>1, <1>3
  <2>3. QED
    BY <1>2, <2>1, <2>2
<1>7. \A d \in Calls : Block(d) \cap pending' # {} =>
        call'[d].at \in {"wait", "returned"} /\ call'[d].answer = None /\ call'[d].result.kind # "pdf"
  <2>1. ASSUME NEW d \in Calls, Block(d) \cap pending' # {} PROVE Block(d) \cap pending # {} /\ call'[d] = call[d]
    BY <1>1, <1>2, <1>3, <2>1 DEF Only
  <2>2. QED
    BY <2>1 DEF IInv, Chains
<1>8. QED
  BY <1>4, <1>5, <1>6, <1>7 DEF Chains, Owned, Block

\* A step of the call that leaves the chain alone
LEMMA ChainRests ==
  ASSUME IInv, NEW c \in Calls, Only(c), UNCHANGED apple,
         Block(c) \cap pending # {} =>
           call'[c].at \in {"wait", "returned"} /\ call'[c].answer = None /\ call'[c].result.kind # "pdf"
  PROVE  Chains' /\ \A x \in pending' : \E d \in Calls : x \in Block(d)
<1>1. UNCHANGED <<pipes, pending>> /\ Calls' = Calls
  BY DEF apple, Only
<1>2. \A d \in Calls : Block(d) \cap pending # {} =>
        call'[d].at \in {"wait", "returned"} /\ call'[d].answer = None /\ call'[d].result.kind # "pdf"
  BY DEF Only, IInv, Chains
<1>3. QED
  BY <1>1, <1>2 DEF IInv, Typed, Chains, Owned

--------------------------------------------------------------------------------
\* The ways in which a step changes the record of its call

LEMMA GivesAnswer ==
  ASSUME IInv, NEW c \in Calls, NEW answer \in Answer, Sets(c, "answer", answer), answer.kind = "pdf" => answer = Pdf(c)
  PROVE  LET r == [call[c] EXCEPT !.answer = answer] IN Goodly(c, r) /\ call' = [call EXCEPT ![c] = r]
<1> DEFINE r == [call[c] EXCEPT !.answer = answer]
<1>1. r \in Call /\ call[c] \in Call
  BY Records
<1>2. r.thread = call[c].thread /\ r.at = call[c].at /\ r.result = call[c].result /\ r.answer = answer
  BY <1>1 DEF Call
<1>3. Goodly(c, r)
  BY <1>1, <1>2 DEF Goodly, IInv, OneEach, Apart, Results
<1>4. QED
  BY <1>3 DEF Sets

LEMMA Advances ==
  ASSUME IInv, NEW c \in Calls, call[c].at # "returned", NEW at \in Stages \ {"returned"},
         at = "wait" => os = "apple", at \in {"window", "environment", "controller"} => os = "windows",
         NEW answer \in {None, call[c].answer}
  PROVE  Goodly(c, [call[c] EXCEPT !.at = at, !.answer = answer])
<1> DEFINE r == [call[c] EXCEPT !.at = at, !.answer = answer]
<1>1. r \in Call /\ call[c] \in Call
  BY Records DEF Call
<1>2. r.thread = call[c].thread /\ r.at = at /\ r.result = call[c].result /\ r.answer = answer
  BY <1>1 DEF Call
<1>3. QED
  BY <1>1, <1>2 DEF Goodly, IInv, OneEach, OwnAnswers, None

LEMMA Returns ==
  ASSUME IInv, NEW c \in Calls, call[c].at # "returned", NEW result \in Answer,
         result.kind = "pdf" => Result(c, result)
  PROVE  /\ Goodly(c, [call[c] EXCEPT !.at = "returned", !.result = result])
         /\ Goodly(c, [call[c] EXCEPT !.at = "returned", !.result = result, !.answer = None])
<1> DEFINE r(answer) == [call[c] EXCEPT !.at = "returned", !.result = result, !.answer = answer]
<1>1. call[c] \in Call /\ None \in Answer
  BY Records
<1>2. ASSUME NEW answer \in {None, call[c].answer} PROVE Goodly(c, r(answer))
  <2>1. r(answer) \in Call
    BY <1>1, <1>2 DEF Call, Stages
  <2>2. /\ r(answer).thread = call[c].thread /\ r(answer).at = "returned" /\ r(answer).result = result
        /\ r(answer).answer = answer
    BY <1>1 DEF Call
  <2>3. QED
    BY <1>2, <2>1, <2>2 DEF Goodly, IInv, OwnAnswers, None
<1>3. r(call[c].answer) = [call[c] EXCEPT !.at = "returned", !.result = result]
  BY <1>1 DEF Call
<1>4. QED
  BY <1>2, <1>3

--------------------------------------------------------------------------------
\* Apple

LEMMA QueueStep == ASSUME IInv, NEW c \in Calls, MainQueue(c) PROVE IInv'
<1> DEFINE told(answer) == <<"signal", c, answer.kind>>
<1>1. \E b \in Block(c) : b \in pending
  BY DEF MainQueue, pipeline_setup, pipeline_poll, pipeline_create_pdf, signal_result, Block, Pdf, Failed, TimedOut
<1>2. os = "apple" /\ UNCHANGED <<os, microsoft, gnome>>
  BY <1>1 DEF IInv, Apart, MainQueue, pipeline_setup, pipeline_poll, pipeline_create_pdf, signal_result
<1>3. PICK b \in Block(c) \cap pending, rest \in SUBSET Block(c) :
        /\ \A x, y \in rest : x = y
        /\ Then(b, rest)
        /\ \/ /\ rest # {} /\ UNCHANGED call
              /\ pipes' = IF <<"poll", c>> \in rest \/ <<"completion", c>> \in rest THEN pipes \cup {c} ELSE pipes \ {c}
           \/ /\ rest = {} /\ b \notin {<<"poll", c>>, <<"completion", c>>} /\ UNCHANGED pipes
              /\ \E answer \in {Pdf(c), Failed, TimedOut} : Sets(c, "answer", answer)
  <2>1. CASE pipeline_setup(c)
    BY <2>1 DEF pipeline_setup, Block
  <2>2. CASE pipeline_poll(c)
    <3>1. CASE PollEnds(c)
      <4>1. /\ <<"poll", c>> \in Block(c) \cap pending /\ {told(TimedOut)} \in SUBSET Block(c)
            /\ Then(<<"poll", c>>, {told(TimedOut)}) /\ pipes' = pipes \ {c} /\ UNCHANGED call
        BY <2>2, <3>1 DEF pipeline_poll, PollEnds, Over, Block, TimedOut
      <4>2. QED
        BY <4>1, SignalsApart
    <3>2. CASE Then(<<"poll", c>>, {<<"completion", c>>}) /\ UNCHANGED <<call, pipes>>
      <4>1. c \in pipes
        BY <2>2 DEF pipeline_poll, IInv, Chains, Owned
      <4>2. /\ <<"poll", c>> \in Block(c) \cap pending /\ {<<"completion", c>>} \in SUBSET Block(c)
            /\ Then(<<"poll", c>>, {<<"completion", c>>}) /\ pipes' = pipes \cup {c} /\ UNCHANGED call
        BY <2>2, <3>2, <4>1 DEF pipeline_poll, Block
      <4>3. QED
        BY <4>2
    <3>3. QED
      BY <2>2, <3>1, <3>2 DEF pipeline_poll
  <2>3. CASE pipeline_create_pdf(c)
    <3>1. PICK answer \in {Pdf(c), Failed} : Over(c, <<"completion", c>>, answer)
      BY <2>3 DEF pipeline_create_pdf
    <3>2. /\ <<"completion", c>> \in Block(c) \cap pending /\ {told(answer)} \in SUBSET Block(c)
          /\ Then(<<"completion", c>>, {told(answer)}) /\ pipes' = pipes \ {c} /\ UNCHANGED call
      BY <2>3, <3>1 DEF pipeline_create_pdf, Over, Block, Pdf, Failed
    <3>3. QED
      BY <3>2, SignalsApart
  <2>4. CASE signal_result(c)
    <3>1. PICK answer \in {Pdf(c), Failed, TimedOut} :
            told(answer) \in pending /\ Then(told(answer), {}) /\ Sets(c, "answer", answer)
      BY <2>4 DEF signal_result
    <3>2. told(answer) \in Block(c) /\ told(answer) \notin {<<"poll", c>>, <<"completion", c>>}
      BY SignalsApart DEF Block, Pdf, Failed, TimedOut
    <3>3. UNCHANGED pipes
      BY <2>4 DEF signal_result
    <3>4. QED
      BY <3>1, <3>2, <3>3
  <2>5. QED
    BY <2>1, <2>2, <2>3, <2>4 DEF MainQueue
<1>4. Block(c) \cap pending = {b}
  BY DEF IInv, Chains
<1>5. CASE rest # {}
  <2>1. UNCHANGED call /\ Calls' = Calls
    BY <1>3, <1>5 DEF Calls
  <2>2. /\ pipes' \ {c} = pipes \ {c} /\ pipes' \subseteq Calls
        /\ c \in pipes' <=> <<"poll", c>> \in rest \/ <<"completion", c>> \in rest
    BY <1>3, <1>5 DEF IInv, Typed
  <2>3. Chains' /\ \A x \in pending' : \E d \in Calls : x \in Block(d)
    BY <1>3, <1>5, <2>1, <2>2, ChainGoesOn
  <2>4. OneEach' /\ OwnAnswers' /\ Results' /\ \A d \in Calls : OnTheirSystem(d)'
    BY <1>2, <2>1 DEF IInv, OneEach, OwnAnswers, Results, Result, Apart, OnTheirSystem, gnome
  <2>5. QED
    BY <1>2, <2>1, <2>2, <2>3, <2>4, AppleStep
<1>6. CASE rest = {}
  <2>1. PICK answer \in {Pdf(c), Failed, TimedOut} : Sets(c, "answer", answer)
    BY <1>3, <1>6
  <2>2. answer \in Answer /\ (answer.kind = "pdf" => answer = Pdf(c))
    <3>1. {Pdf(c), Failed, TimedOut} \subseteq Answer
      BY Records
    <3>2. QED
      BY <2>1, <3>1 DEF Failed, TimedOut
  <2>3. PICK r : Goodly(c, r) /\ call' = [call EXCEPT ![c] = r]
    BY <2>1, <2>2, GivesAnswer
  <2>4. Only(c) /\ OneEach' /\ OwnAnswers' /\ Results' /\ \A d \in Calls : OnTheirSystem(d)'
    BY <1>2, <2>3, OnlyStep DEF gnome
  <2>5. Calls' = Calls /\ UNCHANGED pipes /\ c \notin pipes /\ pipes' \subseteq Calls
    <3>1. ~Owned(c)
      BY <1>3, <1>4, <1>6 DEF Owned, Block
    <3>2. QED
      BY <1>3, <1>6, <2>4, <3>1 DEF Only, IInv, Chains, Typed
  <2>6. Chains' /\ \A x \in pending' : \E d \in Calls : x \in Block(d)
    BY <1>3, <1>6, <2>4, <2>5, ChainGoesOn
  <2>7. QED
    BY <1>2, <2>4, <2>5, <2>6, AppleStep
<1>7. QED
  BY <1>5, <1>6

--------------------------------------------------------------------------------
\* The steps of the caller, of its page and of its print

CallStep(c) ==
  \/ Takes(c) \/ GivesUp(c) \/ create_hidden_window(c) \/ Runtime(c) \/ spin_load(c) \/ spin_print(c)
  \/ Loads(c) \/ Printed(c) \/ PrintEnds(c)

\* What is known of the record that a step leaves, and of what Windows holds for it
Leaves(c, r) ==
  /\ Goodly(c, r)
  /\ Block(c) \cap pending # {} => r.at \in {"wait", "returned"} /\ r.answer = None /\ r.result.kind # "pdf"
  /\ com' \subseteq com /\ windows' \subseteq windows \cup {c}
  /\ windows' = windows \/ os = "windows"
  /\ r.at = "returned" => c \notin com'
  /\ r.result.kind = "pdf" => c \notin windows'

\* What holds at any stage of a call that is under way
LEMMA UnderWay ==
  ASSUME IInv, NEW c \in Calls, call[c].at # "returned"
  PROVE  /\ call[c].result = None
         /\ call[c].answer # None \/ call[c].at # "wait" => Block(c) \cap pending = {}
         /\ os # "windows" => com = {} /\ windows = {}
         /\ call[c] \in Call
  BY Records DEF IInv, OneEach, Chains, Apart

LEMMA ReturnLeaves ==
  ASSUME IInv, NEW c \in Calls, call[c].at # "returned", NEW result \in Answer,
         result.kind = "pdf" => Result(c, result) /\ Block(c) \cap pending = {},
         call[c].answer = None \/ Block(c) \cap pending = {},
         com' = com \ {c}, windows' = IF result.kind = "pdf" THEN windows \ {c} ELSE windows
  PROVE  /\ Leaves(c, [call[c] EXCEPT !.at = "returned", !.result = result])
         /\ Leaves(c, [call[c] EXCEPT !.at = "returned", !.result = result, !.answer = None])
<1>1. windows' = windows \/ os = "windows"
  BY UnderWay
<1>2. call[c] \in Call
  BY Records
<1>3. QED
  BY <1>1, <1>2, Returns DEF Leaves, Call

LEMMA AdvanceLeaves ==
  ASSUME IInv, NEW c \in Calls, call[c].at \notin {"returned", "wait"}, NEW at \in Stages \ {"returned", "wait"},
         at \in {"window", "environment", "controller"} => os = "windows",
         NEW answer \in {None, call[c].answer},
         com' = com, windows' \in {windows, windows \cup {c}}, windows' = windows \/ os = "windows"
  PROVE  Leaves(c, [call[c] EXCEPT !.at = at, !.answer = answer])
<1>1. call[c] \in Call /\ call[c].result = None /\ Block(c) \cap pending = {}
  BY UnderWay
<1>2. Goodly(c, [call[c] EXCEPT !.at = at, !.answer = answer])
  BY Advances
<1>3. /\ [call[c] EXCEPT !.at = at, !.answer = answer].at = at
      /\ [call[c] EXCEPT !.at = at, !.answer = answer].result = None
  BY <1>1 DEF Call
<1>4. QED
  BY <1>1, <1>2, <1>3 DEF Leaves, None

LEMMA AnswerLeaves ==
  ASSUME IInv, NEW c \in Calls, call[c].at \notin {"returned", "wait"}, NEW answer \in Answer,
         answer.kind = "pdf" => answer = Pdf(c), Sets(c, "answer", answer),
         com' = com, windows' = windows
  PROVE  LET r == [call[c] EXCEPT !.answer = answer] IN Leaves(c, r) /\ call' = [call EXCEPT ![c] = r]
<1>1. call[c] \in Call /\ call[c].result = None /\ Block(c) \cap pending = {}
  BY UnderWay
<1>2. QED
  BY <1>1, GivesAnswer DEF Leaves, Call, None

LEMMA CallStepLeaves ==
  ASSUME IInv, NEW c \in Calls, CallStep(c)
  PROVE  \E r : Leaves(c, r) /\ call' = [call EXCEPT ![c] = r] /\ UNCHANGED <<os, apple, gtk>>
<1> DEFINE Goal == \E r : Leaves(c, r) /\ call' = [call EXCEPT ![c] = r] /\ UNCHANGED <<os, apple, gtk>>
           ret(result) == [call[c] EXCEPT !.at = "returned", !.result = result]
           adv(at, answer) == [call[c] EXCEPT !.at = at, !.answer = answer]
<1>1. call[c] \in Call /\ {None, Failed, TimedOut, Empty, Left} \subseteq Answer /\ Pdf(c) \in Answer
  BY Records
<1>2. CASE Takes(c)
  <2>1. call[c].at = "wait" /\ call[c].answer # None /\ call[c].answer \in Answer
    BY <1>1, <1>2 DEF Takes, At, Call
  <2>2. Block(c) \cap pending = {} /\ com' = com \ {c} /\ windows' = windows \ {c} /\ windows' = windows
    BY <1>2, <2>1, UnderWay DEF Takes, microsoft, IInv, Apart
  <2>3. Leaves(c, [call[c] EXCEPT !.at = "returned", !.result = call[c].answer, !.answer = None])
    BY <2>1, <2>2, ReturnLeaves DEF IInv, OwnAnswers, Result
  <2>4. QED
    BY <1>2, <2>3 DEF Takes, Returned, gnome
<1>3. ASSUME call[c].at \in {"wait", "load", "print"}, call[c].answer = None,
             call' = Returned(c, TimedOut), UNCHANGED <<os, apple, gtk>>,
             com' = com \ {c}, windows' = windows
      PROVE  Goal
  <2>1. Leaves(c, ret(TimedOut))
    BY <1>1, <1>3, ReturnLeaves DEF TimedOut
  <2>2. QED
    BY <1>3, <2>1 DEF Returned
<1>4. CASE GivesUp(c)
  <2>1. com' = com \ {c}
    BY <1>4, UnderWay DEF GivesUp, At, microsoft, IInv, Apart
  <2>2. QED
    BY <1>3, <1>4, <2>1 DEF GivesUp, At, microsoft, gnome
<1>5. ASSUME NEW result \in Answer, call[c].at \notin {"wait", "returned"}, Ends(c, result), result.kind = "pdf" => result = Pdf(c)
      PROVE  Goal
  <2>1. Block(c) \cap pending = {}
    BY <1>5, UnderWay
  <2>2. Leaves(c, ret(result))
    BY <1>1, <1>5, <2>1, ReturnLeaves DEF Ends, Result
  <2>3. QED
    BY <1>5, <2>2 DEF Ends, Returned, gnome
<1>6. ASSUME NEW at \in {"environment", "controller", "load"}, call[c].at \in {"window", "environment", "controller"},
             Goes(c, at), com' = com, windows' \in {windows, windows \cup {c}}, UNCHANGED <<os, apple, gtk>>
      PROVE  Goal
  <2>1. os = "windows"
    BY <1>6 DEF IInv, Apart
  <2>0. at \in Stages \ {"returned", "wait"} /\ call[c].at \notin {"returned", "wait"}
    BY <1>6 DEF Stages
  <2>2. Leaves(c, adv(at, call[c].answer))
    BY <1>6, <2>0, <2>1, AdvanceLeaves
  <2>3. adv(at, call[c].answer) = [call[c] EXCEPT !.at = at]
    BY <1>1 DEF Call
  <2>4. QED
    BY <1>6, <2>2, <2>3 DEF Goes, Sets
<1>7. CASE create_hidden_window(c) \/ Runtime(c)
  <2>1. Failed \in Answer /\ Failed.kind # "pdf"
    BY <1>1 DEF Failed
  <2>2. CASE create_hidden_window(c)
    BY <2>1, <2>2, <1>5, <1>6 DEF create_hidden_window, At, gnome
  <2>3. CASE create_environment(c)
    BY <2>1, <2>3, <1>5, <1>6 DEF create_environment, At, gnome, microsoft
  <2>4. CASE create_controller(c)
    BY <2>1, <2>4, <1>5, <1>6 DEF create_controller, At, gnome, microsoft
  <2>5. QED
    BY <1>7, <2>2, <2>3, <2>4 DEF Runtime
<1>8. ASSUME call[c].at \in {"load", "print"}, call[c].answer = None, Expires(c)
      PROVE  Goal
  <2>1. CASE os = "windows"
    BY <1>1, <1>5, <1>8, <2>1 DEF Expires, TimedOut
  <2>2. CASE os # "windows"
    <3>1. com' = com \ {c} /\ windows' = windows /\ UNCHANGED <<os, apple, gtk>>
      BY <1>8, <2>2, UnderWay DEF Expires, microsoft, gnome, IInv, Apart
    <3>2. QED
      BY <1>3, <1>8, <2>2, <3>1 DEF Expires
  <2>3. QED
    BY <2>1, <2>2
<1>9. CASE spin_load(c)
  <2>1. CASE call[c].answer.kind = "pdf" /\ GoesOn(c, "print") /\ UNCHANGED <<os, apple, microsoft, gtk, file>>
    <3>0. /\ call[c].at \notin {"returned", "wait"} /\ "print" \in Stages \ {"returned", "wait"}
          /\ com' = com /\ windows' = windows
      BY <1>9, <2>1 DEF spin_load, At, Stages, microsoft
    <3>1. Leaves(c, adv("print", None))
      BY <3>0, AdvanceLeaves
    <3>2. QED
      BY <2>1, <3>1 DEF GoesOn
  <2>2. CASE call[c].answer = Failed /\ Ends(c, Failed)
    BY <1>1, <1>5, <1>9, <2>2 DEF spin_load, At, Failed
  <2>3. CASE call[c].answer = None /\ Expires(c)
    BY <1>8, <1>9, <2>3 DEF spin_load, At
  <2>4. QED
    BY <1>9, <2>1, <2>2, <2>3 DEF spin_load
<1>10. CASE spin_print(c)
  <2>1. call[c].at = "print" /\ call[c].answer \in Answer /\ Block(c) \cap pending = {}
    BY <1>1, <1>10, UnderWay DEF spin_print, At, Call
  <2>2. CASE os = "linux" /\ call[c].answer # None /\ ReadFile(c)
    <3> DEFINE result == IF file.kind = "pdf" THEN file ELSE Failed
    <3>1. result \in Answer /\ com' = com \ {c} /\ windows' = windows /\ c \notin windows
      BY <1>1, <2>2, UnderWay DEF ReadFile, microsoft, IInv, Apart, Typed
    <3>2. result.kind = "pdf" => Result(c, result)
      <4>1. SUFFICES ASSUME file.kind = "pdf" PROVE Result(c, file)
        BY DEF Failed
      <4>2. CASE file = Left
        BY <2>2, <4>2 DEF Result
      <4>3. CASE \E d \in Calls : file = Pdf(d) /\ call[d].at = "returned" /\ call[d].result = TimedOut
        BY <2>2, <4>3 DEF Result
      <4>4. CASE \E d \in Calls : file = Pdf(d) /\ call[d].at = "print"
        BY <2>1, <2>2, <4>4 DEF Result, IInv, OneEach, Apart
      <4>5. QED
        BY <4>1, <4>2, <4>3, <4>4 DEF IInv, Printing
    <3>3. Leaves(c, ret(result))
      BY <2>1, <3>1, <3>2, ReturnLeaves
    <3>4. QED
      BY <2>2, <3>3 DEF ReadFile, Returned
  <2>3. CASE os = "windows" /\ call[c].answer # None /\ Ends(c, call[c].answer)
    BY <1>5, <2>1, <2>3 DEF IInv, OwnAnswers
  <2>4. CASE os = "apple" /\ call[c].answer # None /\ call' = Returned(c, call[c].answer)
               /\ UNCHANGED <<os, apple, microsoft, gnome>>
    <3>1. com' = com \ {c} /\ windows' = windows \ {c} /\ windows' = windows
      BY <2>4 DEF microsoft, IInv, Apart
    <3>2. Leaves(c, ret(call[c].answer))
      BY <2>1, <2>4, <3>1, ReturnLeaves DEF IInv, OwnAnswers, Result
    <3>3. QED
      BY <2>4, <3>2 DEF Returned, gnome
  <2>5. CASE call[c].answer = None /\ Expires(c)
    BY <1>8, <2>1, <2>5
  <2>6. QED
    BY <1>10, <2>2, <2>3, <2>4, <2>5 DEF spin_print
<1>11. ASSUME NEW answer \in Answer, call[c].at \in {"load", "print"}, answer.kind = "pdf" => answer = Pdf(c),
              Sets(c, "answer", answer), UNCHANGED <<os, apple, microsoft, gtk>>
       PROVE  Goal
  BY <1>11, AnswerLeaves DEF microsoft
<1>12. CASE Loads(c) \/ Printed(c)
  <2>1. PICK answer \in {Pdf(c), Failed} : Sets(c, "answer", answer) /\ UNCHANGED <<os, apple, microsoft, gtk>>
                                           /\ call[c].at \in {"load", "print"}
    BY <1>12 DEF Loads, Printed, At, gnome
  <2>2. QED
    BY <1>1, <1>11, <2>1 DEF Failed
<1>13. CASE PrintEnds(c)
  <2>1. CASE At(c, "print")
    BY <1>1, <1>11, <1>13, <2>1 DEF PrintEnds, At, Empty
  <2>2. CASE ~At(c, "print")
    <3>1. call[c].at = "returned" /\ call[c].result = TimedOut /\ com' = com /\ windows' = windows
      BY <1>13, <2>2 DEF PrintEnds, At, IInv, Printing, microsoft
    <3>2. Goodly(c, call[c])
      BY <1>1, <3>1 DEF Goodly, IInv, OneEach, OwnAnswers, TimedOut
    <3>3. Leaves(c, call[c])
      BY <3>1, <3>2 DEF Leaves, IInv, Chains, Freed
    <3>4. call' = [call EXCEPT ![c] = call[c]]
      BY <1>13, <2>2 DEF PrintEnds, IInv, Typed
    <3>5. QED
      BY <1>13, <3>3, <3>4 DEF PrintEnds
  <2>3. QED
    BY <2>1, <2>2
<1>14. QED
  BY <1>2, <1>4, <1>7, <1>9, <1>10, <1>12, <1>13 DEF CallStep

\* The file of the prints, which is Linux's
LEMMA PrintingStep ==
  ASSUME IInv, NEW c \in Calls, CallStep(c), Only(c)
  PROVE  Printing' /\ prints' \subseteq Calls /\ file' \in Answer /\ (os # "linux" => prints' = {} /\ file' = None)
<1>1. {None, Failed, TimedOut, Empty, Left} \subseteq Answer /\ Pdf(c) \in Answer /\ call[c] \in Call /\ call \in Seq(Call)
  BY Records DEF IInv, Typed
<1>2. CASE os # "linux"
  <2>1. prints = {} /\ file = None
    BY <1>2 DEF IInv, Apart
  <2>2. UNCHANGED <<prints, file>>
    BY <1>2, <2>1 DEF CallStep, Takes, GivesUp, create_hidden_window, Runtime, create_environment, create_controller,
                      spin_load, spin_print, Loads, Printed, PrintEnds, Ends, Expires, gnome
  <2>3. QED
    BY <1>1, <2>1, <2>2 DEF Printing, None
<1>3. ASSUME call[c].at \notin {"returned", "print"}, UNCHANGED <<prints, file>> PROVE Printing'
  <2>1. c \notin prints
    BY <1>3 DEF IInv, Printing
  <2>2. QED
    BY <1>3, <2>1 DEF IInv, Typed, Printing, Only
<1>4. CASE os = "linux" /\ call[c].at \notin {"returned", "print"}
  <2>1. file' = file /\ (prints' = prints \/ (prints' = prints \cup {c} /\ call'[c].at = "print" /\ call'[c].answer = None))
    BY <1>1, <1>4 DEF CallStep, Takes, GivesUp, create_hidden_window, Runtime, create_environment, create_controller,
                 spin_load, spin_print, Loads, Printed, PrintEnds, Ends, Expires, gnome, At, IInv, Printing, GoesOn, Call, Calls
  <2>2. Printing'
    BY <1>3, <1>4, <2>1 DEF IInv, Typed, Printing, Only
  <2>3. QED
    BY <1>4, <2>1, <2>2 DEF IInv, Typed
<1>5. CASE PrintEnds(c)
  <2>1. prints' = prints \ {c} /\ file' \in {Pdf(c), Empty, file} /\ (At(c, "print") => call'[c].answer = Empty /\ call'[c].at = "print")
    BY <1>1, <1>5 DEF PrintEnds, Sets, Call, Calls, At
  <2>2. call[c].at = "print" \/ (call[c].at = "returned" /\ call[c].result = TimedOut /\ UNCHANGED call)
    BY <1>5 DEF PrintEnds, At, IInv, Printing
  <2>3. \A d \in Calls : call[d].at = "returned" /\ call[d].result = TimedOut => call'[d] = call[d]
    BY <2>2 DEF Only
  <2>4. \A d \in prints' : \/ call'[d].at = "print" /\ call'[d].answer = None
                           \/ call'[d].at = "returned" /\ call'[d].result = TimedOut
    BY <2>1 DEF IInv, Typed, Printing, Only
  <2>5. \/ call'[c].at = "print" /\ call'[c].answer # None
        \/ call'[c].at = "returned" /\ call'[c].result = TimedOut
    BY <2>1, <2>2 DEF At, Empty, None
  <2>6. ASSUME file' = Pdf(c) PROVE Printing'
    BY <2>4, <2>5, <2>6 DEF Printing, Only
  <2>7. ASSUME file' = Empty PROVE Printing'
    BY <2>4, <2>7 DEF Printing, Empty
  <2>8. ASSUME file' = file PROVE Printing'
    BY <2>4, <2>5, <2>8 DEF IInv, Printing, Only
  <2>9. QED
    BY <1>1, <1>5, <2>1, <2>6, <2>7, <2>8 DEF IInv, Typed, PrintEnds, Apart
<1>6. CASE spin_print(c) /\ os = "linux"
  <2>1. CASE ReadFile(c) /\ call[c].answer # None
    <3>1. c \notin prints /\ file' = None /\ prints' = prints
      BY <1>6, <2>1 DEF spin_print, At, ReadFile, AfterRead, IInv, Printing
    <3>2. QED
      BY <1>1, <1>6, <3>1 DEF IInv, Typed, Printing, Only, None
  <2>2. CASE call[c].answer = None /\ Expires(c)
    <3>1. call'[c].at = "returned" /\ call'[c].result = TimedOut /\ UNCHANGED <<prints, file>>
      BY <1>1, <1>6, <2>2 DEF Expires, Returned, gnome, Call, Calls
    <3>2. QED
      BY <1>6, <2>2, <3>1 DEF IInv, Typed, Printing, Only, spin_print, At
  <2>3. QED
    BY <1>6, <2>1, <2>2 DEF spin_print
<1>7. CASE os = "linux" /\ call[c].at \in {"returned", "print"}
  BY <1>5, <1>6, <1>7 DEF CallStep, Takes, GivesUp, create_hidden_window, Runtime, create_environment, create_controller,
                    spin_load, spin_print, Loads, Printed, At
<1>8. QED
  BY <1>2, <1>4, <1>7

LEMMA CallStepInv == ASSUME IInv, NEW c \in Calls, CallStep(c) PROVE IInv'
<1>1. PICK r : Leaves(c, r) /\ call' = [call EXCEPT ![c] = r] /\ UNCHANGED <<os, apple, gtk>>
  BY CallStepLeaves
<1>2. Only(c) /\ call'[c] = r /\ OneEach' /\ OwnAnswers' /\ Results' /\ \A d \in Calls : OnTheirSystem(d)'
  BY <1>1, OnlyStep DEF Leaves
<1>3. Chains' /\ \A b \in pending' : \E d \in Calls : b \in Block(d)
  BY <1>1, <1>2, ChainRests DEF Leaves
<1>4. Printing' /\ prints' \subseteq Calls /\ file' \in Answer /\ (os # "linux" => prints' = {} /\ file' = None)
  BY <1>2, PrintingStep
<1>5. Typed'
  BY <1>1, <1>2, <1>3, <1>4 DEF IInv, Typed, Only, Leaves, apple
<1>6. Freed'
  BY <1>1, <1>2 DEF IInv, Freed, Only, Leaves
<1>7. Apart'
  BY <1>1, <1>2, <1>4 DEF IInv, Apart, Only, Leaves, apple, OnTheirSystem
<1>8. QED
  BY <1>2, <1>3, <1>4, <1>5, <1>6, <1>7 DEF IInv

--------------------------------------------------------------------------------
\* A new call

LEMMA NewStep ==
  ASSUME IInv, NEW t \in Threads, html_to_pdf(t), UNCHANGED os
  PROVE  IInv'
<1> DEFINE c == Len(call) + 1
<1>1. call \in Seq(Call) /\ Len(call) \in Nat /\ Calls = 1..Len(call)
  BY LenProperties DEF IInv, Typed, Calls
<1>2. PICK at \in Stages, result \in {None, Failed} :
        /\ call' = New(t, at, result)
        /\ (at = "returned") = (result = Failed)
        /\ at = "wait" => os = "apple"
        /\ at \in {"window", "environment", "controller"} => os = "windows"
        /\ pending' = pending \/ (os = "apple" /\ at = "wait" /\ pending' = pending \cup {<<"setup", c>>})
        /\ com' = com \/ (os = "windows" /\ at = "window" /\ com' = com \cup {c})
        /\ gtk' = gtk \/ (gtk = "none" /\ os = "linux" /\ gtk' = t)
        /\ os = "linux" /\ at # "returned" => gtk' = t
        /\ UNCHANGED <<pipes, windows, prints, file>>
  <2>1. None # Failed
    BY DEF None, Failed
  <2>2. CASE dispatch_pipeline(t)
    BY <2>1, <2>2 DEF dispatch_pipeline, Stages, microsoft, gnome
  <2>3. CASE html_to_pdf_windows(t)
    BY <2>1, <2>3 DEF html_to_pdf_windows, Stages, apple, gnome
  <2>4. CASE html_to_pdf_linux(t)
    BY <2>1, <2>4 DEF html_to_pdf_linux, Stages, apple, microsoft
  <2>5. QED
    BY <2>2, <2>3, <2>4 DEF html_to_pdf
<1> DEFINE r == [thread |-> t, at |-> at, result |-> result, answer |-> None]
<1>3. r \in Call
  BY DEF Call, Answer
<1>4. /\ call' \in Seq(Call) /\ Calls' = Calls \cup {c} /\ c \notin Calls /\ call'[c] = r
      /\ \A d \in Calls : call'[d] = call[d]
  <2>1. call' = Append(call, r)
    BY <1>2 DEF New
  <2>2. call' \in Seq(Call) /\ Len(call') = c /\ call'[c] = r /\ \A d \in 1..Len(call) : call'[d] = call[d]
    BY <1>1, <1>3, <2>1, AppendProperties
  <2>3. Calls' = 1..c
    BY <2>2, LenProperties DEF Calls
  <2>4. QED
    BY <1>1, <2>2, <2>3
<1>5. r.thread = t /\ r.at = at /\ r.result = result /\ r.answer = None /\ (at # "returned" => result = None)
  BY <1>2 DEF Failed, None
<1>6. c \notin pipes \cup com \cup windows \cup prints /\ Block(c) \cap pending = {}
  BY <1>4, BlocksApart DEF IInv, Typed
<1>7. Typed'
  <2>1. <<"setup", c>> \in Block(c)
    BY DEF Block
  <2>2. QED
    BY <1>2, <1>4, <2>1 DEF IInv, Typed
<1>8. OneEach'
  <2>1. \A d \in Calls : call[d].thread = t => call[d].at = "returned"
    BY DEF html_to_pdf, Idle
  <2>2. QED
    BY <1>4, <1>5, <2>1 DEF IInv, OneEach
<1>9. Apart'
  <2>1. os = "linux" => \A d \in Calls : call[d].at # "returned" => gtk # "none"
    <3>1. \A d \in Calls : call[d].thread \in Threads
      BY Records DEF Call
    <3>2. QED
      BY <3>1, ThreadsAssumption DEF IInv, Apart
  <2>2. QED
    BY <1>2, <1>4, <1>5, <2>1 DEF IInv, Apart
<1>10. OwnAnswers' /\ Printing' /\ Freed' /\ Results'
  <2>1. OwnAnswers'
    BY <1>4, <1>5 DEF IInv, OwnAnswers, None
  <2>2. Printing'
    BY <1>2, <1>4 DEF IInv, Typed, Printing
  <2>3. Freed'
    BY <1>2, <1>4, <1>5, <1>6 DEF IInv, Freed, None, Failed
  <2>4. Results'
    BY <1>2, <1>4, <1>5 DEF IInv, Results, Result, None, Failed
  <2>5. QED
    BY <2>1, <2>2, <2>3, <2>4
<1>11. Chains'
  <2>1. <<"setup", c>> \in Block(c) /\ \A d \in Calls : Block(d) \cap pending' = Block(d) \cap pending
    BY <1>2, <1>4, BlocksApart DEF Block
  <2>2. Block(c) \cap pending' \subseteq {<<"setup", c>>}
    BY <1>2, <1>6
  <2>3. <<"poll", c>> \notin pending' /\ <<"completion", c>> \notin pending'
    BY <2>2 DEF Block
  <2>4. \A d \in Calls : Owned(d)' = Owned(d)
    BY <2>1 DEF Owned, Block
  <2>5. \A d \in Calls' : \A x, y \in Block(d) \cap pending' : x = y
    BY <1>4, <2>1, <2>2 DEF IInv, Chains
  <2>6. \A d \in Calls' : d \in pipes' <=> Owned(d)'
    BY <1>2, <1>4, <1>6, <2>3, <2>4 DEF IInv, Chains, Owned
  <2>7. Block(c) \cap pending' # {} => at = "wait"
    BY <1>2, <1>6
  <2>8. \A d \in Calls' : Block(d) \cap pending' # {} =>
          call'[d].at \in {"wait", "returned"} /\ call'[d].answer = None /\ call'[d].result.kind # "pdf"
    BY <1>4, <1>5, <2>1, <2>7 DEF IInv, Chains, None
  <2>9. QED
    BY <2>5, <2>6, <2>8 DEF Chains
<1>12. QED
  BY <1>7, <1>8, <1>9, <1>10, <1>11 DEF IInv

LEMMA NextInv == IInv /\ [WebViewNext]_views => IInv'
<1>1. SUFFICES ASSUME IInv, [WebViewNext]_views PROVE IInv'
  OBVIOUS
<1>2. CASE WebViewNext
  BY <1>1, <1>2, NewStep, QueueStep, CallStepInv DEF WebViewNext, Caller, CallStep
<1>3. QED
  BY <1>1, <1>2, Await

\* What every thread, block and file of a call is at each of its steps.
THEOREM Inductive == WebViewSpec => []IInv
  BY InitInv, NextInv, PTL DEF WebViewSpec

--------------------------------------------------------------------------------
\* On no system does html_to_pdf return the document of another call, except, on Linux,
\* one that a call which had given up left in the file of the process.
THEOREM RendersTheHtmlOfTheCall == WebViewSpec => []RendersItsOwn
<1>1. IInv => RendersItsOwn
  <2>1. SUFFICES ASSUME IInv, NEW c \in Calls, call[c].result.kind = "pdf"
                 PROVE  LET d == call[c].result.of IN
                        d = c \/ (os = "linux" /\ (d = 0 \/ call[d].result = TimedOut))
    BY DEF RendersItsOwn
  <2>2. Result(c, call[c].result)
    BY <2>1 DEF IInv, Results
  <2>3. QED
    <3>1. CASE call[c].result = Pdf(c)
      BY <3>1 DEF Pdf
    <3>2. CASE os = "linux" /\ call[c].result = Left
      BY <3>2 DEF Left, Pdf
    <3>3. ASSUME NEW d \in Calls, os = "linux", call[c].result = Pdf(d), call[d].result = TimedOut
          PROVE  os = "linux" /\ call[call[c].result.of].result = TimedOut
      <4>1. call[c].result.of = d
        BY <3>3 DEF Pdf
      <4>2. QED
        BY <3>3, <4>1
    <3>4. QED
      BY <2>2, <3>1, <3>2, <3>3 DEF Result
<1>2. QED
  BY <1>1, Inductive, PTL

\* A pipeline has one block that will free it, and what returned a PDF left nothing behind.
THEOREM FreesOnce == WebViewSpec => []ViewsAccounted
<1>1. IInv => ViewsAccounted
  <2>1. SUFFICES ASSUME IInv, NEW c \in Calls
                 PROVE  /\ Cardinality(Owners(c)) = IF c \in pipes THEN 1 ELSE 0
                        /\ call[c].result.kind = "pdf" => c \notin pipes \cup windows
                        /\ call[c].at = "returned" => c \notin com
    BY DEF ViewsAccounted
  <2>2. Owners(c) = {<<"poll", c>>, <<"completion", c>>} \cap pending
    <3>1. ASSUME NEW d \in Calls, NEW b \in Block(d), b[1] \in {"poll", "completion"}, b[2] = c
          PROVE  b \in {<<"poll", c>>, <<"completion", c>>}
      BY <3>1 DEF Block
    <3>2. \A b \in {<<"poll", c>>, <<"completion", c>>} : b[1] \in {"poll", "completion"} /\ b[2] = c
      OBVIOUS
    <3>3. ASSUME NEW b \in Owners(c) PROVE b \in {<<"poll", c>>, <<"completion", c>>}
      <4>1. b \in pending /\ b[1] \in {"poll", "completion"} /\ b[2] = c
        BY DEF Owners
      <4>2. PICK d \in Calls : b \in Block(d)
        BY <2>1, <4>1 DEF IInv, Typed
      <4>3. QED
        BY <3>1, <4>1, <4>2
    <3>4. Owners(c) \subseteq pending
      BY DEF Owners
    <3>5. ASSUME NEW b \in {<<"poll", c>>, <<"completion", c>>}, b \in pending PROVE b \in Owners(c)
      BY <3>2, <3>5 DEF Owners
    <3>6. QED
      BY <3>3, <3>4, <3>5
  <2>3. c \in pipes => \E b : Owners(c) = {b}
    <3>1. SUFFICES ASSUME c \in pipes PROVE \E b : Owners(c) = {b}
      OBVIOUS
    <3>2. PICK b \in {<<"poll", c>>, <<"completion", c>>} : b \in pending
      BY <2>1, <3>1 DEF IInv, Chains, Owned
    <3>3. \A x \in {<<"poll", c>>, <<"completion", c>>} \cap pending : x = b
      BY <2>1, <3>2 DEF IInv, Chains, Block
    <3>4. Owners(c) = {b}
      BY <2>2, <3>2, <3>3
    <3>5. QED
      BY <3>4
  <2>4. c \notin pipes => Owners(c) = {}
    BY <2>1, <2>2 DEF IInv, Chains, Owned
  <2>5. Cardinality(Owners(c)) = IF c \in pipes THEN 1 ELSE 0
    <3>1. CASE c \in pipes
      BY <3>1, <2>3, FS_Singleton
    <3>2. CASE c \notin pipes
      BY <3>2, <2>4, FS_EmptySet
    <3>3. QED
      BY <3>1, <3>2
  <2>6. call[c].result.kind = "pdf" => c \notin pipes
    BY <2>1 DEF IInv, Chains, Owned, Block
  <2>7. QED
    BY <2>1, <2>5, <2>6 DEF IInv, Freed
<1>2. QED
  BY <1>1, Inductive, PTL
=============================================================================
