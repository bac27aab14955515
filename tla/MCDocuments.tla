----------------------------- MODULE MCDocuments -----------------------------
(* Instances of DocFutures and WebViewPdf for TLC, what scripts do with        *)
(* documents: reads through futures and the vision cache, and renderings to    *)
(* PDF through a web view.  The first state chooses one, and the other rests.  *)
EXTENDS MCDocFutures, WebViewPdf

VARIABLE way

reads == vars
all == <<way, reads, views>>

AllInit ==
  \/ way = "reads" /\ Init /\ WebViewInit /\ os = "apple"
  \/ way = "views" /\ WebViewInit /\ Init /\ ~caching

\* t1 and t2 are alike: t1 is the one that calls first.
FirstCalls ==
  \A c \in DOMAIN call' : call'[c].thread = "t2" => \E d \in 1..c : call'[d].thread = "t1"

\* Every call returned, and nothing is left to the main queue and to prints.
Ended == /\ way = "views" /\ Len(call) = MaxCalls /\ pending = {} /\ prints = {}
         /\ \A c \in DOMAIN call : call[c].at = "returned"
AllNext ==
  \/ way = "reads" /\ Next /\ UNCHANGED <<way, views>>
  \/ way = "views" /\ WebViewNext /\ FirstCalls /\ UNCHANGED <<way, reads>>
  \/ Ended /\ UNCHANGED all

AllSpec == AllInit /\ [][AllNext]_all /\ Fairness /\ WebViewFairness
==============================================================================
