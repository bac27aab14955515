----------------------------- MODULE MCBridges -----------------------------
(* What the host lends a session: callbacks that the C ABI owns, of one        *)
(* session with everything that can be passed to it, or of two that overlap;   *)
(* and calendars behind one worker.  The first state chooses one, and the      *)
(* others rest.                                                                *)
EXTENDS FfiSession, Calendar

VARIABLE way

ffi == vars
all == <<way, ffi, calendar>>

\* Two sessions are offered no calendar, so a build without it is the same.
AllInit ==
  \/ way = "session" /\ Init /\ CalendarInit /\ events = <<>> /\ access = "FullAccess"
  \/ way = "sessions" /\ Init /\ "calendar" \notin features /\ CalendarInit /\ events = <<>> /\ access = "FullAccess"
  \/ way = "calendar" /\ CalendarInit /\ Init /\ features = {}

\* One session, of one thread
OneSession == task'["t2"] = Idle /\ phase'["s2"] = "unused"

\* Contexts that a document worker, a script, and a failing constructor use
Only(offer) == [f \in Families |-> IF f \in DOMAIN offer THEN offer[f] ELSE "absent"]
FewOffers == {Only([vision |-> "whole", file |-> "whole"]),
              Only([vision |-> "whole", location |-> "broken", browser |-> "whole"])}

\* Two threads and two sessions, which are alike: t1 and s1 are those that come first.
SmallOffers == \A s \in Sessions : phase'[s] = "unused" \/ given'[s] \in FewOffers
FirstBegins == phase["s1"] = "unused" => task'["t2"] = Idle /\ phase'["s2"] = "unused"

\* The callers are alike: c1 is the one that calls first.
FirstCalls == calls = 0 => call'["c2"].at = "idle"
AllNext ==
  \/ way = "session" /\ Next /\ OneSession /\ UNCHANGED <<way, calendar>>
  \/ way = "sessions" /\ Next /\ SmallOffers /\ FirstBegins /\ UNCHANGED <<way, calendar>>
  \/ way = "calendar" /\ CalendarNext /\ UNCHANGED <<way, ffi>> /\ FirstCalls

AllSpec == AllInit /\ [][AllNext]_all /\ Fairness /\ CalendarFairness
=============================================================================
