------------------------------ MODULE Calendar ------------------------------
(* calendar.* (core/src/calendar.rs) over EventKit (modules/apple-calendar):   *)
(* callers share one worker thread, and a dialog that asks the user for access *)
(* holds it.  An event's attachments are files that are copied under the       *)
(* event's scope, and listed in its notes, whose order is left out.            *)
EXTENDS Naturals, Sequences, FiniteSetsExt

CONSTANTS
  Scripts,   \* host threads, each evaluating one script
  Events,    \* ids that events may have
  Sources,   \* files to attach, by their names
  MaxCalls   \* calls in one behaviour

\* "none" stands for a command without an event.
ASSUME EventsAssumption == "none" \notin Events

VARIABLES
  events,   \* the events of the store, each with what its notes list
  files,    \* managed attachments on disk
  access,   \* AccessStatus of the process: the other refusals are as Denied
  queue,    \* commands sent to the worker
  worker,   \* "ready", "asking" the user, or "stopped"
  call,     \* what each caller is doing
  mixed,    \* events that overlapping calls, or an uncertain answer, may have mixed up
  calls
calendar == <<events, files, access, queue, worker, call, mixed, calls>>

AtRest == [at |-> "idle", event |-> "none"]
Command(c, kind, event, paths) == [caller |-> c, kind |-> kind, event |-> event, paths |-> paths]
\* A path below CALENDAR_ATTACHMENT_ROOT: the scope of its event, a name and a suffix
Managed(event, name, n) == [scope |-> event, name |-> name, n |-> n]
File(name) == Managed("none", name, 0)
\* The notes of a command: none are set, or those that list these paths
Keep == {}

Begins(c) == call[c].at = "idle" /\ calls < MaxCalls /\ calls' = calls + 1
Goes(c, state) == call' = [call EXCEPT ![c] = state]
\* Mutant: a send to a stopped worker is not noticed.
Sends_Blindly(c, command, state) == queue' = Append(queue, command) /\ Goes(c, state)
\* EventKitBackend::call sends a command and waits; nobody answers once the worker stopped.
Sends(c, command, state) ==
  IF worker = "stopped" THEN queue' = queue /\ Goes(c, [state EXCEPT !.at = "answered", !.ok = FALSE])
  ELSE queue' = Append(queue, command) /\ Goes(c, state)
Waiting(op, event) == [at |-> "waiting", op |-> op, event |-> event, step |-> "last", ok |-> TRUE,
                       listed |-> {}, todo |-> <<>>, copied |-> {}, created |-> {}]
\* A call that changes an event, or its files, while another one does
Overlaps(c, event) ==
  {event} \cap {call[d].event : d \in {d \in Scripts \ {c} : call[d].at # "idle"}}

--------------------------------------------------------------------------------
(* The functions, up to their first command *)

Reading(c, kind, event) ==
  /\ Begins(c)
  /\ Sends(c, Command(c, kind, event, Keep), Waiting("reads", "none"))
  /\ UNCHANGED <<events, files, access, worker, mixed>>
status(c) == Reading(c, "Status", "none")
request_access(c) == Reading(c, "RequestFullAccess", "none")
\* Calendars, DefaultCalendar and Events: lists that nothing here depends on
calendars(c) == Reading(c, "List", "none")
default_calendar(c) == Reading(c, "List", "none")
list_events(c) == Reading(c, "List", "none")
get(c, e) == Reading(c, "Get", e)

Changing(c, op, kind, e, todo) ==
  /\ Begins(c)
  /\ Sends(c, Command(c, kind, e, Keep),
           [Waiting(op, e) EXCEPT !.step = IF kind = "Get" THEN "read" ELSE "last", !.todo = todo])
  /\ mixed' = mixed \cup Overlaps(c, e)
  /\ UNCHANGED <<events, files, access, worker>>
create(c, e) == e \notin DOMAIN events /\ Changing(c, "create", "Create", e, <<>>)
\* New notes are merged with the attachments that the event has.
update(c, e) == Changing(c, "update", "Get", e, <<>>) \/ Changing(c, "edit", "Update", e, <<>>)
delete(c, e) == Changing(c, "delete", "Get", e, <<>>)
\* One path, of a file or of an attachment, and after it perhaps that of a file
attach(c, e) ==
  LET sources == {File(name) : name \in Sources} IN
  \E first \in sources \cup files :
    \E todo \in {<<first>>} \cup {<<first, second>> : second \in sources} : Changing(c, "attach", "Get", e, todo)

--------------------------------------------------------------------------------
(* The worker *)

NeedsAccess(command) == command.kind \notin {"Status", "RequestFullAccess"}
ensure_full_access == access = "FullAccess"
Asks(command) == access = "NotDetermined" /\ command.kind # "Status"

Answer(c, ok, listed) == call' = [call EXCEPT ![c].at = "answered", ![c].ok = ok, ![c].listed = listed]
Denies(c) == Answer(c, FALSE, call[c].listed)
\* An event is looked up for every command; those that recur are not changed, and the
\* store may refuse what is asked.  After it was saved, reading it back may fail.
find_event(e) == e \in DOMAIN events
Changed(command) ==
  CASE command.kind = "Create" -> [e \in DOMAIN events \cup {command.event} |->
                                     IF e = command.event THEN [recurs |-> FALSE, paths |-> {}] ELSE events[e]]
    [] command.kind = "Update" /\ command.paths # Keep -> [events EXCEPT ![command.event].paths = CHOOSE paths \in command.paths : TRUE]
    [] command.kind = "Delete" -> [e \in DOMAIN events \ {command.event} |-> events[e]]
    [] OTHER -> events
Allowed(command) ==
  CASE command.kind \in {"Get", "Update", "Delete"} ->
         find_event(command.event) /\ (command.kind # "Get" => ~events[command.event].recurs)
    [] OTHER -> TRUE

\* Reading an event fails only if access or the event is missing.
Fails(command) ==
  \/ command.kind \notin {"Status", "Get"}
  \/ NeedsAccess(command) /\ ~(ensure_full_access /\ Allowed(command))

\* Any command but Status waits for the user when access was never asked for; a
\* command that finds no access, no event, or a refusal is answered with an error.
worker_loop ==
  /\ worker = "ready" /\ queue # <<>>
  /\ LET command == Head(queue) IN
     IF Asks(command) THEN worker' = "asking" /\ UNCHANGED <<events, queue, call, mixed>>
     ELSE /\ queue' = Tail(queue) /\ UNCHANGED worker
          /\ \/ /\ NeedsAccess(command) => ensure_full_access /\ Allowed(command)
                /\ events' = Changed(command)
                /\ \/ /\ Answer(command.caller, TRUE,
                                IF command.kind = "Get" THEN events[command.event].paths ELSE call[command.caller].listed)
                      /\ UNCHANGED mixed
                   \/ /\ command.kind \in {"Create", "Update"}
                      /\ Denies(command.caller)
                      /\ mixed' = mixed \cup {command.event}
             \/ /\ Fails(command)
                /\ Denies(command.caller)
                /\ UNCHANGED <<events, mixed>>
  /\ UNCHANGED <<files, access, calls>>

\* The user answers, now or after long; the command goes on with what was said.
UserAnswers ==
  /\ worker = "asking" /\ worker' = "ready"
  /\ access' \in {"FullAccess", "Denied"}
  /\ UNCHANGED <<events, files, queue, call, mixed, calls>>

\* A panic ends the worker: who waits for an answer gets an error, whatever was done.
WorkerStops ==
  /\ worker = "ready" /\ queue # <<>>
  /\ worker' = "stopped" /\ queue' = <<>>
  /\ events' \in {events} \cup (IF Allowed(Head(queue)) THEN {Changed(Head(queue))} ELSE {})
  /\ call' = [c \in Scripts |-> IF call[c].at = "waiting"
                                THEN [call[c] EXCEPT !.at = "answered", !.ok = FALSE] ELSE call[c]]
  /\ mixed' = mixed \cup {Head(queue).event}
  /\ UNCHANGED <<files, access, calls>>

--------------------------------------------------------------------------------
(* The functions, after an answer *)

Ends(c) == Goes(c, AtRest) /\ queue' = queue
cleanup_copied_attachments(paths) == files' = files \ paths
\* Mutant: the attachments that the event has are forgotten.
notes_with_attachments_NewOnly(listed, new) == new
notes_with_attachments(listed, new) == listed \cup new

\* The smallest suffix that is free
unique_attachment_path(e, name) ==
  Managed(e, name, Min({n \in 1..(Cardinality(files) + 1) : Managed(e, name, n) \notin files}))
Readable(source) == source.scope = "none" \/ source \in files

\* copy_calendar_attachments, one source after another: one that the event has is not
\* copied again, and a failure takes back the copies made.
Copy(c) ==
  /\ call[c].at = "copying" /\ call[c].todo # <<>>
  /\ LET state == call[c]
         source == Head(state.todo)
         own == source \in state.listed
         After(copied, created) == [state EXCEPT !.todo = Tail(@), !.copied = copied, !.created = created] IN
     \/ /\ Readable(source) /\ own
        /\ Goes(c, After(state.copied \cup {source}, state.created))
        /\ UNCHANGED files
     \/ /\ Readable(source) /\ ~own
        /\ LET path == unique_attachment_path(state.event, source.name) IN
           /\ files' = files \cup {path}
           /\ Goes(c, After(state.copied \cup {path}, state.created \cup {path}))
     \/ cleanup_copied_attachments(state.created) /\ Goes(c, AtRest)
  /\ UNCHANGED <<events, access, queue, worker, mixed, calls>>

\* calendar.attach with its copies made, and calendar.update with new notes
SendUpdate(c) ==
  /\ call[c].at = "copying" /\ call[c].todo = <<>>
  /\ Sends(c, Command(c, "Update", call[c].event, {notes_with_attachments(call[c].listed, call[c].copied)}),
           [call[c] EXCEPT !.at = "waiting", !.step = "last"])
  /\ UNCHANGED <<events, files, access, worker, mixed, calls>>

\* calendar.delete goes on even if the event was not found.
Read(c) ==
  /\ call[c].at = "answered" /\ call[c].step = "read"
  /\ CASE call[c].op = "delete" ->
            Sends(c, Command(c, "Delete", call[c].event, Keep),
                  [call[c] EXCEPT !.at = "waiting", !.step = "last", !.ok = TRUE])
       [] call[c].op # "delete" /\ call[c].ok -> Goes(c, [call[c] EXCEPT !.at = "copying"]) /\ UNCHANGED queue
       [] OTHER -> Ends(c)
  /\ UNCHANGED <<events, files, access, worker, mixed, calls>>

\* A refused attach takes its copies back, a delete that was done takes the files.
Return(c) ==
  /\ call[c].at = "answered" /\ call[c].step = "last"
  /\ Ends(c)
  /\ CASE call[c].op = "delete" /\ call[c].ok -> cleanup_copied_attachments(call[c].listed)
       [] call[c].op = "attach" /\ ~call[c].ok -> cleanup_copied_attachments(call[c].copied \ call[c].listed)
       [] OTHER -> UNCHANGED files
  /\ UNCHANGED <<events, access, worker, mixed, calls>>

--------------------------------------------------------------------------------
\* Access that was denied earlier is as if it were denied now.
CalendarInit ==
  /\ events \in UNION {[D -> [recurs : BOOLEAN, paths : {{}}]] : D \in SUBSET Events}
  /\ files = {} /\ access \in {"NotDetermined", "FullAccess"}
  /\ queue = <<>> /\ worker = "ready" /\ call = [c \in Scripts |-> AtRest]
  /\ mixed = {} /\ calls = 0

Continues(c) == Copy(c) \/ SendUpdate(c) \/ Read(c) \/ Return(c)
Starts(c) ==
  \/ status(c) \/ request_access(c) \/ calendars(c) \/ default_calendar(c) \/ list_events(c)
  \/ \E e \in Events : get(c, e) \/ create(c, e) \/ update(c, e) \/ delete(c, e) \/ attach(c, e)
CalendarNext == worker_loop \/ UserAnswers \/ WorkerStops \/ \E c \in Scripts : Starts(c) \/ Continues(c)

\* Threads run, and the user answers the dialog in the end.
CalendarFairness ==
  WF_calendar(worker_loop) /\ WF_calendar(UserAnswers) /\ \A c \in Scripts : WF_calendar(Continues(c))
CalendarSpec == CalendarInit /\ [][CalendarNext]_calendar /\ CalendarFairness

--------------------------------------------------------------------------------
\* An event's files are those its notes list: attach that fails half-way, or is refused,
\* leaves no copy behind, a delete leaves none, and new notes lose none
\* (calendar.rs, copy_calendar_attachments and cleanup_copied_attachments).
\* Exempt are events that calls changed at the same time, or whose change was saved
\* and then reported as failed.
AttachmentsAccounted ==
  \A e \in Events \ mixed : (\A c \in Scripts : call[c].at = "idle" \/ call[c].event # e) =>
    {f \in files : f.scope = e} = IF e \in DOMAIN events THEN events[e].paths ELSE {}

\* Every call returns (apple-calendar, worker_loop), though a dialog holds the worker and
\* the worker may stop: if the user answers.
CallsReturn == \A c \in Scripts : call[c].at # "idle" ~> call[c].at = "idle"
=============================================================================
