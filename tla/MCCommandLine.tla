--------------------------- MODULE MCCommandLine -----------------------------
(* What a user meets at a command line: a session's evaluations, the terminals *)
(* that send it lines, and the commands that build, start and remove           *)
(* sandboxes.  The first state chooses one, and the others rest.               *)
EXTENDS MCShellEval, Terminal, MCImageStore

VARIABLE way

evaluations == vars
all == <<way, evaluations, terminal, commands>>

AllInit ==
  /\ way \in {"evaluations", "terminal", "store"} /\ Init /\ TerminalInit /\ StoreInit
  /\ way # "store" => manifest = WithGrep

\* The page gave up, or every line was typed; every command has ended.
Over ==
  \/ way = "terminal" /\ toWorker = <<>> /\ toPage = <<>> /\ (~ready \/ Len(lines) = MaxLines)
  \/ way = "store" /\ \A p \in Cmds : pc[p] \in Ended
AllNext ==
  \/ way = "evaluations" /\ Next /\ UNCHANGED <<way, terminal, commands>>
  \/ way = "terminal" /\ TerminalNext /\ UNCHANGED <<way, evaluations, commands>>
  \/ way = "store" /\ StoreNext /\ UNCHANGED <<way, evaluations, terminal>>
  \/ Over /\ UNCHANGED all

AllSpec == AllInit /\ [][AllNext]_all
==============================================================================
