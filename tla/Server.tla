------------------------------- MODULE Server -------------------------------
(***************************************************************************)
(* The life of a process: cmd/apimount/serve.go, the Serve methods of      *)
(* internal/frontend/webdav, nfs and mcp, and, for comparison, the one     *)
(* request of cmd/apimount/call.go; over the API client that its requests  *)
(* go through.                                                             *)
(*                                                                         *)
(* The kinds of process: "http" for WebDAV and for MCP over SSE, which end *)
(* the same way, "nfs", "stdio" for MCP over standard input and output,    *)
(* and "call".                                                             *)
(***************************************************************************)
EXTENDS Client

CONSTANTS
  Starts      \* kinds of process, and what the user has set up for each

ASSUME ServerAssumption ==
  \A s \in Starts : s.kind \in {"http", "nfs", "stdio", "call"} /\ s.world \in Worlds

VARIABLES
  kind,      \* the kind of this process
  phase,     \* "starting", "watching", "serving", "exited"
  signal,    \* SIGINT or SIGTERM: "none", "queued" or "taken" by the goroutine
  canceled,  \* ctx is done
  closed,    \* the listener has been closed
  status     \* the exit status, -1 while the process runs

lifeVars == <<kind, phase, signal, canceled, closed, status>>
vars == <<lifeVars, clientVars>>

ServerTypeOK ==
  /\ ClientTypeOK
  /\ phase \in {"starting", "watching", "serving", "exited"}
  /\ signal \in {"none", "queued", "taken"}
  /\ canceled \in BOOLEAN /\ closed \in BOOLEAN
  /\ status \in -1..2 /\ (status = -1 <=> phase # "exited")

Init ==
  /\ ClientInit
  /\ \E s \in Starts : kind = s.kind /\ world = s.world
  /\ phase = "starting"
  /\ signal = "none"
  /\ canceled = FALSE /\ closed = FALSE
  /\ status = -1

\* Mutant of Exit: the process ends without its status.
ExitSilently(code) == phase' = "exited" /\ status' = -1

\* main returns, or calls os.Exit.
Exit(code) == phase' = "exited" /\ status' = code

-----------------------------------------------------------------------------
(* Starting *)

\* The document is loaded and the executor built, or the command fails; a
\* server then asks for its signals, and a call is sent.
Setup ==
  /\ phase = "starting"
  /\ \/ Exit(1)
     \/ ~SetupFails(world) /\ phase' = (IF kind = "call" THEN "serving" ELSE "watching")
        /\ UNCHANGED status
  /\ UNCHANGED <<kind, signal, canceled, closed, clientVars>>

\* The listener is opened, if the address is free; http.Server refuses to
\* once it is closed, and the NFS server is told of it at its first Accept.
Listen ==
  /\ phase = "watching"
  /\ \/ phase' = "serving" /\ ~(kind = "http" /\ closed) /\ UNCHANGED status
     \/ kind # "stdio" /\ ~(kind = "http" /\ closed) /\ Exit(1)
     \/ kind = "http" /\ closed /\ Exit(0)
  /\ UNCHANGED <<kind, signal, canceled, closed, clientVars>>

-----------------------------------------------------------------------------
(* Stopping *)

Running == phase # "exited"
Watched == kind # "call" /\ phase \in {"watching", "serving"}

\* Without signal.Notify a signal ends the process; with it, one signal waits
\* in the channel and the rest are dropped.
Signal ==
  /\ Running /\ signal = "none"
  /\ IF Watched THEN signal' = "queued" /\ UNCHANGED <<phase, status>>
               ELSE Exit(2) /\ UNCHANGED signal
  /\ UNCHANGED <<kind, canceled, closed, clientVars>>

\* The goroutine of signalContext takes the first signal, and ends.
TakeSignal ==
  /\ Running /\ signal = "queued"
  /\ signal' = "taken"
  /\ canceled' = TRUE
  /\ UNCHANGED <<kind, phase, closed, status, clientVars>>

\* Mutant of Close: only a server that is up already is closed.
CloseListening ==
  /\ Running /\ canceled /\ ~closed /\ phase = "serving"
  /\ kind = "http"
  /\ closed' = TRUE
  /\ UNCHANGED <<kind, phase, signal, canceled, status, clientVars>>

\* The goroutine that Serve has left behind closes the server once ctx is
\* done; the NFS frontend starts it after its listener is open, and MCP over
\* stdio has none.
Close ==
  /\ Running /\ canceled /\ ~closed
  /\ kind = "http" \/ (kind = "nfs" /\ phase = "serving")
  /\ closed' = TRUE
  /\ UNCHANGED <<kind, phase, signal, canceled, status, clientVars>>

\* Serve returns, and with it main: requests under way are cut.
Stop ==
  /\ phase = "serving"
  /\ \/ kind \in {"http", "nfs"} /\ closed
     \/ kind = "stdio"
     \/ kind = "call" /\ requests = 1 /\ \A p \in Procs : pc[p] = "idle"
  /\ \E code \in (IF kind = "call" THEN {0, 1} ELSE {0}) : Exit(code)
  /\ UNCHANGED <<kind, signal, canceled, closed, clientVars>>

-----------------------------------------------------------------------------
(* Requests *)

MayBegin == phase = "serving" /\ ~closed /\ (kind = "call" => requests = 0)

Request(p) == MayBegin /\ Begin(p) /\ UNCHANGED lifeVars

Proceed(p) == Running /\ (Lock(p) \/ Send(p)) /\ UNCHANGED lifeVars

\* The issuer and the upstream.
Answered(p) == Running /\ (Granted(p) \/ NotGranted(p) \/ Return(p)) /\ UNCHANGED lifeVars

Time == Running /\ Tick /\ UNCHANGED lifeVars

Exited == phase = "exited" /\ UNCHANGED vars

Next ==
  \/ Setup \/ Listen \/ Signal \/ TakeSignal \/ Close \/ Stop \/ Exited
  \/ \E p \in Procs : Request(p) \/ Proceed(p) \/ Answered(p)
  \/ Time

\* Goroutines run, and a sync.Mutex lets nobody starve.  The upstream answers
\* or the client times out; that the issuer answers has to be assumed, since
\* the request for a token has no timeout.  Nobody has to signal, and standard
\* input need not end.
Fairness ==
  /\ WF_vars(Setup) /\ WF_vars(Listen) /\ WF_vars(TakeSignal) /\ WF_vars(Close)
  /\ WF_vars(kind # "stdio" /\ Stop)
  /\ \A p \in Procs : SF_vars(Proceed(p)) /\ WF_vars(Answered(p))

Spec == Init /\ [][Next]_vars /\ Fairness

-----------------------------------------------------------------------------
(* Properties *)

\* "It must return when ctx is done" (frontend.go:19): a server whose ctx is
\* done ends.
Returns == canceled ~> phase = "exited"

\* The same of every process but MCP over stdio, from the signal on, at
\* whatever moment of its start the signal comes (serve.go:126-136,
\* webdav.go:53-61, nfs.go:44-63, mcp.go:79-88).
Stops == signal = "queued" /\ kind # "stdio" ~> phase = "exited"

\* A request ends, or ends with its process: nobody waits for the mutex of the
\* token provider for ever, whether the issuer hands out tokens or refuses
\* (oauth2cc.go:69-85).
RequestsEnd == \A p \in Procs : pc[p] # "idle" ~> pc[p] = "idle" \/ phase = "exited"
=============================================================================
