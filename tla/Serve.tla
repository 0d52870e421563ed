------------------------------- MODULE Serve --------------------------------
(***************************************************************************)
(* The `user serve` command (src/cmd/user/serve.go): serve's own steps,   *)
(* the interrupt goroutine it spawns, and the HTTP handlers that open     *)
(* files of the filesystem.  `open` holds the resources that are open:    *)
(* the contract set, the pseudo filesystem built on it, and the listening *)
(* server.  Loading, connecting and listening may fail; an interrupt may  *)
(* arrive at any time, and before signal.Notify has run it kills the      *)
(* process (Go's default SIGINT action).                                  *)
(***************************************************************************)
EXTENDS Naturals, Sequences

CONSTANTS Handlers     \* concurrent HTTP request handlers

VARIABLES
    pc,           \* serve's goroutine
    sigPc,        \* the interrupt goroutine
    stops,        \* how many of its Close calls it has made
    open,         \* subset of {"contracts", "pfs", "srv"}
    srvClosed,    \* srv.Close has been called (http.Server is shutting down)
    interrupted,  \* an interrupt has been delivered
    handler       \* handler state: "idle" or "open" (serving a file)

vars == <<pc, sigPc, stops, open, srvClosed, interrupted, handler>>

Resources == {"contracts", "pfs", "srv"}

-----------------------------------------------------------------------------

CloseRes(r) ==
    /\ open' = open \ {r}
    /\ srvClosed' = (srvClosed \/ r = "srv")

\* renter.LoadContracts; on success the deferred contracts.Close is armed.
LoadContracts ==
    /\ pc = "load"
    /\ \/ /\ open' = open \cup {"contracts"}
          /\ pc' = "newfs"
       \/ /\ pc' = "returned"
          /\ UNCHANGED open
    /\ UNCHANGED <<sigPc, stops, srvClosed, interrupted, handler>>

\* renterutil.NewFileSystem; an error returns through the deferred Close.
NewFileSystem ==
    /\ pc = "newfs"
    /\ \/ /\ open' = open \cup {"pfs"}
          /\ pc' = "spawn"
       \/ /\ pc' = "return"
          /\ UNCHANGED open
    /\ UNCHANGED <<sigPc, stops, srvClosed, interrupted, handler>>

\* Build srv and start the interrupt goroutine.
Spawn ==
    /\ pc = "spawn"
    /\ pc' = "listen"
    /\ sigPc' = "spawned"
    /\ UNCHANGED <<stops, open, srvClosed, interrupted, handler>>

\* srv.ListenAndServe: ErrServerClosed at once if srv.Close already ran,
\* otherwise it fails (address in use) or listens.
ListenAndServe ==
    /\ pc = "listen"
    /\ \/ /\ srvClosed
          /\ pc' = "return"
          /\ UNCHANGED open
       \/ /\ ~srvClosed
          /\ \/ /\ pc' = "return"
                /\ UNCHANGED open
             \/ /\ pc' = "serving"
                /\ open' = open \cup {"srv"}
    /\ UNCHANGED <<sigPc, stops, srvClosed, interrupted, handler>>

\* ListenAndServe returns ErrServerClosed once srv.Close has run; serve
\* returns nil.
ServeReturns ==
    /\ pc = "serving"
    /\ srvClosed
    /\ pc' = "return"
    /\ UNCHANGED <<sigPc, stops, open, srvClosed, interrupted, handler>>

\* The deferred contracts.Close as serve returns.
DeferredClose ==
    /\ pc = "return"
    /\ pc' = "returned"
    /\ open' = open \ {"contracts"}
    /\ UNCHANGED <<sigPc, stops, srvClosed, interrupted, handler>>

\* serve's caller, the command's main, exits once serve has returned; the
\* other goroutines stop with the process.
Exit ==
    /\ pc = "returned"
    /\ pc' = "exited"
    /\ UNCHANGED <<sigPc, stops, open, srvClosed, interrupted, handler>>

Running == pc # "exited"

\* signal.Notify(sigChan, os.Interrupt).
Notify ==
    /\ Running
    /\ sigPc = "spawned"
    /\ sigPc' = "waiting"
    /\ UNCHANGED <<pc, stops, open, srvClosed, interrupted, handler>>

\* <-sigChan.
Receive ==
    /\ Running
    /\ sigPc = "waiting"
    /\ interrupted
    /\ sigPc' = "stopping"
    /\ UNCHANGED <<pc, stops, open, srvClosed, interrupted, handler>>

StopOrderNoServer == <<"pfs">>
StopOrderDoubleClose == <<"srv", "pfs", "pfs">>

\* The goroutine's calls after the interrupt: srv.Close(), then pfs.Close().
StopOrder == <<"srv", "pfs">>

StopStep ==
    /\ Running
    /\ sigPc = "stopping"
    /\ CloseRes(StopOrder[stops + 1])
    /\ stops' = stops + 1
    /\ sigPc' = IF stops + 1 = Len(StopOrder) THEN "done" ELSE "stopping"
    /\ UNCHANGED <<pc, interrupted, handler>>

\* The user presses Ctrl-C.  Until signal.Notify has run, Go's default
\* action terminates the process.
Interrupt ==
    /\ Running
    /\ ~interrupted
    /\ interrupted' = TRUE
    /\ pc' = IF sigPc \in {"none", "spawned"} THEN "exited" ELSE pc
    /\ UNCHANGED <<sigPc, stops, open, srvClosed, handler>>

\* A request: http.FileServer calls httpFS.Open, which opens the file in
\* pfs and wraps it in a bufferedFile.
HandleOpen(h) ==
    /\ Running
    /\ handler[h] = "idle"
    /\ "srv" \in open
    /\ handler' = [handler EXCEPT ![h] = "open"]
    /\ UNCHANGED <<pc, sigPc, stops, open, srvClosed, interrupted>>

\* The handler has read the file through bufferedFile.Read and closes it.
\* srv.Close does not wait for running handlers, so this may come after it.
HandleDone(h) ==
    /\ Running
    /\ handler[h] = "open"
    /\ handler' = [handler EXCEPT ![h] = "idle"]
    /\ UNCHANGED <<pc, sigPc, stops, open, srvClosed, interrupted>>

MainStep ==
    LoadContracts \/ NewFileSystem \/ Spawn \/ ListenAndServe
    \/ ServeReturns \/ DeferredClose \/ Exit

SignalStep == Notify \/ Receive \/ StopStep

Init ==
    /\ pc = "load"
    /\ sigPc = "none"
    /\ stops = 0
    /\ open = {}
    /\ srvClosed = FALSE
    /\ interrupted = FALSE
    /\ handler = [h \in Handlers |-> "idle"]

Next ==
    \/ MainStep
    \/ SignalStep
    \/ Interrupt
    \/ \E h \in Handlers : HandleOpen(h) \/ HandleDone(h)

\* The Go scheduler runs every runnable goroutine: serve's and the
\* interrupt goroutine's steps are weakly fair.  Interrupts and requests
\* come from outside and are not.
Fairness == WF_vars(MainStep) /\ WF_vars(SignalStep)

Spec == Init /\ [][Next]_vars /\ Fairness

-----------------------------------------------------------------------------

TypeOK ==
    /\ pc \in {"load", "newfs", "spawn", "listen", "serving", "return", "returned", "exited"}
    /\ sigPc \in {"none", "spawned", "waiting", "stopping", "done"}
    /\ stops \in 0..2
    /\ open \subseteq Resources
    /\ srvClosed \in BOOLEAN
    /\ interrupted \in BOOLEAN
    /\ handler \in [Handlers -> {"idle", "open"}]

\* Ctrl-C ends the command: after an interrupt serve returns and the process
\* exits, whichever step serve and the goroutine were at.
InterruptStopsServe == interrupted ~> pc = "exited"

\* When serve returns to its caller, the filesystem it opened has been
\* closed (the goroutine's pfs.Close has run).
ReturnAfterFSClosed == pc = "returned" => "pfs" \notin open
=============================================================================
