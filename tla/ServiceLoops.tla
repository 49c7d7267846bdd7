------------------------------ MODULE ServiceLoops ------------------------------
(***************************************************************************)
(* The life of a service process (app.Server): Run starts the consumer     *)
(* loop, the anchor loop and the HTTP server and waits for a signal or for *)
(* the listener to fail.  After a signal Shutdown cancels the context of   *)
(* both loops, waits at most five seconds for the requests in flight, and  *)
(* then waits for the loops, for as long as they take.  When the listener  *)
(* fails Run returns at once, and the process ends under its loops.        *)
(***************************************************************************)
EXTENDS KafkaFake

CONSTANT MaxRequests     \* bound: HTTP requests in flight

ASSUME RequestsAssumption == MaxRequests \in Nat

VARIABLES run,           \* "serving", "draining" the requests, "waiting" for the
                         \* loops, "returned" from Shutdown, or "failed" to listen
          anchor,        \* the anchor loop: "off", "waiting", "running" or "ended"
          requests,      \* HTTP requests in flight
          timedOut,      \* http.Shutdown gave up on requests
          exited         \* main has returned, or called log.Fatalf

serverVars == <<run, anchor, requests, timedOut, exited>>
serviceVars == <<fakeVars, serverVars>>

Alive == ~exited /\ ~panicked

-------------------------------------------------------------------------------
\* The consumer of a live process.  Other code reaches it through Server.Consumer.
ConsumerDo(step) == Alive /\ step /\ UNCHANGED serverVars

Enqueue(c) ==
    \/ \E m \in Messages : EnqueueChecks(c, m)
    \/ EnqueueSends(c) \/ EnqueueFindsFeedFull(c) \/ EnqueuePanics(c)

HandlerEnds == HandlerReturns \/ HandlerFails

ServerDo(step) == Alive /\ step /\ UNCHANGED <<exited, fakeVars>>

\* A tick of the anchor loop: a run of the anchor job begins, and ends.
Tick ==
    /\ anchor = "waiting" /\ anchor' = "running"
    /\ UNCHANGED <<run, requests, timedOut>>

AnchorReturns ==
    /\ anchor = "running" /\ anchor' = "waiting"
    /\ UNCHANGED <<run, requests, timedOut>>

\* The select of the loop may choose a tick that is due instead.
AnchorSeesCancel ==
    /\ anchor = "waiting" /\ cancelled /\ anchor' = "ended"
    /\ UNCHANGED <<run, requests, timedOut>>

RequestComes ==
    /\ run = "serving" /\ requests < MaxRequests
    /\ requests' = requests + 1
    /\ UNCHANGED <<run, anchor, timedOut>>

RequestEnds ==
    /\ requests > 0
    /\ requests' = requests - 1
    /\ UNCHANGED <<run, anchor, timedOut>>

ListenFails ==
    /\ run = "serving" /\ run' = "failed"
    /\ UNCHANGED <<anchor, requests, timedOut>>

\* Faulty variant of SignalComes: Shutdown does not cancel the loops.
SignalOnly ==
    /\ Alive /\ run = "serving" /\ run' = "draining"
    /\ UNCHANGED <<fakeVars, anchor, requests, timedOut, exited>>

\* SIGINT or SIGTERM: Shutdown cancels, then stops listening.  Later signals are
\* not received.
SignalComes ==
    /\ Alive /\ run = "serving" /\ run' = "draining"
    /\ Cancel
    /\ UNCHANGED <<anchor, requests, timedOut, exited>>

RequestsDrained ==
    /\ run = "draining" /\ requests = 0 /\ run' = "waiting"
    /\ UNCHANGED <<anchor, requests, timedOut>>

RequestsTimeOut ==
    /\ run = "draining" /\ requests > 0 /\ run' = "waiting"
    /\ timedOut' = TRUE
    /\ UNCHANGED <<anchor, requests>>

\* Faulty variant of LoopsEnded: nobody waits for the anchor loop.
ConsumerEnded ==
    /\ run = "waiting" /\ loop = "ended" /\ run' = "returned"
    /\ UNCHANGED <<anchor, requests, timedOut>>

\* The wait group.
LoopsEnded ==
    /\ run = "waiting" /\ loop = "ended" /\ anchor \in {"off", "ended"}
    /\ run' = "returned"
    /\ UNCHANGED <<anchor, requests, timedOut>>

\* Run has returned, and main ends the process.
Exit ==
    /\ Alive /\ run \in {"returned", "failed"}
    /\ exited' = TRUE
    /\ UNCHANGED <<fakeVars, run, anchor, requests, timedOut>>

\* Without an interval there is no anchor loop.
ServiceInit ==
    /\ FakeInit
    /\ run = "serving" /\ anchor \in {"off", "waiting"}
    /\ requests = 0 /\ timedOut = FALSE /\ exited = FALSE

ServiceNext ==
    \/ \E c \in Callers : ConsumerDo(Enqueue(c))
    \/ ConsumerDo(Receive) \/ ConsumerDo(HandlerEnds) \/ ConsumerDo(EndOfFeed)
    \/ ConsumerDo(SeeCancel) \/ ConsumerDo(Poll) \/ ConsumerDo(Stop)
    \/ ServerDo(Tick) \/ ServerDo(AnchorReturns) \/ ServerDo(AnchorSeesCancel)
    \/ ServerDo(RequestComes) \/ ServerDo(RequestEnds)
    \/ ServerDo(RequestsDrained) \/ ServerDo(RequestsTimeOut) \/ ServerDo(LoopsEnded)
    \/ ServerDo(ListenFails) \/ SignalComes \/ Exit

\* Handlers and runs of the anchor job return, and time passes.  Go's select
\* chooses at random among the cases that are ready, so a loop that keeps coming
\* to it sees the cancelled context in the end.  Requests need not end.
ServiceFairness ==
    /\ WF_serviceVars(ConsumerDo(Receive)) /\ WF_serviceVars(ConsumerDo(HandlerEnds))
    /\ WF_serviceVars(ServerDo(AnchorReturns))
    /\ WF_serviceVars(ServerDo(RequestsDrained) \/ ServerDo(RequestsTimeOut))
    /\ WF_serviceVars(ServerDo(LoopsEnded))
    /\ SF_serviceVars(ConsumerDo(SeeCancel)) /\ SF_serviceVars(ServerDo(AnchorSeesCancel))

ServiceSpec == ServiceInit /\ [][ServiceNext]_serviceVars /\ ServiceFairness

-------------------------------------------------------------------------------
ServiceTypeOK ==
    /\ run \in {"serving", "draining", "waiting", "returned", "failed"}
    /\ anchor \in {"off", "waiting", "running", "ended"}
    /\ requests \in 0..MaxRequests
    /\ timedOut \in BOOLEAN /\ exited \in BOOLEAN

\* "Shutdown gracefully stops the server": when it has returned no handler and no
\* run of the anchor job is under way, so none is cut off when the process ends,
\* and no request either that was given its five seconds.  Only a listener that
\* fails, or a panic, ends the process under its loops.  Inductive.
NothingIsCutOff ==
    /\ ServiceTypeOK
    /\ loop = "ended" => hand = None
    /\ exited => run \in {"returned", "failed"}
    /\ run = "returned" => loop = "ended" /\ anchor \in {"off", "ended"}
    /\ run \in {"waiting", "returned"} => requests = 0 \/ timedOut

\* A message that Enqueue accepted comes to a handler that returns, or is taken by
\* Poll, unless the process is told to stop, ends or dies first.  Stop alone does
\* not keep it from there: the feed is drained.
AcceptedIsHandled ==
    \A m \in Messages :
        m \in ToSet(accepted) ~> \/ m \in ToSet(committed) \cup uncommitted
                                 \/ cancelled \/ ~Alive

\* Shutdown comes to an end: neither a message that keeps a handler busy, nor a
\* tick, nor a request that never ends makes it wait for ever.
ShutdownReturns == run = "draining" ~> run = "returned" \/ panicked
===============================================================================
