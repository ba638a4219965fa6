------------------------------- MODULE Gateway ------------------------------
(***************************************************************************)
(* The life of the gateway (Serve in services/gateway/internal/app) around *)
(* the goroutine that polls the chain (indexer.Run), here over the Solana  *)
(* source.                                                                 *)
(*                                                                         *)
(* Serve starts the background goroutines (the indexer's and the webhook   *)
(* dispatcher's) under a context of their own, starts the HTTP server,     *)
(* whose end comes through a channel, and waits for that or for its caller *)
(* to cancel.  A cancelled context fails the call to a node that is under  *)
(* way and every later one.  A connection's handler runs beside all this.  *)
(*                                                                         *)
(* "Serve runs the gateway on ln until ctx is cancelled, then drains" and  *)
(* "close then wait for handlers" (app.go) are not what Serve does: Close  *)
(* drops every connection and forgets it, so Shutdown has nobody to wait   *)
(* for and Serve may return while handlers still run; and when the         *)
(* listener fails Serve returns at once and touches no connection.         *)
(***************************************************************************)
EXTENDS Solana

VARIABLES
    ctx,        \* the context given to Serve is alive
    bg,         \* the context of the background goroutines is
    serve,      \* where Serve is
    server,     \* the goroutine of srv.Serve: "none", "accepting" or "ended"
    errc,       \* number of values in the channel errc
    loop,       \* the goroutine of indexer.Run
    hooks,      \* the goroutine of webhook's Run: "none", "running" or "stopped"
    conn        \* a connection's handler: "none", "running", or "dropped" when it
                \* runs on after its connection was closed under it

lifeVars == <<ctx, bg, serve, server, errc, loop, hooks, conn>>
gatewayVars == <<vars, lifeVars>>

GatewayInit ==
    /\ Init
    /\ ctx = TRUE /\ bg = TRUE
    /\ serve = "setup" /\ server = "none" /\ errc = 0 /\ loop = "none"
    /\ hooks = "none" /\ conn = "none"

-----------------------------------------------------------------------------
(* Serve and the HTTP server.                                                *)

\* The material for the engine's connection cannot be loaded.
SetupFails ==
    /\ serve = "setup" /\ serve' = "returned"
    /\ UNCHANGED <<vars, ctx, bg, server, errc, loop, hooks, conn>>

Start ==
    /\ serve = "setup" /\ serve' = "select"
    /\ server' = "accepting" /\ loop' = "begin" /\ hooks' = "running"
    /\ UNCHANGED <<vars, ctx, bg, errc, conn>>

\* The caller cancels; the background context is derived from this one.
Cancel ==
    /\ ctx
    /\ ctx' = FALSE /\ bg' = FALSE
    /\ UNCHANGED <<vars, serve, server, errc, loop, hooks, conn>>

\* srv.Serve returns, because the listener fails or the server is closed, and errc
\* has room for its error.
ServerEnds ==
    /\ server = "accepting" /\ errc < 1
    /\ server' = "ended" /\ errc' = errc + 1
    /\ UNCHANGED <<vars, ctx, bg, serve, loop, hooks, conn>>

ListenerFails == serve = "select" /\ ServerEnds
ServerClosed == serve \in {"closed", "returned"} /\ ServerEnds

\* Mutant: Serve does not stop what it started.
DeferredNothing == UNCHANGED bg

DeferredStop == bg' = FALSE

\* The two cases of the select.
ServeFails ==
    /\ serve = "select" /\ errc = 1
    /\ serve' = "returned" /\ errc' = 0
    /\ DeferredStop
    /\ UNCHANGED <<vars, ctx, server, loop, hooks, conn>>

\* Close: no more connections, and the one there is closes under its handler.
CloseServer ==
    /\ serve = "select" /\ ~ctx
    /\ serve' = "closed"
    /\ conn' = IF conn = "running" THEN "dropped" ELSE conn
    /\ UNCHANGED <<vars, ctx, bg, server, errc, loop, hooks>>

\* Shutdown finds no connection left and returns, whatever handlers do.
Shutdown ==
    /\ serve = "closed" /\ serve' = "returned"
    /\ DeferredStop
    /\ UNCHANGED <<vars, ctx, server, errc, loop, hooks, conn>>

-----------------------------------------------------------------------------
(* The dispatcher's goroutine, as Webhook models it, and a handler.          *)

\* Run returns because its context ended (Webhook's ShutdownStops says that it
\* does) or, at any time, because the event log evicted it.
HooksEnd ==
    /\ hooks = "running" /\ hooks' = "stopped"
    /\ UNCHANGED <<vars, ctx, bg, serve, server, errc, loop, conn>>

\* The server accepts a connection and starts its handler.
Connect ==
    /\ server = "accepting" /\ serve = "select" /\ conn = "none"
    /\ conn' = "running"
    /\ UNCHANGED <<vars, ctx, bg, serve, server, errc, loop, hooks>>

\* A handler returns.  A stream does so only when its client goes away or lets it
\* see that it was evicted, but on a dropped connection the request's context is
\* cancelled and every write fails.
HandlerReturns ==
    /\ conn # "none" /\ conn' = "none"
    /\ UNCHANGED <<vars, ctx, bg, serve, server, errc, loop, hooks>>

-----------------------------------------------------------------------------
(* Run: a pass begins with Head, asks for blocks until one cannot be had, and *)
(* ends; then Run waits for the ticker or the context.                        *)

PassAsks(n) ==
    /\ loop = "begin" \/ (loop = "sync" /\ result.kind # "error")
    /\ Call(n)
    /\ loop' = "sync"
    /\ UNCHANGED <<ctx, bg, serve, server, errc, hooks, conn>>

BlockStep ==
    /\ \/ bg /\ \E v \in Node : AskHead(v) \/ AskSlot(v) \/ AskBlocks(v) \/ AskBlock(v)
       \/ CallFails
    /\ UNCHANGED lifeVars

PassEnds ==
    /\ loop \in {"begin", "sync"} /\ pc = "idle"
    /\ loop' = "select"
    /\ UNCHANGED <<vars, ctx, bg, serve, server, errc, hooks, conn>>

Ticked ==
    /\ loop = "select" /\ loop' = "begin"
    /\ UNCHANGED <<vars, ctx, bg, serve, server, errc, hooks, conn>>

LoopStops ==
    /\ loop = "select" /\ ~bg
    /\ loop' = "stopped"
    /\ UNCHANGED <<vars, ctx, bg, serve, server, errc, hooks, conn>>

NodeStep ==
    /\ \/ \E v \in Node : \E s \in 1 .. MaxSlot : Produce(v, s)
       \/ \E u, v \in Node : Follow(v, u)
    /\ UNCHANGED lifeVars

GatewayNext ==
    \/ SetupFails \/ Start \/ Cancel
    \/ ListenerFails \/ ServerClosed \/ ServeFails \/ CloseServer \/ Shutdown
    \/ HooksEnd \/ Connect \/ HandlerReturns
    \/ \E n \in 0 .. MaxSlot : PassAsks(n)
    \/ BlockStep \/ PassEnds \/ Ticked \/ LoopStops
    \/ NodeStep

\* Goroutines are scheduled, a call with a cancelled context fails, and a select
\* chooses at random among its ready cases, so that none is passed over for ever.
\* A handler is only sure to return once its connection was dropped.
GatewayFairness ==
    /\ WF_gatewayVars(SetupFails \/ Start)
    /\ WF_gatewayVars(ServeFails \/ CloseServer) /\ WF_gatewayVars(Shutdown)
    /\ WF_gatewayVars(ServerClosed)
    /\ WF_gatewayVars(~bg /\ BlockStep) /\ WF_gatewayVars(~bg /\ PassEnds)
    /\ SF_gatewayVars(LoopStops)
    /\ WF_gatewayVars(~bg /\ HooksEnd) /\ WF_gatewayVars(conn = "dropped" /\ HandlerReturns)

GatewaySpec == GatewayInit /\ [][GatewayNext]_gatewayVars /\ GatewayFairness

-----------------------------------------------------------------------------
GatewayTypeOK ==
    /\ TypeOK
    /\ ctx \in BOOLEAN /\ bg \in BOOLEAN /\ (bg => ctx)
    /\ serve \in {"setup", "select", "closed", "returned"}
    /\ server \in {"none", "accepting", "ended"} /\ errc \in 0 .. 1
    /\ loop \in {"none", "begin", "sync", "select", "stopped"}
    /\ hooks \in {"none", "running", "stopped"} /\ conn \in {"none", "running", "dropped"}

\* Once the context is cancelled or the server has ended, Serve returns and the
\* goroutines that it started end: no pass stays in the middle of a block, the
\* dispatcher stops, and the server's goroutine reports its end and is gone.  When
\* Serve closes the server the handlers end as well, perhaps after Serve returned;
\* when the listener fails nothing ends them, and they are not claimed to.
NothingLeftRunning ==
    /\ (~ctx \/ server = "ended") ~>
        /\ serve = "returned"
        /\ server # "accepting"
        /\ loop \in {"none", "stopped"} /\ hooks \in {"none", "stopped"}
    /\ serve = "closed" ~> conn = "none"

=============================================================================
