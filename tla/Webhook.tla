------------------------------ MODULE Webhook -------------------------------
(***************************************************************************)
(* The webhook dispatcher (services/gateway/internal/webhook) composed with*)
(* the event log it consumes.  Run subscribes once, then takes one event at*)
(* a time from its channel and posts it to every registration, retrying    *)
(* with a backoff, before it looks at the channel again; meanwhile the     *)
(* indexer keeps appending and HTTP handlers register and remove hooks.    *)
(*                                                                         *)
(* The dispatcher is subscription 0 of EventLog.  An endpoint may receive a*)
(* post and still answer with an error, or its answer may be lost.         *)
(***************************************************************************)
EXTENDS EventLog

CONSTANTS
    MaxHooks,   \* bound: number of Register calls
    Attempts    \* posts per event and hook (Options.Attempts)

\* One of the subscriptions is the dispatcher's own.
ASSUME WebhookConstantsOK ==
    MaxHooks \in Nat /\ Attempts \in Nat \ {0} /\ MaxSubs \in Nat \ {0}

VARIABLES
    regs,       \* ids of the registered hooks
    seq,        \* number of registrations so far
    ctx,        \* the context of Run is alive
    dpc,        \* where Run is
    todo,       \* hooks of the List snapshot that Deliver still has to serve
    attempt,    \* loop variable a of Deliver
    got,        \* ghost: got[h]: log positions hook h received, in order
    tries,      \* ghost: tries[h][i]: posts of position i to hook h
    due,        \* ghost: due[i]: the hooks Deliver served position i to
    removedAt   \* ghost: position being delivered when h was removed

D == 0
Hook == 1 .. MaxHooks
Position == 1 .. MaxEvents

regVars == <<regs, seq, removedAt>>
runVars == <<dpc, todo, attempt>>
ghostVars == <<got, tries, due>>
whVars == <<vars, regVars, runVars, ghostVars, ctx>>

\* The position in the log of the event taken last.
Current == start[D] + Len(rcvd[D])

WInit ==
    /\ Init
    /\ regs = {} /\ seq = 0 /\ ctx = TRUE
    /\ dpc = "init" /\ todo = {} /\ attempt = 0
    /\ got = [h \in Hook |-> <<>>]
    /\ tries = [h \in Hook |-> [i \in Position |-> 0]]
    /\ due = [i \in Position |-> {}]
    /\ removedAt = [h \in Hook |-> 0]

-----------------------------------------------------------------------------
Register ==
    /\ seq < MaxHooks
    /\ seq' = seq + 1
    /\ regs' = regs \cup {seq + 1}
    /\ UNCHANGED <<vars, runVars, ghostVars, ctx, removedAt>>

Remove(h) ==
    /\ h \in regs
    /\ regs' = regs \ {h}
    /\ removedAt' = [removedAt EXCEPT ![h] = Current]
    /\ UNCHANGED <<vars, seq, runVars, ghostVars, ctx>>

\* Mutant: removed registrations are still listed.
ListAll == 1 .. seq

\* List: the registrations.
List == regs

\* List is sorted: of the hooks it still has to serve Deliver serves the one with
\* the least id.
Serving(h) == h \in todo /\ \A g \in todo : h <= g

\* Run subscribes.
RunStart(buf) ==
    /\ dpc = "init"
    /\ Subscribe(buf, "reading")
    /\ dpc' = "select"
    /\ UNCHANGED <<regVars, todo, attempt, ghostVars, ctx>>

\* Run takes an event and Deliver lists the hooks.
Take ==
    /\ dpc = "select"
    /\ Receive(D)
    /\ todo' = List
    /\ attempt' = 0
    /\ dpc' = "post"
    /\ due' = [due EXCEPT ![Current + 1] = List]
    /\ UNCHANGED <<regVars, got, tries, ctx>>

\* Mutant: the hooks behind this one are forgotten.
NoNextHook(h) == todo' = {} /\ attempt' = 0 /\ dpc' = "post"

\* Deliver is done with hook h.
NextHook(h) ==
    /\ todo' = todo \ {h}
    /\ attempt' = 0
    /\ dpc' = "post"

\* Mutant: one attempt too few.
PostFailedOneLess(h) ==
    IF attempt + 1 < Attempts - 1
    THEN dpc' = "sleep" /\ UNCHANGED <<todo, attempt>>
    ELSE NextHook(h)

\* A failed post: sleep before the next attempt, or give up after the last one.
PostFailed(h) ==
    IF attempt < Attempts - 1
    THEN dpc' = "sleep" /\ UNCHANGED <<todo, attempt>>
    ELSE NextHook(h)

\* One post.  It may succeed; fail without reaching the endpoint; or reach it
\* and be reported as failed (non-2xx status, lost answer).  Once the context
\* is cancelled the client sends nothing.
Post ==
    /\ dpc = "post"
    /\ \E h \in todo :
        /\ Serving(h)
        /\ tries' = [tries EXCEPT ![h][Current] = @ + 1]
        /\ \/ /\ ctx
              /\ got' = [got EXCEPT ![h] = Append(@, Current)]
              /\ NextHook(h) \/ PostFailed(h)
           \/ /\ PostFailed(h)
              /\ UNCHANGED got
    /\ UNCHANGED <<vars, regVars, due, ctx>>

\* Mutant: the attempt counter is not advanced.
SameAttempt(a) == a

NextAttempt(a) == a + 1

\* The backoff is over.
Wake ==
    /\ dpc = "sleep"
    /\ dpc' = "post"
    /\ attempt' = NextAttempt(attempt)
    /\ UNCHANGED <<vars, regVars, todo, ghostVars, ctx>>

\* Deliver has served every hook of its snapshot and returns.
Delivered ==
    /\ dpc = "post" /\ todo = {}
    /\ Handled(D)
    /\ dpc' = "select"
    /\ UNCHANGED <<regVars, todo, attempt, ghostVars, ctx>>

\* The gateway shuts down.
CtxDone ==
    /\ ctx
    /\ ctx' = FALSE
    /\ UNCHANGED <<vars, regVars, runVars, ghostVars>>

\* Mutant: the select has no case for the context.
RunIgnoresCtx ==
    /\ dpc = "select" /\ ~ctx
    /\ UNCHANGED whVars

\* Run sees the cancelled context (select may also prefer a waiting event).
RunCancelled ==
    /\ dpc = "select" /\ ~ctx
    /\ Leave(D)
    /\ dpc' = "stopped"
    /\ UNCHANGED <<regVars, todo, attempt, ghostVars, ctx>>

\* Run sees its channel closed by an eviction and returns.
RunEvicted ==
    /\ dpc = "select"
    /\ SeeClosed(D)
    /\ dpc' = "stopped"
    /\ UNCHANGED <<regVars, todo, attempt, ghostVars, ctx>>

Publish(k, x) == AppendEvent(k, x) /\ UNCHANGED <<regVars, runVars, ghostVars, ctx>>

WNext ==
    \/ Register
    \/ \E h \in Hook : Remove(h)
    \/ \E buf \in BufSizes : RunStart(buf)
    \/ Take \/ Post \/ Wake \/ Delivered
    \/ CtxDone \/ RunCancelled \/ RunEvicted
    \/ \E k \in Key, x \in Payload : Publish(k, x)

WSpec == WInit /\ [][WNext]_whVars

\* The goroutine of Run is scheduled and every post returns (client timeout), so
\* unlike a stream to a client Deliver always ends.
WFairness ==
    /\ \A buf \in BufSizes : WF_whVars(RunStart(buf))
    /\ WF_whVars(Take) /\ WF_whVars(Post) /\ WF_whVars(Wake)
    /\ WF_whVars(Delivered)
    /\ WF_whVars(RunCancelled) /\ WF_whVars(RunEvicted)

WFairSpec == WSpec /\ WFairness

-----------------------------------------------------------------------------
Received(h, i) == \E j \in DOMAIN got[h] : got[h][j] = i

\* A hook sees events in log order; an event is repeated only by a retry that
\* directly follows, and at most Attempts times.
HooksInOrder ==
    \A h \in Hook :
        /\ \A j \in 1 .. Len(got[h]) - 1 : got[h][j] <= got[h][j + 1]
        /\ \A i \in Position :
              Cardinality({j \in DOMAIN got[h] : got[h][j] = i}) <= Attempts

\* At least once or exhausted: when Deliver has moved on from a hook, the hook
\* received the event or every attempt was used up.
NoSilentSkip ==
    \A i \in Position : \A h \in due[i] :
        \/ Received(h, i)
        \/ tries[h][i] = Attempts
        \/ i = Current /\ h \in todo

\* Remove takes effect at the next event: a hook that was removed receives
\* nothing later than the event in delivery when it was removed.
RemovedGetsNoLaterEvent ==
    \A h \in Hook : h <= seq /\ h \notin regs =>
        \A j \in DOMAIN got[h] : got[h][j] <= removedAt[h]

\* Every event that is waiting for the dispatcher while a hook is registered is
\* eventually tried on that hook, unless the hook is removed or Run ends.
HookServed ==
    \A h \in Hook, i \in Position :
        (/\ h \in regs /\ D \in subs
         /\ Current < i /\ i <= Len(history))
            ~> (tries[h][i] > 0 \/ h \notin regs \/ dpc = "stopped")

\* A shutdown ends Run, retries and queued events notwithstanding.
ShutdownStops == ~ctx ~> dpc = "stopped"

\* "Run consumes the log's live stream until ctx ends."
RunsUntilCtxEnds == dpc = "stopped" => ~ctx

=============================================================================
