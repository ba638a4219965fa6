-------------------------------- MODULE Edge --------------------------------
(***************************************************************************)
(* The JSON-RPC edge: handlers of POST /rpc (jsonrpc.Serve and proxy in    *)
(* services/gateway/internal/server) that work through batches of requests *)
(* over the shared limiter (RateLimit) and the shared cache (Cache).       *)
(*                                                                         *)
(* A handler takes the limiter's and the cache's mutex one after the other *)
(* and waits for a node in between, so handlers interleave there.  The     *)
(* pool behind it is Upstream; here a call has any of its outcomes.        *)
(***************************************************************************)
EXTENDS RateLimit, Sequences

CONSTANTS
    Handler,    \* concurrent HTTP handlers
    Cap, TTL,   \* of Cache
    Hashes,     \* parameters of a request
    MaxBatch    \* requests in a batch

ASSUME EdgeConstantsOK == Cap \in Nat /\ TTL \in Nat \ {0} /\ MaxBatch \in Nat \ {0}

VARIABLES
    ll, m,      \* of Cache
    known,      \* hashes of blocks the nodes have
    pc,         \* pc[h]: "idle", "next", "lookup" or "call"
    client,     \* client[h]: the authenticated client
    left,       \* left[h]: requests of the batch still to answer
    cur,        \* cur[h]: the admitted request
    reply,      \* reply[h]: the last response written
    served      \* ghost: served[k]: lookups that hit plus calls sent for k

limiterVars == <<buckets, tokens, last, since>>
cacheVars == <<ll, m>>
handlerVars == <<pc, client, left, cur, reply>>
edgeVars == <<now, limiterVars, cacheVars, known, handlerVars, served>>

Method == {"eth_chainId", "eth_getBlockByHash", "eth_blockNumber"}
Params == Hashes \cup {"[]"}
Request ==
    [method : {"eth_getBlockByHash"}, params : Hashes]
        \cup [method : {"eth_chainId", "eth_blockNumber"}, params : {"[]"}]

\* The table cacheable, and the key under which proxy stores an answer.
cacheable == {"eth_chainId", "eth_getBlockByHash"}

\* Mutant: the parameters are left out of the key.
CacheKeyOfMethod(q) == <<q.method, "[]">>

CacheKey(q) == <<q.method, q.params>>

C == INSTANCE Cache WITH Entry <- Method \X Params

\* Responses: none yet in this batch, an error or a node's answer, or one from the
\* cache (see Cached).
NoReply == [kind |-> "none"]
Plain == [kind |-> "plain"]

EdgeInit ==
    /\ Init
    /\ C!Init
    /\ known \in SUBSET Hashes
    /\ pc = [h \in Handler |-> "idle"]
    /\ client \in [Handler -> Key]
    /\ left = [h \in Handler |-> 0]
    /\ cur = [h \in Handler |-> << >>]
    /\ reply = [h \in Handler |-> NoReply]
    /\ served = [k \in Key |-> 0]

-----------------------------------------------------------------------------
\* A batch of a known client arrives.  Unknown keys, bodies that do not parse and
\* batches of the wrong size are refused before anything is touched.
Serve(h, k, n) ==
    /\ pc[h] = "idle"
    /\ pc' = [pc EXCEPT ![h] = "next"]
    /\ client' = [client EXCEPT ![h] = k]
    /\ left' = [left EXCEPT ![h] = n]
    /\ reply' = [reply EXCEPT ![h] = NoReply]
    /\ UNCHANGED <<now, limiterVars, cacheVars, known, cur, served>>

\* One response is written; after the last the handler is done.
Respond(h, r) ==
    /\ reply' = [reply EXCEPT ![h] = r]
    /\ left' = [left EXCEPT ![h] = @ - 1]
    /\ pc' = [pc EXCEPT ![h] = IF left[h] = 1 THEN "idle" ELSE "next"]
    /\ cur' = [cur EXCEPT ![h] = << >>]
    /\ UNCHANGED client

\* An element that is no valid request is answered without the proxy.
Invalid(h) ==
    /\ pc[h] = "next"
    /\ Respond(h, Plain)
    /\ UNCHANGED <<now, limiterVars, cacheVars, known, served>>

Limited(h) ==
    /\ pc[h] = "next"
    /\ Denied(client[h])
    /\ Respond(h, Plain)
    /\ UNCHANGED <<cacheVars, known, served>>

\* Mutant: only the first request of a batch takes a token.
TakeTokenOnce(h) ==
    IF reply[h] = NoReply THEN Admitted(client[h]) ELSE UNCHANGED <<now, limiterVars>>

TakeToken(h) == Admitted(client[h])

Admit(h, q) ==
    /\ pc[h] = "next"
    /\ TakeToken(h)
    /\ cur' = [cur EXCEPT ![h] = q]
    /\ pc' = [pc EXCEPT ![h] = IF q.method \in cacheable THEN "lookup" ELSE "call"]
    /\ UNCHANGED <<cacheVars, known, client, left, reply, served>>

Count(h) == served' = [served EXCEPT ![client[h]] = @ + 1]

\* The answer of the cache.  Its age is noted for the properties.
Cached(h) ==
    /\ pc[h] = "lookup"
    /\ \E i \in 1 .. Len(ll) :
        /\ C!Hit(CacheKey(cur[h]), i)
        /\ Respond(h, [kind |-> "cached", to |-> cur[h], result |-> ll[i].val.result,
                       for |-> ll[i].val.for, age |-> now - ll[i].val.born])
    /\ Count(h)
    /\ UNCHANGED <<now, limiterVars, known>>

NotCached(h) ==
    /\ pc[h] = "lookup"
    /\ C!Miss(CacheKey(cur[h])) \/ C!Expired(CacheKey(cur[h]))
    /\ pc' = [pc EXCEPT ![h] = "call"]
    /\ UNCHANGED <<now, limiterVars, known, client, left, cur, reply, served>>

\* No upstream, a response that does not parse, or a JSON-RPC error.
CallFails(h) ==
    /\ pc[h] = "call"
    /\ Respond(h, Plain)
    /\ Count(h)
    /\ UNCHANGED <<now, limiterVars, cacheVars, known>>

\* What a node answers: null for a hash it does not have, and a response may lack
\* the result.
Answers(q) ==
    {"absent", IF q.method = "eth_getBlockByHash" /\ q.params \notin known THEN "null" ELSE "value"}

Stores(q, r) == q.method \in cacheable /\ r # "null"

CallReturns(h) ==
    /\ pc[h] = "call"
    /\ \E r \in Answers(cur[h]) :
        /\ IF Stores(cur[h], r)
           THEN C!Set(CacheKey(cur[h]), [for |-> cur[h], result |-> r, born |-> now])
           ELSE UNCHANGED cacheVars
        /\ Respond(h, Plain)
    /\ Count(h)
    /\ UNCHANGED <<now, limiterVars, known>>

\* The nodes' chain gains a block, or a reorganisation drops one.
ChainMoves ==
    /\ known' \in SUBSET Hashes
    /\ known' # known
    /\ UNCHANGED <<now, limiterVars, cacheVars, handlerVars, served>>

EdgeTick == Tick /\ UNCHANGED <<cacheVars, known, handlerVars, served>>

EdgeNext ==
    \/ EdgeTick
    \/ ChainMoves
    \/ \E h \in Handler :
        \/ \E k \in Key, n \in 1 .. MaxBatch : Serve(h, k, n)
        \/ \E q \in Request : Admit(h, q)
        \/ Invalid(h) \/ Limited(h) \/ Cached(h) \/ NotCached(h)
        \/ CallFails(h) \/ CallReturns(h)

EdgeSpec == EdgeInit /\ [][EdgeNext]_edgeVars

-----------------------------------------------------------------------------
\* Neither batches nor concurrent handlers buy a client more lookups and node
\* calls than its bucket grants.
ServedWithinRate ==
    \A k \in Key : served[k] * Unit <= Full + Rate * now

\* A response from the cache is a node's answer to a request with the same method
\* and parameters, younger than TTL, and neither an error nor null, whichever
\* handler stored it.
CachedReplyFits ==
    \A h \in Handler : reply[h].kind = "cached" =>
        /\ reply[h].for = reply[h].to
        /\ reply[h].age < TTL
        /\ reply[h].result # "null"

=============================================================================
