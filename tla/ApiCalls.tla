------------------------------ MODULE ApiCalls ------------------------------
(***************************************************************************)
(* The calls of the mobile app to the API (api-client.ts), with the        *)
(* interceptors for the access token and for the response cache            *)
(* (cache-interceptor.ts) configured: a call goes through the token, the   *)
(* fetch, the body, the interceptors and the transformer, and ends with    *)
(* data or with an ApiClientError.  The server refuses a call without a    *)
(* token, answers 500 at will, and may perform a call whose answer is      *)
(* lost.  A resource stands for a path with its query.                     *)
(***************************************************************************)
EXTENDS Integers

CONSTANTS
  Users, Resources,
  Calls,       \* slots for calls in progress
  Lifetimes,   \* lifetimes that a response may name, 0 for none at all
  MaxVersion,  \* bound on the versions of a resource
  MaxClock     \* bound on time

Nobody == "nobody"

CallsAssumption ==
  /\ Nobody \notin Users /\ Lifetimes \subseteq Nat /\ {MaxVersion, MaxClock} \subseteq Nat

VARIABLES
  server,    \* the version of each resource, which a write makes anew
  session,   \* the user whose token the provider returns
  clock,
  cache,     \* entries in storage, or Missing
  calls,     \* calls in progress
  ended,     \* history: how the last call ended
  floor,     \* history: the version of a resource when its entry was last invalidated
  raced,     \* history: resources that were on their way to the cache just then
  strangers  \* history: resources whose entry may be of a user who has signed out

vars == <<server, session, clock, cache, calls, ended, floor, raced, strangers>>

Versions == 0..MaxVersion
Missing == [version |-> -1]
Entry == [version : Versions, user : Users, expiresAt : Nat]
Idle == [pc |-> "idle"]
\* acted: history, has the server performed the call?
Call == [pc : {"token", "fetch", "body", "respond"}, method : {"GET", "PATCH"},
         resource : Resources, user : Users \cup {Nobody}, status : {0, 200, 401, 500},
         version : Versions, acted : BOOLEAN]
Outcome == [code : {"OK", "HTTP_ERROR", "NETWORK_ERROR", "PARSING_ERROR"},
            status : {0, 200, 401, 500}, answered : {0, 200, 401, 500},
            unauthorized : BOOLEAN, acted : BOOLEAN]

TypeOK ==
  /\ server \in [Resources -> Versions] /\ floor \in [Resources -> Versions]
  /\ session \in Users \cup {Nobody}
  /\ clock \in 0..MaxClock
  /\ cache \in [Resources -> {Missing} \cup Entry]
  /\ calls \in [Calls -> {Idle} \cup Call]
  /\ ended \in Outcome
  /\ raced \subseteq Resources /\ strangers \subseteq Resources

Init ==
  /\ server = [k \in Resources |-> 0] /\ floor = server
  /\ session = Nobody
  /\ clock = 0
  /\ cache = [k \in Resources |-> Missing]
  /\ calls = [c \in Calls |-> Idle]
  /\ ended = [code |-> "OK", status |-> 200, answered |-> 200, unauthorized |-> FALSE,
              acted |-> TRUE]
  /\ raced = {} /\ strangers = {}

history == <<floor, raced, strangers>>

-----------------------------------------------------------------------------
(* The client                                                              *)

\* request, and the methods that call it.
Begin(c, method, k) ==
  /\ calls[c] = Idle
  /\ calls' = [calls EXCEPT ![c] =
       [pc |-> "token", method |-> method, resource |-> k, user |-> Nobody, status |-> 0,
        version |-> 0, acted |-> FALSE]]
  /\ UNCHANGED <<server, session, clock, cache, ended, history>>

\* Mutant: a lost answer is reported with the status of an error response.
ErrorOfStatus(call, code, status) ==
  [code |-> IF code = "NETWORK_ERROR" THEN "HTTP_ERROR" ELSE code, status |-> status,
   answered |-> call.status, unauthorized |-> status = 401, acted |-> call.acted]

\* mapToApiClientError and the error interceptors: onUnauthorized hears of a 401.
ErrorOf(call, code, status) ==
  [code |-> code, status |-> status, answered |-> call.status,
   unauthorized |-> status = 401, acted |-> call.acted]

End(c, outcome) == ended' = outcome /\ calls' = [calls EXCEPT ![c] = Idle]

\* createAuthInterceptor: the token of whoever is signed in by now, or none.
AddToken(c) ==
  /\ calls[c].pc = "token"
  /\ \/ calls' = [calls EXCEPT ![c].pc = "fetch", ![c].user = session] /\ UNCHANGED ended
     \/ End(c, ErrorOf(calls[c], "NETWORK_ERROR", 0))   \* the provider fails
  /\ UNCHANGED <<server, session, clock, cache, history>>

\* The server performs the call, refuses it or fails; then its answer arrives.
Serve(c, status, arrives) ==
  LET call == calls[c]
      k == call.resource
      acts == status = 200
      now == IF acts /\ call.method = "PATCH" THEN server[k] + 1 ELSE server[k]
      served == [call EXCEPT !.pc = "body", !.status = status, !.version = now, !.acted = acts]
  IN  /\ call.pc = "fetch"
      /\ (status = 401) <=> (call.user = Nobody)
      /\ now <= MaxVersion
      /\ server' = [server EXCEPT ![k] = now]
      /\ IF arrives THEN calls' = [calls EXCEPT ![c] = served] /\ UNCHANGED ended
         ELSE End(c, ErrorOf([served EXCEPT !.status = 0], "NETWORK_ERROR", 0))
      /\ UNCHANGED <<session, clock, cache, history>>

\* The request never gets there, or its signal aborts it.
FailToFetch(c) ==
  /\ calls[c].pc = "fetch"
  /\ End(c, ErrorOf(calls[c], "NETWORK_ERROR", 0))
  /\ UNCHANGED <<server, session, clock, cache, history>>

\* parseResponseData, and mapErrorResponse unless the response is ok.
ReadBody(c) ==
  /\ calls[c].pc = "body"
  /\ LET call == calls[c] IN
       \/ call.status = 200 /\ calls' = [calls EXCEPT ![c].pc = "respond"] /\ UNCHANGED ended
       \/ call.status # 200 /\ End(c, ErrorOf(call, "HTTP_ERROR", call.status))
       \/ End(c, ErrorOf(call, "PARSING_ERROR", call.status))
       \/ End(c, ErrorOf(call, "NETWORK_ERROR", 0))   \* the body breaks off
  /\ UNCHANGED <<server, session, clock, cache, history>>

\* createCacheInterceptor: a GET is stored, unless its response has no lifetime; an
\* entry that is there already then stays.
Stored(call, lifetime) ==
  IF call.method = "GET" /\ lifetime > 0
  THEN [cache EXCEPT ![call.resource] =
          [version |-> call.version, user |-> call.user, expiresAt |-> clock + lifetime]]
  ELSE cache

\* The response interceptors, and the transformer, which may throw.
Respond(c, lifetime) ==
  LET call == calls[c] IN
  /\ call.pc = "respond"
  /\ cache' = Stored(call, lifetime)
  /\ strangers' = IF cache' # cache /\ call.user # session THEN strangers \cup {call.resource}
                  ELSE strangers
  /\ \/ End(c, [code |-> "OK", status |-> 200, answered |-> 200, unauthorized |-> FALSE,
                acted |-> call.acted])
     \/ End(c, ErrorOf(call, "NETWORK_ERROR", 0))
  /\ UNCHANGED <<server, session, clock, floor, raced>>

-----------------------------------------------------------------------------
(* The cache                                                               *)

\* getCachedResponse: an entry is good in the millisecond that it expires in.
Cached(k) ==
  IF cache[k] = Missing \/ clock > cache[k].expiresAt THEN Missing ELSE cache[k]

\* getCachedResponse deletes what has expired.
Expire(k) ==
  /\ cache[k] # Missing /\ Cached(k) = Missing
  /\ cache' = [cache EXCEPT ![k] = Missing]
  /\ UNCHANGED <<server, session, clock, calls, ended, history>>

OnTheirWay == {c \in Calls : calls[c].pc \in {"body", "respond"} /\ calls[c].method = "GET"}

\* Mutant: what has not expired is kept.
InvalidatedWhenExpired(resources) ==
  [k \in Resources |-> IF k \in resources THEN Cached(k) ELSE cache[k]]

\* invalidateCache, clearCache: the entries that the pattern matches.
Invalidated(resources) == [k \in Resources |-> IF k \in resources THEN Missing ELSE cache[k]]

Invalidate(resources) ==
  /\ cache' = Invalidated(resources)
  /\ floor' = [k \in Resources |-> IF k \in resources THEN server[k] ELSE floor[k]]
  /\ raced' = (raced \ resources) \cup {k \in resources : \E c \in OnTheirWay : calls[c].resource = k}
  /\ strangers' = strangers \ resources
  /\ UNCHANGED <<server, session, clock, calls, ended>>

\* Somebody signs in or out: nothing clears the cache.
ChangeSession(u) ==
  /\ u # session
  /\ session' = u
  /\ strangers' = strangers \cup {k \in Resources : cache[k] # Missing}
  /\ UNCHANGED <<server, clock, cache, calls, ended, floor, raced>>

Tick ==
  /\ clock < MaxClock
  /\ clock' = clock + 1
  /\ UNCHANGED <<server, session, cache, calls, ended, history>>

Next ==
  \/ \E c \in Calls :
       \/ \E method \in {"GET", "PATCH"}, k \in Resources : Begin(c, method, k)
       \/ AddToken(c) \/ FailToFetch(c) \/ ReadBody(c)
       \/ \E status \in {200, 401, 500}, arrives \in BOOLEAN : Serve(c, status, arrives)
       \/ \E lifetime \in Lifetimes : Respond(c, lifetime)
  \/ \E k \in Resources : Expire(k)
  \/ \E resources \in SUBSET Resources \ {{}} : Invalidate(resources)
  \/ \E u \in Users \cup {Nobody} : ChangeSession(u)
  \/ Tick

Spec == Init /\ [][Next]_vars

-----------------------------------------------------------------------------
\* What the caller is told: data only of a call that was performed, a refusal only
\* of one that was not, and onUnauthorized hears of exactly the refusals for want
\* of a token whose answer could be read; a network error leaves it open.
OutcomeIsTrue ==
  /\ ended.code = "OK" => ended.acted
  /\ ended.code = "HTTP_ERROR" => ~ended.acted /\ ended.status = ended.answered
  /\ ended.unauthorized => ended.answered = 401
  /\ ended.answered = 401 /\ ended.code # "NETWORK_ERROR" => ended.unauthorized

\* Once invalidated, a response is not older than that, unless it was on its way
\* when that happened; and it is of the user who is signed in, unless the entry is
\* from before the last change of user, or its call was.
CacheIsTrue ==
  \A k \in Resources : Cached(k) # Missing =>
    /\ k \notin raced => cache[k].version >= floor[k]
    /\ k \notin strangers => cache[k].user = session

=============================================================================
