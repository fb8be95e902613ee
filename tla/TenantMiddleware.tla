--------------------------- MODULE TenantMiddleware ---------------------------
(***************************************************************************)
(* The tenant middleware in front of a TenantRegistry.  A client of the    *)
(* registry is the goroutine of one HTTP request: it resolves the tenant,  *)
(* takes a lease, asks the tenant's enforcer, runs the handler and returns *)
(* the lease in a deferred call.  The adapters for net/http, gin, echo and *)
(* fiber take the same steps in the same order; the lines cited are those  *)
(* of net/http.  What the caller's functions say (tenant and user of a     *)
(* request) and what Enforce decides are any choice.                       *)
(***************************************************************************)
EXTENDS TenantRegistry

VARIABLE request    \* where each request is, its tenant, and its status code

mwVars == <<vars, request>>

NoStatus == 0

Requests == [at     : {"new", "acquiring", "gate", "handler", "returning", "answered"},
             tenant : Tenants \cup {NoTenant},
             status : {NoStatus, 200, 401, 403, 500}]

MwTypeOK == TypeOK /\ request \in [Clients -> Requests]

MwInit == /\ Init
          /\ request = [c \in Clients |-> [at |-> "new", tenant |-> NoTenant,
                                           status |-> NoStatus]]

At(c, where) == request[c].at = where

GoTo(c, where) == request' = [request EXCEPT ![c].at = where]

\* A response is written: while the lease is held the deferred release is next.
Respond(c, where, code) == request' = [request EXCEPT ![c].at = where, ![c].status = code]

-----------------------------------------------------------------------------
(* The steps of a request *)

\* No tenant can be resolved.
NoTenantResolved(c) == At(c, "new") /\ Respond(c, "answered", 401) /\ UNCHANGED vars

\* Acquire, up to its wait for the entry.
Enter(c, t) ==
    /\ At(c, "new")
    /\ request' = [request EXCEPT ![c].at = "acquiring", ![c].tenant = t]
    /\ AcquireCached(c, t) \/ \E e \in Entries : AcquireNew(c, t, e)

\* The request's context is over before Acquire takes the lock.
GoneEarly(c) == At(c, "new") /\ Respond(c, "answered", 500) /\ UNCHANGED vars

\* ErrRegistryClosed, or ErrTenantCapacity with no entry to evict.
Refused(c, t) ==
    /\ At(c, "new")
    /\ closed \/ (cache[t] = NoEntry /\ Victims(Unleased) = {})
    /\ Respond(c, "answered", 500)
    /\ UNCHANGED vars

\* Acquire returned a lease; tenant and enforcer are put into the context.
Admitted(c) == At(c, "acquiring") /\ AcquireSucceeds(c) /\ GoTo(c, "gate")

GivesUp(c) == AcquireFails(c) /\ UNCHANGED request

\* The request's context is over.
Disconnected(c) == AcquireCancelled(c) /\ UNCHANGED request

\* Acquire gave its reference back and returned an error.
AcquireError(c) == /\ At(c, "acquiring") /\ client[c].pc = "releasing"
                   /\ Release(c)
                   /\ Respond(c, "answered", 500)

NoUser(c) == At(c, "gate") /\ Respond(c, "returning", 401) /\ UNCHANGED vars

Denied(c) == At(c, "gate") /\ Respond(c, "returning", 403) /\ UNCHANGED vars

Allowed(c) == At(c, "gate") /\ GoTo(c, "handler") /\ UNCHANGED vars

\* The handler returns, or panics and the server reports it.
HandlerEnds(c, code) == At(c, "handler") /\ Respond(c, "returning", code) /\ UNCHANGED vars

\* The deferred release.
Returns(c) == At(c, "returning") /\ Release(c) /\ GoTo(c, "answered")

-----------------------------------------------------------------------------

RequestStep(c) == \/ Admitted(c) \/ GivesUp(c) \/ AcquireError(c)
                  \/ NoUser(c) \/ Denied(c) \/ Allowed(c)
                  \/ \E code \in {200, 500} : HandlerEnds(c, code)
                  \/ Returns(c)

Background == \/ \E e \in Entries : ProvisionStep(e) \/ FactoryTimeout(e) \/ CloserStep(e)
              \/ \E t \in Tenants : EvictContext(t)
              \/ \E S \in SUBSET Entries : PruneIdle(S)
              \/ Clear \/ ClearAndCloseContext \/ Shutdown

MwNext == \/ \E c \in Clients : \/ NoTenantResolved(c) \/ GoneEarly(c)
                                \/ \E t \in Tenants : Enter(c, t) \/ Refused(c, t)
                                \/ Disconnected(c)
                                \/ RequestStep(c)
          \/ Background /\ UNCHANGED request

MwSpec == MwInit /\ [][MwNext]_mwVars

\* Handlers return, factories return, goroutines are scheduled.  Nobody has to
\* send a request, evict, prune, cancel or shut down.
MwFairness ==
    /\ \A c \in Clients : WF_mwVars(RequestStep(c))
    /\ \A e \in Entries : /\ WF_mwVars(ProvisionStep(e) /\ UNCHANGED request)
                          /\ WF_mwVars(CloserStep(e) /\ UNCHANGED request)

MwFairSpec == MwSpec /\ MwFairness

-----------------------------------------------------------------------------

\* While a handler runs, whatever is evicted, pruned, cleared or shut down
\* meanwhile, the enforcer in its context is open and was built for the tenant
\* of that request.
HandlerHasItsTenant ==
    \A c \in Clients : At(c, "handler") =>
        /\ client[c].pc = "holding"
        /\ entry[client[c].on].enf = "open"
        /\ entry[client[c].on].builtFor = request[c].tenant

\* Every request that asks for a tenant is answered, though its factory fails,
\* panics or runs out of time and though the registry shuts down meanwhile.
RequestsAnswered == \A c \in Clients : At(c, "acquiring") ~> At(c, "answered")
===============================================================================
