-------------------------------- MODULE Net --------------------------------
(***************************************************************************)
(* socket_open_host and socket_open_addr of util/net.c with the            *)
(* netaddr_resolve of net/netaddr.c: several tasks open sockets, out of    *)
(* one pool of descriptors, and close what they were given.                *)
(*                                                                         *)
(* The system calls a request needs are in its "todo" and made in the      *)
(* code's order; each is a step, and the stack decides what comes of it.   *)
(***************************************************************************)
EXTENDS Naturals

CONSTANTS
    Callers, Descriptors, None,
    SocketRequests   \* what is asked of a socket: sets of "bind", "listen", "connect" and "flags"

ASSUME NetAssumption ==
    /\ None \notin Descriptors
    /\ \A asked \in SocketRequests : asked \subseteq {"bind", "listen", "connect", "flags"}

VARIABLES
    calls,   \* per task: the steps to do, the socket made, steps whose address is void
    socks,   \* per descriptor: Closed, or what was asked of it and what it was done to
    owned    \* per task: the descriptors returned to it and not closed yet

netVars == <<calls, socks, owned>>

NoCall == [todo |-> {}, sock |-> None, inet |-> TRUE, void |-> {}, asked |-> {}]
Closed == [open |-> FALSE, asked |-> {}, done |-> {}]

NetInit ==
    /\ calls = [t \in Callers |-> NoCall]
    /\ socks = [d \in Descriptors |-> Closed]
    /\ owned = [t \in Callers |-> {}]

\* The steps and their order.
Rank == [host |-> 1, local |-> 2, socket |-> 3, bind |-> 4, listen |-> 5, connect |-> 6, flags |-> 7]

Idle(t)       == calls[t].todo = {} /\ calls[t].sock = None
At(t, step)   == step \in calls[t].todo /\ \A s \in calls[t].todo : Rank[step] <= Rank[s]
Rest(t, step) == calls[t].todo \ {step}

\* The address that is resolved under each name.
Address == [host |-> "connect", local |-> "bind"]

-----------------------------------------------------------------------------
Open(t, asked, inet, names) ==
    /\ Idle(t)
    /\ calls' = [calls EXCEPT ![t] =
          [todo |-> asked \cup names \cup {"socket"}, sock |-> None, inet |-> inet, void |-> {}, asked |-> asked]]
    /\ UNCHANGED <<socks, owned>>

\* The addresses are given, or found out by name first.
SocketOpenAddr(t, asked, inet) == Open(t, asked, inet, {})
SocketOpenHost(t, asked, inet) ==
    Open(t, asked, inet, {name \in {"host", "local"} : Address[name] \in asked})

\* netaddr_resolve: only a negative result of getaddrinfo ends the call.  One above
\* zero, or an address of another family, leaves the netaddr cleared.
Resolve(t) ==
    \E name \in {"host", "local"} :
      /\ At(t, name)
      /\ \/ calls' = [calls EXCEPT ![t].todo = Rest(t, name)]
         \/ calls' = [calls EXCEPT ![t].todo = Rest(t, name), ![t].void = @ \cup {Address[name]}]
         \/ calls' = [calls EXCEPT ![t] = NoCall]
      /\ UNCHANGED <<socks, owned>>

MakeSocket(t) ==
    /\ At(t, "socket")
    /\ \E d \in Descriptors :
         /\ ~socks[d].open
         /\ socks' = [socks EXCEPT ![d] = [open |-> TRUE, asked |-> calls[t].asked \ calls[t].void, done |-> {}]]
         /\ calls' = [calls EXCEPT ![t].todo = Rest(t, "socket"), ![t].sock = d]
    /\ UNCHANGED owned

\* "if (sock < 0) return -1": none is free, or the family is refused.
NoSocket(t) ==
    /\ At(t, "socket")
    /\ calls' = [calls EXCEPT ![t] = NoCall]
    /\ UNCHANGED <<socks, owned>>

\* socklen is 0 for any other family.  A cleared address may be accepted, to no effect.
Accepted(t, step) ==
    /\ At(t, step)
    /\ step \in {"bind", "connect"} => calls[t].inet
    /\ calls' = [calls EXCEPT ![t].todo = Rest(t, step)]
    /\ socks' = [socks EXCEPT ![calls[t].sock].done = @ \cup ({step} \ calls[t].void)]
    /\ UNCHANGED owned

\* Faulty variants: a failed listen goes unnoticed; the socket is left open.
FatalButListen == {"bind", "connect"}
LeaveOpen(d)   == socks

Fatal         == {"bind", "listen", "connect"}
CloseSocket(d) == [socks EXCEPT ![d] = Closed]

\* "goto fail"; a failure of fcntl is ignored.
Refused(t, step) ==
    /\ At(t, step)
    /\ IF step \in Fatal
       THEN calls' = [calls EXCEPT ![t] = NoCall] /\ socks' = CloseSocket(calls[t].sock)
       ELSE calls' = [calls EXCEPT ![t].todo = Rest(t, step)] /\ UNCHANGED socks
    /\ UNCHANGED owned

\* "return sock"
ReturnSocket(t) ==
    /\ calls[t].todo = {} /\ calls[t].sock # None
    /\ owned' = [owned EXCEPT ![t] = @ \cup {calls[t].sock}]
    /\ calls' = [calls EXCEPT ![t] = NoCall]
    /\ UNCHANGED socks

\* The caller is done with a socket.
Close(t) ==
    /\ Idle(t)
    /\ \E d \in owned[t] :
         /\ owned' = [owned EXCEPT ![t] = @ \ {d}]
         /\ socks' = [socks EXCEPT ![d] = Closed]
    /\ UNCHANGED calls

NetNext ==
    \E t \in Callers :
        \/ \E asked \in SocketRequests, inet \in BOOLEAN :
             SocketOpenAddr(t, asked, inet) \/ SocketOpenHost(t, asked, inet)
        \/ Resolve(t) \/ MakeSocket(t) \/ NoSocket(t) \/ ReturnSocket(t) \/ Close(t)
        \/ \E step \in {"bind", "listen", "connect", "flags"} : Accepted(t, step) \/ Refused(t, step)

NetSpec == NetInit /\ [][NetNext]_netVars

-----------------------------------------------------------------------------

\* Every open descriptor has one owner, a task it was returned to or a call in
\* progress, whichever step of opening it failed: none is lost, none is closed while
\* somebody still has it.
SocketsAreOwned ==
    /\ \A d \in Descriptors :
         socks[d].open <=> \E t \in Callers : d \in owned[t] \/ d = calls[t].sock
    /\ \A t, u \in Callers :
         /\ owned[t] \cap (owned[u] \cup {calls[u].sock}) # {} => t = u
         /\ calls[t].sock = calls[u].sock /\ calls[t].sock # None => t = u
    /\ \A t \in Callers : calls[t].sock \notin owned[t]

\* A socket that was returned is bound, listening and connected as it was asked to be,
\* where the addresses were found; the flags may be missing.
SocketIsAsAsked ==
    \A t \in Callers : \A d \in owned[t] : socks[d].asked \ {"flags"} \subseteq socks[d].done

=============================================================================
