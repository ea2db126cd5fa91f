---------------------------- MODULE IndexerControl ----------------------------
(***************************************************************************)
(* Who runs the indexer of a workspace, and how it is asked (indexer/      *)
(* control.go, coordinator.go, cmd/agent-wayfinder/indexer/command.go).    *)
(* Processes run Serve: they take the flock of the workspace, replace the  *)
(* control socket and answer one request at a time.  Clients run `indexer  *)
(* status', `stop' and `start'; a start that finds nobody launches a       *)
(* server and polls.                                                       *)
(*                                                                         *)
(* The kernel drops the lock of a process that dies, but not its socket    *)
(* file.  Every removal of the file is by path, whoever bound it: the      *)
(* order of Serve's steps is what keeps one process from removing the      *)
(* socket of another.                                                      *)
(*                                                                         *)
(* The identity in the lock file is left out: it is the same path always.  *)
(* Time is left out: a deadline may pass at any moment.                    *)
(* The specification's own operators are named for it, so that a module    *)
(* may extend this one along with IndexerManager.                          *)
(***************************************************************************)
CONSTANTS
  Servers,        (* processes that may run `indexer serve'                 *)
  Clients,        (* processes that may run a control command               *)
  None,           (* nobody                                                 *)
  Interruptions   (* the ones that occur: "idle", "crash", "hangup"         *)

ASSUME ControlAssumption ==
  /\ None \notin Servers
  /\ Interruptions \subseteq {"idle", "crash", "hangup"}

VARIABLES
  pc,         (* pc[p]: the point process p has reached in Serve            *)
  lock,       (* the process that holds the flock, or None                  *)
  endpoint,   (* the process that bound the socket file, or None            *)
  leftover,   (* history: the socket file was left by a crash               *)
  client,     (* client[c]: what client c is doing                          *)
  queue       (* queue[p]: connections p has not answered                   *)

controlVars == <<pc, lock, endpoint, leftover, client, queue>>

(* booting: before Start.  owner: the worker and its lock exist.  cleared: *)
(* the old socket is removed.  serving: the accept loop.  closing, closed  *)
(* and stopping: the deferred Close, Remove and Stop are next.             *)
Points == {"off", "booting", "owner", "cleared", "serving", "closing", "closed",
           "stopping"}
Owning == Points \ {"off", "booting"}
Listening == {"serving", "closing"}

Idle == [at |-> "idle", op |-> "none", spawned |-> FALSE]
Client == [at : {"idle", "dialing", "waiting", "spawning", "gone"},
           op : {"none", "status", "stop", "start", "unsupported"},
           spawned : BOOLEAN]

(* Variant: a failed request leaves its command at a point of its own.     *)
FailedForGood(k) == {[k EXCEPT !.at = "failed"]}

(* Request failed: a start launches a server, once, and goes on polling    *)
(* until its deadline; the other commands report the error.                *)
Failed(k) ==
  IF k.op # "start" THEN {Idle}
  ELSE IF k.spawned THEN {[k EXCEPT !.at = "dialing"], Idle}
  ELSE {[k EXCEPT !.at = "spawning"]}

(* The clients of a closed or lost listener read an end of file: the       *)
(* possible values of `client' once the connections in cs are broken.      *)
Disconnected(cs) ==
  {f \in [Clients -> Client] :
     \A c \in Clients :
       f[c] \in IF c \notin cs THEN {client[c]}
                ELSE IF client[c].at = "gone" THEN {Idle} ELSE Failed(client[c])}

Goto(p, point) == pc' = [pc EXCEPT ![p] = point]

-----------------------------------------------------------------------------
(* The server                                                              *)

Launch(p) ==
  /\ pc[p] = "off"
  /\ Goto(p, "booting")
  /\ UNCHANGED <<lock, endpoint, leftover, client, queue>>

(* Manager.Start: a lock that is taken is an ExistingOwnerError, and Serve *)
(* returns it.                                                             *)
Acquire(p) ==
  /\ pc[p] = "booting"
  /\ IF lock = None THEN Goto(p, "owner") /\ lock' = p
                    ELSE Goto(p, "off") /\ UNCHANGED lock
  /\ UNCHANGED <<endpoint, leftover, client, queue>>

RemoveStale(p) ==
  /\ pc[p] = "owner"
  /\ Goto(p, "cleared")
  /\ endpoint' = None /\ leftover' = FALSE
  /\ UNCHANGED <<lock, client, queue>>

(* net.Listen fails on a path that exists.                                 *)
Listen(p) ==
  /\ pc[p] = "cleared"
  /\ IF endpoint = None THEN Goto(p, "serving") /\ endpoint' = p
                        ELSE Goto(p, "stopping") /\ UNCHANGED endpoint
  /\ UNCHANGED <<lock, leftover, client, queue>>

(* Accept and handle.  A reply to a client that is gone cannot be written, *)
(* and a stop whose reply cannot be written is not carried out.            *)
Handle(p, c) ==
  /\ pc[p] = "serving" /\ c \in queue[p]
  /\ queue' = [queue EXCEPT ![p] = @ \ {c}]
  /\ IF client[c].op = "stop" /\ client[c].at = "waiting"
     THEN Goto(p, "closing") ELSE UNCHANGED pc
  /\ client' = [client EXCEPT ![c] = Idle]
  /\ UNCHANGED <<lock, endpoint, leftover>>

(* Accept reports the deadline even when connections are waiting.          *)
IdleTimeout(p) ==
  /\ "idle" \in Interruptions
  /\ pc[p] = "serving"
  /\ Goto(p, "closing")
  /\ UNCHANGED <<lock, endpoint, leftover, client, queue>>

(* Variants: the worker is stopped before its endpoint is removed; the     *)
(* listener is not closed.                                                 *)
CloseAndUnlock(p) ==
  /\ pc[p] = "closing"
  /\ Goto(p, "closed")
  /\ endpoint' = None /\ lock' = None
  /\ client' \in Disconnected(queue[p])
  /\ queue' = [queue EXCEPT ![p] = {}]
  /\ UNCHANGED leftover

CloseNothing(p) ==
  /\ pc[p] = "closing"
  /\ Goto(p, "closed")
  /\ UNCHANGED <<lock, endpoint, leftover, client, queue>>

(* listener.Close also unlinks the path it was given.                      *)
CloseListener(p) ==
  /\ pc[p] = "closing"
  /\ Goto(p, "closed")
  /\ endpoint' = None
  /\ client' \in Disconnected(queue[p])
  /\ queue' = [queue EXCEPT ![p] = {}]
  /\ UNCHANGED <<lock, leftover>>

RemoveEndpoint(p) ==
  /\ pc[p] = "closed"
  /\ Goto(p, "stopping")
  /\ endpoint' = None
  /\ UNCHANGED <<lock, leftover, client, queue>>

(* Manager.Stop returns once no batch is being published; its error is     *)
(* dropped, and the exit of the process releases the lock at the latest.   *)
StopManager(p) ==
  /\ pc[p] = "stopping"
  /\ Goto(p, "off")
  /\ lock' = IF lock = p THEN None ELSE lock
  /\ UNCHANGED <<endpoint, leftover, client, queue>>

Crash(p) ==
  /\ "crash" \in Interruptions
  /\ pc[p] # "off"
  /\ Goto(p, "off")
  /\ lock' = IF lock = p THEN None ELSE lock
  /\ leftover' = (leftover \/ endpoint = p)
  /\ client' \in Disconnected(queue[p])
  /\ queue' = [queue EXCEPT ![p] = {}]
  /\ UNCHANGED endpoint

-----------------------------------------------------------------------------
(* The clients                                                             *)

Ask(c, op) ==
  /\ client[c].at = "idle"
  /\ client' = [client EXCEPT ![c] = [at |-> "dialing", op |-> op, spawned |-> FALSE]]
  /\ UNCHANGED <<pc, lock, endpoint, leftover, queue>>

(* A connection waits in the listener's queue, unless the file is missing  *)
(* or nobody listens on it.                                                *)
Dial(c) ==
  /\ client[c].at = "dialing"
  /\ IF endpoint # None /\ pc[endpoint] \in Listening
     THEN /\ client' = [client EXCEPT ![c].at = "waiting"]
          /\ queue' = [queue EXCEPT ![endpoint] = @ \cup {c}]
     ELSE /\ \E k \in Failed(client[c]) : client' = [client EXCEPT ![c] = k]
          /\ UNCHANGED queue
  /\ UNCHANGED <<pc, lock, endpoint, leftover>>

Spawn(c, p) ==
  /\ client[c].at = "spawning"
  /\ pc[p] = "off"
  /\ Goto(p, "booting")
  /\ client' = [client EXCEPT ![c] = [@ EXCEPT !.at = "dialing", !.spawned = TRUE]]
  /\ UNCHANGED <<lock, endpoint, leftover, queue>>

(* The client's process ends while it waits for the answer.                *)
HangUp(c) ==
  /\ "hangup" \in Interruptions
  /\ client[c].at = "waiting"
  /\ client' = [client EXCEPT ![c].at = "gone"]
  /\ UNCHANGED <<pc, lock, endpoint, leftover, queue>>

-----------------------------------------------------------------------------
ControlInit ==
  /\ pc = [p \in Servers |-> "off"]
  /\ lock = None /\ endpoint = None /\ leftover = FALSE
  /\ client = [c \in Clients |-> Idle]
  /\ queue = [p \in Servers |-> {}]

ServerStep(p) ==
  \/ Acquire(p) \/ RemoveStale(p) \/ Listen(p)
  \/ CloseListener(p) \/ RemoveEndpoint(p) \/ StopManager(p)

ControlNext ==
  \/ \E p \in Servers : \/ Launch(p) \/ ServerStep(p) \/ IdleTimeout(p) \/ Crash(p)
                        \/ \E c \in Clients : Handle(p, c) \/ Spawn(c, p)
  \/ \E c \in Clients : \/ \E op \in {"status", "stop", "start", "unsupported"} : Ask(c, op)
                        \/ Dial(c) \/ HangUp(c)

ControlSpec == ControlInit /\ [][ControlNext]_controlVars

(* A process that can run does; a server answers the connections it has    *)
(* accepted, since Request sends its command as soon as it is connected.   *)
ControlFairness ==
  /\ \A p \in Servers : WF_controlVars(ServerStep(p))
  /\ \A p \in Servers, c \in Clients : WF_controlVars(Handle(p, c))
  /\ \A c \in Clients : WF_controlVars(Dial(c))

ControlFairSpec == ControlSpec /\ ControlFairness

-----------------------------------------------------------------------------
(* Properties                                                              *)

(* Every variable has its type.                                            *)
ControlTypeOK ==
  /\ pc \in [Servers -> Points]
  /\ lock \in Servers \cup {None} /\ endpoint \in Servers \cup {None}
  /\ leftover \in BOOLEAN
  /\ client \in [Clients -> Client]
  /\ queue \in [Servers -> SUBSET Clients]

(* The socket file leads to the server that is in its accept loop: no      *)
(* process that is leaving or starting removes it from under it.           *)
EndpointLeadsToServer ==
  \A p \in Servers : pc[p] = "serving" => endpoint = p

(* A server finds the path free when it binds it, after any crash and      *)
(* while other servers come and go.                                        *)
BindSucceeds ==
  \A p \in Servers : pc[p] = "cleared" => endpoint = None

(* A server that ends, for whatever reason but a crash, leaves no socket   *)
(* file behind.                                                            *)
CleanExitLeavesNothing ==
  lock = None /\ endpoint # None => leftover

(* The socket file leads to the live server, never stands in the way of    *)
(* the next one, and stays behind only after a crash.  (Server.Serve,      *)
(* control.go:46)                                                          *)
EndpointSound == EndpointLeadsToServer /\ BindSucceeds /\ CleanExitLeavesNothing

(* A client that is connected is answered or disconnected.                 *)
RequestEnds ==
  \A c \in Clients : client[c].at = "waiting" ~> client[c].at # "waiting"

(* While a start waits for the server it launched, there is a server it    *)
(* can wait for.                                                           *)
StartFindsServer ==
  \A c \in Clients : client[c].at = "dialing" /\ client[c].spawned =>
    \E p \in Servers : pc[p] \in {"booting", "owner", "cleared", "serving"}
=============================================================================
