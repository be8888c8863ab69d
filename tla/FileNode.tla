------------------------------ MODULE FileNode ------------------------------
(***************************************************************************)
(* dtn_file_node_core and dtn_routing: a file is cut into bundles, and each   *)
(* is sent on every route to the node it is for; the other node puts the     *)
(* bundles together and writes the file under the path the sender asked for.  *)
(* Datagrams are files here.  Cutting, counting and collecting is as in       *)
(* Tunnel, but that a file below a chunk is a fragment as well.               *)
(***************************************************************************)
EXTENDS Tunnel

CONSTANTS
    Directory,   \* directories of routes
    Interface,   \* the interfaces the node opened
    Goals,       \* where the files may be for: is it the node that receives, and
                 \* under which path, its dot segments gone; the path None is none
    Routes(_),   \* the routes in a directory: for whom, of which class, and where
    MaxLoads     \* bound of the loads of routes

VARIABLES
    goal,        \* where each file is for
    routes,      \* routing->routes.data: the directory they came from, or None
    configPath,  \* routing->config.route_config_path
    loading,     \* what each thread that loads routes is about
    loads,
    loaded,      \* history: for each load whether it was alone, asked and got
    interfaces,  \* interfaces.ip
    plan,        \* the routes of the file each thread sends
    crashed,     \* an interface was used that is no more
    writing,     \* the deliveries being written
    written,     \* those done with
    disk         \* whose bytes the file under each path may have

nodeVars == <<goal, routes, configPath, loading, loads, loaded, interfaces, plan, crashed>>
diskVars == <<writing, written, disk>>
fileVars == <<vars, nodeVars, diskVars>>

NotLoading == [at |-> "idle"]
Paths == (UNION {{g[d].path : d \in Datagrams} : g \in Goals}) \ {None}

FileInit ==
    /\ Init
    /\ goal \in Goals
    /\ routes \in Directory \cup {None} /\ configPath \in Directory
    /\ loading = [w \in Workers |-> NotLoading] /\ loads = 0 /\ loaded = {}
    /\ interfaces = Interface
    /\ plan = [w \in Workers |-> {}]
    /\ crashed = FALSE
    /\ writing = {} /\ written = {}
    /\ disk = [p \in Paths |-> {}]

FreeWorker(w) == task[w] = Idle /\ loading[w] = NotLoading
OthersAtWork(w) == \E v \in Workers \ {w} : ~FreeWorker(v)

-----------------------------------------------------------------------------
\* dtn_routing.  The path is set without the lock, and read by load_config.
\* Changed: the path asked for is not taken over.
KeepPath(dir) == configPath

SetPath(dir) == dir

dtn_routing_load(w, dir) ==
    /\ FreeWorker(w) /\ loads < MaxLoads
    /\ loads' = loads + 1
    /\ configPath' = SetPath(dir)
    /\ loading' = [v \in Workers |->
                     IF v = w THEN [at |-> "read", asked |-> dir, got |-> None, alone |-> \A u \in Workers : loading[u] = NotLoading]
                     ELSE IF loading[v] = NotLoading THEN NotLoading ELSE [loading[v] EXCEPT !.alone = FALSE]]
    /\ UNCHANGED <<vars, goal, routes, loaded, interfaces, plan, crashed, diskVars>>

ReadRoutes(w) ==
    /\ loading[w].at = "read"
    /\ \/ loading' = [loading EXCEPT ![w].at = "store", ![w].got = configPath]
       \/ loading' = [loading EXCEPT ![w] = NotLoading] \* nothing to be read there
    /\ UNCHANGED <<vars, goal, routes, configPath, loads, loaded, interfaces, plan, crashed, diskVars>>

\* The load fails if the lock times out, and what was read is lost.
StoreRoutes(w) ==
    /\ loading[w].at = "store"
    /\ \/ routes' = loading[w].got /\ loaded' = loaded \cup {loading[w]}
       \/ OthersAtWork(w) /\ UNCHANGED <<routes, loaded>>
    /\ loading' = [loading EXCEPT ![w] = NotLoading]
    /\ UNCHANGED <<vars, goal, configPath, loads, interfaces, plan, crashed, diskVars>>

\* By the name of the node, and by its name and the path asked for.
find_socket_config(dir, d) == {r \in Routes(dir) : r.here = goal[d].here}

-----------------------------------------------------------------------------
\* The file is read and its routes looked up; there may be none.  If the lock
\* of the routes times out the call fails, and nothing was done.
dtn_file_node_core_send_file(w, d, size) ==
    /\ ~crashed /\ FreeWorker(w)
    /\ Begin(w, d, size)
    /\ plan' = [plan EXCEPT ![w] = IF routes = None THEN {} ELSE find_socket_config(routes, d)]
    /\ UNCHANGED <<receiver, goal, routes, configPath, loading, loads, loaded, interfaces, crashed, diskVars>>

\* create_bundles_for_file: chunks are cut once the time is taken, for no file is
\* below Least.
CutChunks(w) == Stamp(w) \/ Load(w) \/ Store(w) \/ MakeChunk(w)
CutLast(w) == MakeLast(w)

create_bundles_for_file(w) ==
    /\ CutChunks(w) \/ CutLast(w)
    /\ UNCHANGED <<receiver, nodeVars, diskVars>>

\* One bundle, on each of its routes.  A route left out because the lock of the
\* interfaces timed out is as a bundle the network loses.  The interface a route
\* names may be gone.
SendBundle(w) ==
    /\ ~crashed /\ task[w].at = "send"
    /\ crashed' \in {FALSE, \E r \in plan[w] : r.interface \notin interfaces}
    /\ LET ways == {r \in plan[w] : r.interface \in interfaces}
       IN network' = IF ways = {} THEN network
                     ELSE network (+) [b \in {Head(task[w].out)} |-> Cardinality(ways)]
    /\ task' = [task EXCEPT ![w] = IF Len(@.out) = 1 THEN Idle ELSE [@ EXCEPT !.out = Tail(task[w].out)]]
    /\ plan' = IF Len(task[w].out) = 1 THEN [plan EXCEPT ![w] = {}] ELSE plan
    /\ UNCHANGED <<sequence, now, length, overlapped, keys, receiver, goal, routes, configPath, loading, loads, loaded,
                   interfaces, diskVars>>

\* The interface is taken out of the table, and freed whether it was or not.
interface_close(i) ==
    /\ i \in interfaces
    /\ interfaces' = interfaces \ {i}
    /\ UNCHANGED <<vars, goal, routes, configPath, loading, loads, loaded, plan, crashed, diskVars>>

-----------------------------------------------------------------------------
\* A bundle comes in at an interface of the other node, goes through the queue of
\* its threads, and is pushed into the bundle buffer.
interface_io(b) == Receive(b) /\ UNCHANGED <<nodeVars, diskVars>>

\* Changed: whose file it is is not looked at.
ForAnybody(d) == goal[d].path # None

ForThisNode(d) == goal[d].here /\ goal[d].path # None

\* A complete payload for a path of this node is written there.  Two threads
\* may write at once: then the file may hold what both wrote.
StartPayload(n) ==
    /\ n \in DOMAIN forwarded /\ n \notin writing \cup written
    /\ \E d \in Content(forwarded[n]) :
        IF ForThisNode(d)
        THEN /\ writing' = writing \cup {n} /\ written' = written
             /\ disk' = [disk EXCEPT ![goal[d].path] = {n} \cup (@ \cap writing)]
        ELSE written' = written \cup {n} /\ UNCHANGED <<writing, disk>>
    /\ UNCHANGED <<vars, nodeVars>>

EndPayload(n) ==
    /\ n \in writing
    /\ writing' = writing \ {n} /\ written' = written \cup {n}
    /\ UNCHANGED <<disk, vars, nodeVars>>

-----------------------------------------------------------------------------
Loading == \E w \in Workers : ReadRoutes(w) \/ StoreRoutes(w) \/ \E dir \in Directory : dtn_routing_load(w, dir)

Sending ==
    \/ \E w \in Workers :
        \/ create_bundles_for_file(w) \/ SendBundle(w)
        \/ \E d \in Datagrams, size \in Sizes : dtn_file_node_core_send_file(w, d, size)
    \/ \E i \in Interface : interface_close(i)
    \/ Tick /\ UNCHANGED <<receiver, nodeVars, diskVars>>

Receiving ==
    \/ \E b \in BagToSet(network) : interface_io(b)
    \/ \E n \in DOMAIN forwarded : StartPayload(n) \/ EndPayload(n)

-----------------------------------------------------------------------------
\* The file under a path, once written by one thread alone, is a file sent to
\* that path of this node; it is as it was sent, if it was cut while no other
\* was, has its time stamp to itself, and is some whole chunks long.
FileIsAsSent ==
    \A p \in Paths : \A n \in written : disk[p] = {n} =>
        /\ \E d \in Content(forwarded[n]) : goal[d] = [here |-> TRUE, path |-> p]
        /\ (\A d \in Content(forwarded[n]) : Exact(d) /\ Alone(d)) => Intact(forwarded[n])

\* The routes a load activated are those it was asked for, if no other load was
\* under way: else it may answer that it did and have the routes of the other.
RoutesAreAsked == \A l \in loaded : l.alone => l.got = l.asked
=============================================================================
