------------------------------- MODULE Engine -------------------------------
(***************************************************************************)
(* The engine's network of nodes: the map e.nodes, the node directories and *)
(* network.json under networkPath, the admin commands that change them      *)
(* (engine/handle_admin.go, persistance.go), the clients that read the map  *)
(* (engine/handler.go, engine.go), and the engine's death and restart.      *)
(*                                                                         *)
(* Every admin connection has a goroutine of its own.  Only spawn holds     *)
(* nodesMu; delete, reset-network, list-nodes and adduser use the map       *)
(* without it, so a command is a sequence of steps and the steps of two     *)
(* commands interleave.  (Go may also abort the engine when it notices an   *)
(* unlocked map access; Die allows for that.)                               *)
(***************************************************************************)
EXTENDS Boot, FiniteSets, Functions

CONSTANTS
    Names,          \* node names
    IPs,            \* node addresses
    Admins,         \* admin connections
    Clients,        \* client connections
    Loader,         \* LoadNetwork, which runs before any connection
    None,           \* no name, no address, nobody
    MaxImages,      \* disk images made in a behaviour
    MaxDeaths,      \* deaths of the engine
    MaxCommands     \* admin commands given

Actors == Admins \cup {Loader}

ASSUME EngineAssumption ==
    /\ Loader \notin Admins /\ None \notin Actors \cup Names \cup IPs
    /\ Names # {} /\ IPs # {} /\ MaxImages \in Nat

VARIABLES
    state,          \* "down", "loading" or "up"
    nodes,          \* e.nodes: by address, the name and the open disk of a node
    nodesMu,        \* who holds it
    json,           \* network.json: its state and, when whole, its list
    folder,         \* whether networkPath exists
    path,           \* the disk.img in the directory of each name, 0 when none
    image,          \* the disk images ever made, the unlinked ones too
    act,            \* what each goroutine is doing
    client,         \* what each client is looking at
    deaths,         \* deaths so far
    commands,       \* commands so far
    promised,       \* nodes whose spawn was acknowledged and that nobody gave up
    buried,         \* names whose deletion was acknowledged
    raced,          \* a delete or reset has overlapped another change
    torn,           \* the engine has died with network.json half written
    half            \* images a death has left half formatted

disk  == <<json, folder, path, image>>
bound == <<deaths, commands>>
ghost == <<promised, buried, raced, torn, half>>
vars  == <<state, nodes, nodesMu, disk, act, client, bound, ghost>>

Node  == [name : Names, image : 1 .. MaxImages]
Entry == [name : Names, ip : IPs]

NoNodes == [ip \in {} |-> None]

\* What SaveNetwork would write now.
Config == {[name |-> nodes[ip].name, ip |-> ip] : ip \in DOMAIN nodes}

Idle == [at |-> "idle", cmd |-> "none", name |-> None, ip |-> None, image |-> 0, list |-> {}]

Goto(a, place) == act' = [act EXCEPT ![a].at = place]

Reply(a) == act' = [act EXCEPT ![a] = Idle]

\* The command of a is between its first and its last change to the network.
Changing(a) == act[a].at \in {"open", "format", "insert", "mkdir", "truncate", "write", "done",
                              "drop", "remove", "wipe", "clear"}

\* a is about to change the network too.
Enters(a) == raced' = (raced \/ \E b \in Admins \ {a} : Changing(b))

-----------------------------------------------------------------------------
(* NewComputer: open the disk of a name, and format it on its first boot. *)

Open(a) ==
    LET n == act[a].name
        i == IF path[n] = 0 THEN Len(image) + 1 ELSE path[n]
    IN  /\ act[a].at = "open"
        /\ i <= MaxImages
        /\ path' = [path EXCEPT ![n] = i]
        /\ image' = IF path[n] = 0 THEN Append(image, Blank) ELSE image
        /\ folder' = TRUE
        /\ act' = [act EXCEPT ![a].image = i,
                              ![a].at = IF IsInitialized(image'[i]) THEN "insert" ELSE "format"]
        /\ UNCHANGED <<state, nodes, nodesMu, json, client, bound, ghost>>

\* Mutant: the first-boot tree is not built.
FormatBare(a) ==
    LET i == act[a].image
    IN  /\ act[a].at = "format"
        /\ image' = [image EXCEPT ![i] = Written(@)]
        /\ Goto(a, IF image'[i].step + 1 = Len(Steps) THEN "insert" ELSE "format")
        /\ UNCHANGED <<state, nodes, nodesMu, json, folder, path, client, bound, ghost>>

\* One write; freshFormat stays in memory, so the tree follows the format.
Format(a) ==
    LET i == act[a].image
    IN  /\ act[a].at = "format"
        /\ image' = [image EXCEPT ![i] = Written(@)]
        /\ Goto(a, IF Complete(image'[i]) THEN "insert" ELSE "format")
        /\ UNCHANGED <<state, nodes, nodesMu, json, folder, path, client, bound, ghost>>

\* The map with the node of a in it.
WithNode(a) == [ip \in DOMAIN nodes \cup {act[a].ip} |->
                   IF ip = act[a].ip THEN [name |-> act[a].name, image |-> act[a].image]
                                     ELSE nodes[ip]]

\* Mutant: spawn does not save.
InsertUnsaved(a) ==
    /\ act[a].at = "insert"
    /\ nodes' = WithNode(a)
    /\ Goto(a, IF a = Loader THEN "next" ELSE "done")
    /\ UNCHANGED <<state, nodesMu, disk, client, bound, ghost>>

Insert(a) ==
    /\ act[a].at = "insert"
    /\ nodes' = WithNode(a)
    /\ Goto(a, IF a = Loader THEN "next" ELSE "mkdir")
    /\ UNCHANGED <<state, nodesMu, disk, client, bound, ghost>>

-----------------------------------------------------------------------------
(* SaveNetwork. *)

\* MkdirAll, and the configuration is put together.
SaveCollect(a) ==
    /\ act[a].at = "mkdir"
    /\ folder' = TRUE
    /\ act' = [act EXCEPT ![a].at = "truncate", ![a].list = Config]
    /\ UNCHANGED <<state, nodes, nodesMu, json, path, image, client, bound, ghost>>

\* Mutant: the file appears without its directory.
SaveTruncateAlways(a) ==
    /\ act[a].at = "truncate"
    /\ json' = [state |-> "empty", list |-> {}]
    /\ Goto(a, "write")
    /\ UNCHANGED <<state, nodes, nodesMu, folder, path, image, client, bound, ghost>>

\* WriteFile empties the file before it writes.  Without the directory it
\* fails, and nobody looks at SaveNetwork's error.
SaveTruncate(a) ==
    /\ act[a].at = "truncate"
    /\ IF folder THEN json' = [state |-> "empty", list |-> {}] /\ Goto(a, "write")
                 ELSE UNCHANGED json /\ Goto(a, "done")
    /\ UNCHANGED <<state, nodes, nodesMu, folder, path, image, client, bound, ghost>>

\* The write goes to the start of the file.  When another command has written
\* since the truncation, a longer text of its own sticks out behind.
SaveWrite(a) ==
    /\ act[a].at = "write"
    /\ json' \in
         LET mine == [state |-> "whole", list |-> act[a].list]
         IN  CASE json.state = "absent" -> {json}
               [] json.state = "empty"  -> {mine}
               [] OTHER -> {mine} \cup {[state |-> "garbled", list |-> {}] : x \in {json} \ {mine}}
    /\ Goto(a, "done")
    /\ UNCHANGED <<state, nodes, nodesMu, folder, path, image, client, bound, ghost>>

-----------------------------------------------------------------------------
(* The admin commands, from the line read to the answer written. *)

Begin(a, cmd, n, ip, place) ==
    /\ state = "up" /\ act[a].at = "idle" /\ commands < MaxCommands
    /\ commands' = commands + 1
    /\ act' = [act EXCEPT ![a] = [Idle EXCEPT !.cmd = cmd, !.name = n, !.ip = ip, !.at = place]]
    /\ UNCHANGED <<state, nodes, nodesMu, disk, client, deaths>>

Spawn(a, n, ip) == Begin(a, "spawn", n, ip, "lock") /\ UNCHANGED ghost

SpawnLock(a) ==
    /\ act[a].at = "lock" /\ nodesMu = None
    /\ nodesMu' = a
    /\ Goto(a, "check")
    /\ UNCHANGED <<state, nodes, disk, client, bound, ghost>>

\* Mutant: only the address is looked at.
TakenAddress(n, ip) == ip \in DOMAIN nodes

Taken(n, ip) == \E k \in DOMAIN nodes : nodes[k].name = n \/ k = ip

\* Its arguments are wrong, or its name or address is taken.
Refused(a) == act[a].name = None \/ Taken(act[a].name, act[a].ip)

\* Mutant: the lock is kept when the command is refused.
SpawnCheckKeeps(a) ==
    /\ act[a].at = "check"
    /\ IF Refused(a)
       THEN Reply(a) /\ UNCHANGED <<buried, raced>>
       ELSE Goto(a, "open") /\ Enters(a) /\ buried' = buried \ {act[a].name}
    /\ UNCHANGED <<state, nodes, nodesMu, disk, client, bound, promised, torn, half>>

SpawnCheck(a) ==
    /\ act[a].at = "check"
    /\ IF Refused(a)
       THEN Reply(a) /\ nodesMu' = None /\ UNCHANGED <<buried, raced>>
       ELSE Goto(a, "open") /\ Enters(a) /\ buried' = buried \ {act[a].name} /\ UNCHANGED nodesMu
    /\ UNCHANGED <<state, nodes, disk, client, bound, promised, torn, half>>

\* The deferred unlock, and the answer.
SpawnDone(a) ==
    /\ act[a].at = "done" /\ act[a].cmd = "spawn"
    /\ nodesMu' = None
    /\ Reply(a)
    /\ promised' = promised \cup {[name |-> act[a].name, ip |-> act[a].ip, image |-> act[a].image]}
    /\ UNCHANGED <<state, nodes, disk, client, bound, buried, raced, torn, half>>

Delete(a, n) == Begin(a, "delete", n, None, "lookup") /\ UNCHANGED ghost

\* getNodeByName.  From here on the node is given up.
DeleteLookup(a) ==
    LET found == {ip \in DOMAIN nodes : nodes[ip].name = act[a].name}
    IN  /\ act[a].at = "lookup"
        /\ \/ found = {} /\ Reply(a) /\ UNCHANGED <<promised, raced>>
           \/ /\ \E ip \in found : act' = [act EXCEPT ![a].at = "drop", ![a].ip = ip]
              /\ promised' = {p \in promised : p.name # act[a].name}
              /\ Enters(a)
        /\ UNCHANGED <<state, nodes, nodesMu, disk, client, bound, buried, torn, half>>

\* Mutant: deletes by the wrong key.
DeleteDropNothing(a) ==
    /\ act[a].at = "drop"
    /\ Goto(a, "remove")
    /\ UNCHANGED <<state, nodes, nodesMu, disk, client, bound, ghost>>

\* Whatever node has the address by now.
DeleteDrop(a) ==
    /\ act[a].at = "drop"
    /\ nodes' = Restrict(nodes, DOMAIN nodes \ {act[a].ip})
    /\ Goto(a, "remove")
    /\ UNCHANGED <<state, nodesMu, disk, client, bound, ghost>>

\* Mutant: the change is not saved.
DeleteRemoveUnsaved(a) ==
    /\ act[a].at = "remove"
    /\ path' = [path EXCEPT ![act[a].name] = 0]
    /\ Goto(a, "done")
    /\ UNCHANGED <<state, nodes, nodesMu, json, folder, image, client, bound, ghost>>

DeleteRemove(a) ==
    /\ act[a].at = "remove"
    /\ path' = [path EXCEPT ![act[a].name] = 0]
    /\ Goto(a, "mkdir")
    /\ UNCHANGED <<state, nodes, nodesMu, json, folder, image, client, bound, ghost>>

DeleteDone(a) ==
    /\ act[a].at = "done" /\ act[a].cmd = "delete"
    /\ Reply(a)
    /\ buried' = buried \cup {act[a].name}
    /\ UNCHANGED <<state, nodes, nodesMu, disk, client, bound, promised, raced, torn, half>>

Reset(a) ==
    /\ Begin(a, "reset", None, None, "wipe")
    /\ promised' = {}
    /\ Enters(a)
    /\ UNCHANGED <<buried, torn, half>>

\* RemoveAll takes the files away one by one, and the directory once it is empty.
ResetWipe(a) ==
    /\ act[a].at = "wipe"
    /\ \/ \E n \in Names : /\ path[n] # 0 /\ path' = [path EXCEPT ![n] = 0]
                           /\ UNCHANGED <<json, folder, act>>
       \/ json.state # "absent" /\ json' = [state |-> "absent", list |-> {}]
                                /\ UNCHANGED <<path, folder, act>>
       \/ /\ json.state = "absent" /\ \A n \in Names : path[n] = 0
          /\ folder' = FALSE
          /\ Goto(a, "clear")
          /\ UNCHANGED <<json, path>>
    /\ UNCHANGED <<state, nodes, nodesMu, image, client, bound, ghost>>

ResetClear(a) ==
    /\ act[a].at = "clear"
    /\ nodes' = NoNodes
    /\ Reply(a)
    /\ buried' = Names
    /\ UNCHANGED <<state, nodesMu, disk, client, bound, promised, raced, torn, half>>

\* adduser: the lookup, then a read and a write of /etc/passwd on its disk.
AddUser(a, n) == Begin(a, "adduser", n, None, "find") /\ UNCHANGED ghost

AddUserFind(a) ==
    /\ act[a].at = "find"
    /\ \/ Reply(a) /\ ~ \E ip \in DOMAIN nodes : nodes[ip].name = act[a].name
       \/ \E ip \in DOMAIN nodes :
             /\ nodes[ip].name = act[a].name
             /\ act' = [act EXCEPT ![a].at = "passwd", ![a].image = nodes[ip].image]
    /\ UNCHANGED <<state, nodes, nodesMu, disk, client, bound, ghost>>

AddUserWrite(a) ==
    LET i == act[a].image
    IN  /\ act[a].at = "passwd"
        /\ \E ok \in CanAddUser(image[i]) : image' = [image EXCEPT ![i].users = @ \/ ok]
        /\ Reply(a)
        /\ UNCHANGED <<state, nodes, nodesMu, json, folder, path, client, bound, ghost>>

\* list-nodes: the text is put together.  Every node is a computer, so a list of
\* any other type is empty.
List(a) == Begin(a, "list", None, None, "range") /\ UNCHANGED ghost

ListRange(a) ==
    /\ act[a].at = "range"
    /\ \E text \in {Config, {}} : act' = [act EXCEPT ![a].at = "cut", ![a].list = text]
    /\ UNCHANGED <<state, nodes, nodesMu, disk, client, bound, ghost>>

\* The last character is cut off when there are nodes; see Panic for no text.
ListCut(a) ==
    /\ act[a].at = "cut" /\ (nodes = NoNodes \/ act[a].list # {})
    /\ Reply(a)
    /\ UNCHANGED <<state, nodes, nodesMu, disk, client, bound, ghost>>

-----------------------------------------------------------------------------
(* The clients: the list of nodes, and the choice of one, under a read lock. *)

ClientList(c) ==
    /\ state = "up" /\ client[c] = "new" /\ nodesMu = None
    /\ client' = [client EXCEPT ![c] = "list"]
    /\ UNCHANGED <<state, nodes, nodesMu, disk, act, bound, ghost>>

\* GetNode, and the HandleClient of the node or the end of the connection.
ClientPick(c) ==
    /\ state = "up" /\ client[c] = "list" /\ nodesMu = None
    /\ \E ip \in IPs : client' = [client EXCEPT ![c] = IF ip \in DOMAIN nodes THEN "node" ELSE "gone"]
    /\ UNCHANGED <<state, nodes, nodesMu, disk, act, bound, ghost>>

-----------------------------------------------------------------------------
(* Death and restart. *)

Stop ==
    /\ state' = "down"
    /\ nodes' = NoNodes
    /\ nodesMu' = None
    /\ act' = [a \in Actors |-> Idle]
    /\ client' = [c \in Clients |-> "new"]
    /\ torn' = (torn \/ json.state \in {"empty", "garbled"})
    /\ half' = half \cup {i \in DOMAIN image : 0 < image[i].step /\ ~Complete(image[i])}
    /\ UNCHANGED <<disk, commands, promised, buried, raced>>

\* Ctrl-C, the only way to stop the engine, or a crash.
Die ==
    /\ state # "down" /\ deaths < MaxDeaths
    /\ Stop
    /\ deaths' = deaths + 1

\* list-nodes cuts the last character off an empty text; a line of blanks has
\* no first word.
Panic(a) ==
    /\ \/ act[a].at = "cut" /\ nodes # NoNodes /\ act[a].list = {}
       \/ act[a].at = "blank"
    /\ Stop
    /\ UNCHANGED deaths

BlankLine(a) == Begin(a, "blank", None, None, "blank") /\ UNCHANGED ghost

\* NewEngine and LoadNetwork.  A file that cannot be parsed is a warning.
Restart ==
    /\ state = "down"
    /\ state' = "loading"
    /\ act' = [act EXCEPT ![Loader] = [Idle EXCEPT !.cmd = "load", !.at = "next", !.list = json.list]]
    /\ UNCHANGED <<nodes, nodesMu, disk, client, bound, ghost>>

LoadNext ==
    /\ act[Loader].at = "next"
    /\ \/ \E e \in act[Loader].list :
             /\ act' = [act EXCEPT ![Loader].at = "open", ![Loader].name = e.name, ![Loader].ip = e.ip,
                                   ![Loader].list = act[Loader].list \ {e}]
             /\ UNCHANGED state
       \/ act[Loader].list = {} /\ Reply(Loader) /\ state' = "up"
    /\ UNCHANGED <<nodes, nodesMu, disk, client, bound, ghost>>

-----------------------------------------------------------------------------
\* An empty disk, or a network saved by an earlier version of the program.
Init ==
    /\ state = "down" /\ nodes = NoNodes /\ nodesMu = None
    /\ act = [a \in Actors |-> Idle]
    /\ client = [c \in Clients |-> "new"]
    /\ deaths = 0 /\ commands = 0
    /\ promised = {} /\ buried = {} /\ half = {}
    /\ raced = FALSE /\ torn = FALSE
    /\ \/ /\ json = [state |-> "absent", list |-> {}] /\ folder = FALSE
          /\ path = [n \in Names |-> 0] /\ image = <<>>
       \/ LET e == CHOOSE e \in Entry : TRUE
          IN  /\ json = [state |-> "whole", list |-> {e}] /\ folder = TRUE
              /\ path = [n \in Names |-> IF n = e.name THEN 1 ELSE 0] /\ image = <<Outdated>>

Step(a) ==
    \/ Open(a) \/ Format(a) \/ Insert(a)
    \/ SaveCollect(a) \/ SaveTruncate(a) \/ SaveWrite(a)
    \/ SpawnLock(a) \/ SpawnCheck(a) \/ SpawnDone(a)
    \/ DeleteLookup(a) \/ DeleteDrop(a) \/ DeleteRemove(a) \/ DeleteDone(a)
    \/ ResetWipe(a) \/ ResetClear(a)
    \/ AddUserFind(a) \/ AddUserWrite(a)
    \/ ListRange(a) \/ ListCut(a)

Command(a) ==
    \/ \E n \in Names, ip \in IPs : Spawn(a, n, ip)
    \/ Spawn(a, None, None)
    \/ \E n \in Names : Delete(a, n) \/ AddUser(a, n)
    \/ Reset(a) \/ List(a) \/ BlankLine(a)

Next ==
    \/ \E a \in Actors : Step(a)
    \/ \E a \in Admins : Command(a) \/ Panic(a)
    \/ \E c \in Clients : ClientList(c) \/ ClientPick(c)
    \/ Die \/ Restart \/ LoadNext

\* Goroutines run, the mutex is handed over, and somebody starts the engine.
Fairness ==
    /\ \A a \in Actors : WF_vars(Step(a)) /\ SF_vars(SpawnLock(a))
    /\ \A a \in Admins : WF_vars(Panic(a))
    /\ \A c \in Clients : SF_vars(ClientList(c))
    /\ WF_vars(Restart) /\ WF_vars(LoadNext)

Spec == Init /\ [][Next]_vars /\ Fairness

-----------------------------------------------------------------------------
(* Properties. *)

\* Every goroutine is at a place of its command, and whoever formats or adds a
\* user has an image in hand.
TypeOK ==
    /\ state \in {"down", "loading", "up"}
    /\ DOMAIN nodes \subseteq IPs /\ \A ip \in DOMAIN nodes : nodes[ip] \in Node
    /\ nodesMu \in Admins \cup {None}
    /\ json.state \in {"absent", "empty", "whole", "garbled"} /\ json.list \subseteq Entry
    /\ json.state # "whole" => json.list = {}
    /\ json.state # "absent" => folder
    /\ path \in [Names -> 0 .. Len(image)]
    /\ \A i \in DOMAIN image : image[i] \in Image
    /\ \A a \in Actors : act[a].at \in {"format", "insert", "passwd"} => act[a].image \in DOMAIN image
    /\ client \in [Clients -> {"new", "list", "node", "gone"}]

\* Two nodes never have one name or work on one disk, whatever unlocked
\* commands come between spawn's check and its entry in the map: only the
\* holder of nodesMu adds nodes (handle_admin.go:88-126).
OneNodePerName ==
    \A i, j \in DOMAIN nodes :
        (nodes[i].name = nodes[j].name \/ nodes[i].image = nodes[j].image) => i = j

\* A node works on the disk.img that is in its directory, so that what users
\* write is there after the next start, unless a reset is wiping, or a delete
\* or reset overlapped the spawn and removed the directory
\* (handle_admin.go:192-204).
DiskInPlace ==
    ~raced /\ (\A a \in Admins : act[a].cmd # "reset") =>
        \A ip \in DOMAIN nodes : path[nodes[ip].name] = nodes[ip].image

\* Between commands network.json lists exactly the nodes there are, unless
\* commands overlapped or the file was torn (persistance.go:25-49).
Saved ==
    state = "up" /\ ~raced /\ ~torn /\ ~(\E a \in Admins : Changing(a)) => json.list = Config

\* Short of overlaps and a torn file, an acknowledged spawn outlives every
\* restart, with its disk, and an acknowledged deletion is not undone
\* (handle_admin.go:122-126, 196-210, persistance.go:51-79).
Survives ==
    state = "up" /\ ~raced /\ ~torn =>
        /\ \A p \in promised : p.ip \in DOMAIN nodes /\ nodes[p.ip] = [name |-> p.name, image |-> p.image]
        /\ \A ip \in DOMAIN nodes : nodes[ip].name \notin buried

\* A node in the map has all of its first-boot tree, unless a death came
\* between the superblock and the end of the tree: then the header check passes
\* and no later boot makes up for it (fs.go:176-186, computer.go:128).
BootsComplete == \A ip \in DOMAIN nodes : nodes[ip].image \in half \/ Complete(image[nodes[ip].image])

\* What was written to a complete disk stays: no boot formats it again
\* (fs.go:176-186).
NeverReformatted ==
    [][\A i \in DOMAIN image : Complete(image[i]) =>
            Complete(image'[i]) /\ (image[i].users => image'[i].users)]_vars

\* Every command is answered, a spawn that waits for the lock and one that is
\* refused included, or the engine dies; and every client gets its list
\* (handle_admin.go:21-51, 89-90, handler.go:26).
Answered ==
    /\ \A a \in Admins : act[a].at # "idle" ~> act[a].at = "idle"
    /\ \A c \in Clients : state = "up" ~> (client[c] # "new" \/ state # "up")

\* README.md:197 says "Everything persists across restarts of the engine", and
\* README.md:217 gives engine/ "network persistence": an acknowledged node,
\* whatever the engine was doing when it was stopped, is there after the next
\* start; overlapping commands are left out (persistance.go:48).
EverythingPersists ==
    state = "up" /\ ~raced => \A p \in promised : p.ip \in DOMAIN nodes /\ nodes[p.ip].name = p.name
=============================================================================
