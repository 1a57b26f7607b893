---------------------------- MODULE EngineProofs ----------------------------
(***************************************************************************)
(* Proofs about Engine, for any number of names, addresses, admin           *)
(* connections, clients, commands and deaths.                               *)
(***************************************************************************)
EXTENDS Engine, TLAPS

-----------------------------------------------------------------------------
(* Where every goroutine can be, and what it has in hand. *)

Place == {"idle", "lock", "check", "open", "format", "insert", "mkdir", "truncate", "write", "done",
          "lookup", "drop", "remove", "wipe", "clear", "find", "passwd", "range", "cut", "blank", "next"}

Act == [at : Place, cmd : {"none", "spawn", "delete", "reset", "adduser", "list", "blank", "load"},
        name : Names \cup {None}, ip : IPs \cup {None}, image : Nat, list : SUBSET Entry]

\* The network, in memory and on disk.
Stored ==
    /\ state \in {"down", "loading", "up"}
    /\ DOMAIN nodes \subseteq IPs /\ nodes \in [DOMAIN nodes -> Node]
    /\ nodesMu \in Admins \cup {None}
    /\ json \in [state : {"absent", "empty", "whole", "garbled"}, list : SUBSET Entry]
    /\ folder \in BOOLEAN
    /\ json.state # "whole" => json.list = {}
    /\ json.state # "absent" => folder
    /\ image \in Seq(Image)
    /\ path \in [Names -> 0 .. Len(image)]
    /\ \A ip \in DOMAIN nodes : nodes[ip].image \in DOMAIN image
    /\ client \in [Clients -> {"new", "list", "node", "gone"}]

Ghosts ==
    /\ promised \subseteq [name : Names, ip : IPs, image : Nat]
    /\ buried \subseteq Names /\ half \subseteq Nat
    /\ raced \in BOOLEAN /\ torn \in BOOLEAN

\* A command goes through its own places, and only while the engine is up.
InPlace(a) ==
    \/ act[a] = Idle
    \/ a \in Admins /\ state = "up" /\
        \/ /\ act[a].cmd = "spawn"
           /\ act[a].at \in {"lock", "check", "open", "format", "insert", "mkdir", "truncate", "write", "done"}
           /\ act[a].name = None => act[a].at \in {"lock", "check"}
           /\ act[a].name # None => act[a].name \in Names /\ act[a].ip \in IPs
        \/ /\ act[a].cmd = "delete"
           /\ act[a].at \in {"lookup", "drop", "remove", "mkdir", "truncate", "write", "done"}
           /\ act[a].name \in Names
           /\ act[a].at = "drop" => act[a].ip \in IPs
        \/ act[a].cmd = "reset" /\ act[a].at \in {"wipe", "clear"}
        \/ act[a].cmd = "adduser" /\ act[a].at \in {"find", "passwd"}
        \/ act[a].cmd = "list" /\ act[a].at \in {"range", "cut"}
        \/ act[a].cmd = "blank" /\ act[a].at = "blank"
    \/ /\ a = Loader /\ state = "loading" /\ act[a].cmd = "load"
       /\ act[a].at \in {"next", "open", "format", "insert"}
       /\ act[a].at # "next" => act[a].name \in Names /\ act[a].ip \in IPs

\* A spawn that has begun to look at the map holds nodesMu.
Holding(a) == act[a].cmd = "spawn" /\ act[a].at # "lock" => nodesMu = a

\* The image that a command works on exists, and is formatted only as long as
\* something is missing.
InHand(a) ==
    /\ act[a].at \in {"format", "insert", "passwd"} => act[a].image \in DOMAIN image
    /\ act[a].at \in {"format", "insert"} => act[a].image <= MaxImages
    /\ act[a].at = "format" => ~Complete(image[act[a].image])

Base ==
    /\ Stored /\ Ghosts
    /\ act \in [Actors -> Act]
    /\ \A a \in Actors : InPlace(a) /\ Holding(a) /\ InHand(a)

\* a adds a node to the map.
Adding(a) == act[a].at \in {"open", "format", "insert"}

(***************************************************************************)
(* Names.  Between its check and its entry in the map a spawn, holding      *)
(* nodesMu, keeps its name and address free; an image is never opened under *)
(* two names.                                                               *)
(***************************************************************************)
Distinct(list) == \A e, f \in list : (e.name = f.name \/ e.ip = f.ip) => e = f

Opened(n, i) ==
    \/ path[n] = i
    \/ \E ip \in DOMAIN nodes : nodes[ip].name = n /\ nodes[ip].image = i
    \/ \E a \in Actors : act[a].at \in {"format", "insert"} /\ act[a].name = n /\ act[a].image = i

NamesApart ==
    /\ state = "down" => nodes = NoNodes
    /\ \A i, j \in DOMAIN nodes : nodes[i].name = nodes[j].name => i = j
    /\ Distinct(json.list) /\ \A a \in Actors : Distinct(act[a].list)
    /\ \A a \in Actors : Adding(a) => ~Taken(act[a].name, act[a].ip)
    /\ \A e \in act[Loader].list : /\ ~Taken(e.name, e.ip)
                                   /\ Adding(Loader) => e.name # act[Loader].name /\ e.ip # act[Loader].ip

OwnImages == \A m, n \in Names, i \in DOMAIN image : Opened(m, i) /\ Opened(n, i) => m = n

(***************************************************************************)
(* First boots.  A disk with a header but not all of its tree is being      *)
(* formatted now, or a death left it so.                                    *)
(***************************************************************************)
Boots ==
    /\ \A i \in DOMAIN image :
          0 < image[i].step /\ ~Complete(image[i]) =>
              i \in half \/ \E a \in Actors : act[a].at = "format" /\ act[a].image = i
    /\ \A a \in Actors : act[a].at = "insert" =>
          act[a].image \in half \/ Complete(image[act[a].image])
    /\ BootsComplete

(***************************************************************************)
(* As long as no changes overlapped: who changes the network is alone, so   *)
(* what it has found or done still holds.                                   *)
(***************************************************************************)
Saving(a) == act[a].at \in {"mkdir", "truncate", "write", "done"}

Alone == \A a, b \in Admins : Changing(a) /\ Changing(b) => a = b

NoReset == \A a \in Admins : act[a].cmd # "reset"

Disks ==
    /\ Alone
    /\ NoReset => \A ip \in DOMAIN nodes : path[nodes[ip].name] = nodes[ip].image
    /\ NoReset => \A a \in Actors :
                     act[a].at \in {"format", "insert"} => path[act[a].name] = act[a].image
    /\ \A a \in Admins :
          /\ act[a].at = "drop" => act[a].ip \in DOMAIN nodes /\ nodes[act[a].ip].name = act[a].name
          /\ act[a].cmd = "delete" /\ (act[a].at = "remove" \/ Saving(a)) =>
                \A ip \in DOMAIN nodes : nodes[ip].name # act[a].name
          /\ act[a].cmd = "spawn" /\ Saving(a) =>
                /\ act[a].ip \in DOMAIN nodes
                /\ nodes[act[a].ip].name = act[a].name /\ nodes[act[a].ip].image = act[a].image

\* What LoadNetwork has still to open.
Ahead == act[Loader].list \cup
         (IF Adding(Loader) THEN {[name |-> act[Loader].name, ip |-> act[Loader].ip]} ELSE {})

\* network.json agrees with the map but while a command is between the two.
Files ==
    /\ json.state \in {"empty", "garbled"} => \E a \in Admins : act[a].at = "write"
    /\ state = "up" /\ ~(\E a \in Admins : Changing(a)) => json.list = Config
    /\ state = "loading" => json.list = Config \cup Ahead
    /\ \A a \in Admins :
          /\ act[a].at \in {"open", "format", "insert", "drop", "done"} => json.list = Config
          /\ act[a].at \in {"truncate", "write"} => act[a].list = Config /\ folder
          /\ act[a].at = "write" => json.state = "empty"
          /\ act[a].at = "clear" => json.state = "absent"

\* A promise is kept by the map, by its disk, and by the file or by who is
\* about to write it.  A deleted name is in none of them.
Promises ==
    /\ \A p \in promised :
          /\ path[p.name] = p.image /\ p.image # 0
          /\ state = "up" => /\ p.ip \in DOMAIN nodes
                             /\ nodes[p.ip].name = p.name /\ nodes[p.ip].image = p.image
          /\ \/ [name |-> p.name, ip |-> p.ip] \in json.list
             \/ \E a \in Admins : act[a].at = "write"
    /\ \A a \in Admins : /\ act[a].cmd = "reset" => promised = {}
                         /\ act[a].cmd = "delete" /\ act[a].at # "lookup" =>
                               \A p \in promised : p.name # act[a].name
    /\ \A ip \in DOMAIN nodes : nodes[ip].name \notin buried
    /\ \A e \in json.list : e.name \notin buried
    /\ \A a \in Actors : Adding(a) => act[a].name \notin buried

Unraced == Disks /\ (~torn => Files /\ Promises)

IInv ==
    /\ Base /\ NamesApart /\ OwnImages /\ Boots
    /\ ~raced => Unraced

\* A step of a changes nobody else's place.
Others(a) == \A b \in Actors : b # a => act'[b] = act[b]

\* a keeps its command and what it has in hand.
Keeps(a) == /\ act'[a].cmd = act[a].cmd /\ act'[a].name = act[a].name /\ act'[a].ip = act[a].ip
            /\ act'[a].image = act[a].image /\ act'[a].list = act[a].list

\* Open makes i the image of the name of a, a new one when there is none.
Opens(a, i) ==
    /\ act[a].at = "open" /\ act[a].name \in Names /\ act[a].ip \in IPs
    /\ i = IF path[act[a].name] = 0 THEN Len(image) + 1 ELSE path[act[a].name]
    /\ path' = [path EXCEPT ![act[a].name] = i]
    /\ image' = IF path[act[a].name] = 0 THEN Append(image, Blank) ELSE image
    /\ image' \in Seq(Image) /\ i \in DOMAIN image'
    /\ DOMAIN image \subseteq DOMAIN image'
    /\ \A j \in DOMAIN image : image'[j] = image[j]
    /\ folder'
    /\ act' \in [Actors -> Act] /\ Others(a)
    /\ act'[a].at = IF IsInitialized(image'[i]) THEN "insert" ELSE "format"
    /\ act'[a].image = i /\ act'[a].cmd = act[a].cmd /\ act'[a].name = act[a].name
    /\ act'[a].ip = act[a].ip /\ act'[a].list = act[a].list
    /\ UNCHANGED <<state, nodes, nodesMu, json, client, bound, ghost>>

-----------------------------------------------------------------------------
\* A goroutine that goes on to its next place keeps its command.
LEMMA GotoFacts ==
    ASSUME act \in [Actors -> Act], NEW a \in Actors, NEW place \in Place, Goto(a, place)
    PROVE  act' \in [Actors -> Act] /\ act'[a].at = place /\ Keeps(a) /\ Others(a)
BY DEF Goto, Act, Keeps, Others

\* A goroutine that has answered waits for the next line.
LEMMA ReplyFacts ==
    ASSUME act \in [Actors -> Act], NEW a \in Actors, Reply(a)
    PROVE  act' \in [Actors -> Act] /\ act'[a] = Idle /\ Others(a)
<1>1. Idle \in Act
  BY DEF Idle, Act, Place
<1> QED
  BY <1>1 DEF Reply, Others

\* A command begins with its arguments, and nothing in hand.
LEMMA BeginFacts ==
    ASSUME act \in [Actors -> Act], NEW a \in Admins,
           NEW cmd \in {"spawn", "delete", "reset", "adduser", "list", "blank"},
           NEW n \in Names \cup {None}, NEW ip \in IPs \cup {None}, NEW place \in Place,
           Begin(a, cmd, n, ip, place)
    PROVE  /\ act' \in [Actors -> Act] /\ Others(a)
           /\ act'[a].at = place /\ act'[a].cmd = cmd /\ act'[a].name = n /\ act'[a].ip = ip
           /\ act'[a].list = {} /\ state = "up" /\ act[a].at = "idle" /\ a \in Actors
           /\ UNCHANGED <<state, nodes, nodesMu, disk, client, deaths>>
<1> DEFINE r == [Idle EXCEPT !.cmd = cmd, !.name = n, !.ip = ip, !.at = place]
<1>1. r \in Act
  BY DEF Idle, Act
<1>2. r.at = place /\ r.cmd = cmd /\ r.name = n /\ r.ip = ip /\ r.list = {}
  BY DEF Idle
<1>3. act' = [act EXCEPT ![a] = r] /\ a \in Actors
  BY DEF Begin, Actors
<1> HIDE DEF r
<1>4. act' \in [Actors -> Act] /\ Others(a) /\ act'[a] = r
  BY <1>1, <1>3 DEF Others
<1> QED
  BY <1>2, <1>3, <1>4 DEF Begin

\* Only one goroutine at a time adds a node: a spawn holds nodesMu, and
\* LoadNetwork runs before there are any connections.
LEMMA OneAdder ==
    ASSUME Base, NEW a \in Actors, NEW b \in Actors, Adding(a), Adding(b)
    PROVE  a = b
<1>1. ASSUME NEW c \in Actors, Adding(c)
      PROVE  (c = Loader /\ state = "loading") \/ (c \in Admins /\ state = "up" /\ nodesMu = c)
  <2>1. InPlace(c) /\ Holding(c)
    BY DEF Base
  <2> QED
    BY <1>1, <2>1 DEF InPlace, Holding, Adding, Idle
<1> QED
  BY <1>1

-----------------------------------------------------------------------------
(* Base is kept. *)

\* A step of a that changes no image, no state of the engine and no one else's
\* lock keeps Base when a comes to a place of its command.
LEMMA QuietBase ==
    ASSUME Base, NEW a \in Actors, act' \in [Actors -> Act], Others(a),
           UNCHANGED <<state, image>>, nodesMu' = nodesMu \/ nodesMu \in {None, a},
           Stored', Ghosts', InPlace(a)', Holding(a)', InHand(a)'
    PROVE  Base'
<1>1. ASSUME NEW b \in Actors, b # a
      PROVE  InPlace(b)' /\ Holding(b)' /\ InHand(b)'
  <2>1. act'[b] = act[b] /\ InPlace(b) /\ Holding(b) /\ InHand(b)
    BY <1>1 DEF Base, Others
  <2>2. b # None
    BY EngineAssumption
  <2>3. InPlace(b)'
    BY <2>1 DEF InPlace
  <2>4. Holding(b)'
    BY <1>1, <2>1, <2>2 DEF Holding
  <2> QED
    BY <2>1, <2>3, <2>4 DEF InHand
<1> QED
  BY <1>1 DEF Base

\* Steps that touch neither the map nor the disk keep both.
LEMMA StoredSame ==
    ASSUME Stored, UNCHANGED <<state, nodes, disk, client>>, nodesMu' \in Admins \cup {None}
    PROVE  Stored'
BY DEF Stored, disk

\* Every command begins at its first place.
LEMMA CommandBase ==
    ASSUME Base, NEW a \in Admins, Command(a)
    PROVE  Base'
<1>0. Stored /\ Ghosts /\ act \in [Actors -> Act] /\ a \in Actors /\ a # Loader
  BY EngineAssumption DEF Base, Actors
<1> DEFINE First(cmd, n, ip, place) ==
             \/ cmd = "spawn" /\ place = "lock" /\ (n # None => n \in Names /\ ip \in IPs)
             \/ cmd = "delete" /\ place = "lookup" /\ n \in Names
             \/ cmd = "reset" /\ place = "wipe"
             \/ cmd = "adduser" /\ place = "find"
             \/ cmd = "list" /\ place = "range"
             \/ cmd = "blank" /\ place = "blank"
<1> HIDE DEF First
<1>1. ASSUME NEW cmd \in {"spawn", "delete", "reset", "adduser", "list", "blank"},
             NEW n \in Names \cup {None}, NEW ip \in IPs \cup {None}, NEW place \in Place,
             First(cmd, n, ip, place), Begin(a, cmd, n, ip, place), Ghosts'
      PROVE  Base'
  <2>2. /\ act' \in [Actors -> Act] /\ Others(a) /\ state = "up"
        /\ act'[a].at = place /\ act'[a].cmd = cmd /\ act'[a].name = n /\ act'[a].ip = ip
        /\ UNCHANGED <<state, nodes, nodesMu, disk, client, deaths>>
    BY <1>0, <1>1, BeginFacts
  <2>3. InPlace(a)' /\ Holding(a)' /\ InHand(a)'
    BY <1>1, <2>2 DEF First, InPlace, Holding, InHand
  <2>4. Stored'
    BY <1>0, <2>2, StoredSame DEF Stored
  <2> QED
    BY <1>0, <1>1, <2>2, <2>3, <2>4, QuietBase DEF disk
<1>2. ASSUME UNCHANGED ghost PROVE Ghosts'
  BY <1>0, <1>2 DEF Ghosts, ghost
<1>3. ASSUME NEW n \in Names \cup {None}, NEW ip \in IPs \cup {None}, Spawn(a, n, ip),
             n # None => n \in Names /\ ip \in IPs
      PROVE  Base'
  <2>1. Begin(a, "spawn", n, ip, "lock") /\ Ghosts'
    BY <1>2, <1>3 DEF Spawn
  <2> QED
    BY <1>1, <1>3, <2>1 DEF First, Place
<1>4. CASE (\E n \in Names, ip \in IPs : Spawn(a, n, ip)) \/ Spawn(a, None, None)
  BY <1>3, <1>4
<1>5. CASE \E n \in Names : Delete(a, n) \/ AddUser(a, n)
  BY <1>1, <1>2, <1>5 DEF Delete, AddUser, First, Place
<1>6. CASE Reset(a)
  <2>1. Ghosts' /\ Begin(a, "reset", None, None, "wipe")
    BY <1>0, <1>6 DEF Ghosts, Reset, Enters
  <2> QED
    BY <1>1, <2>1 DEF First, Place
<1>7. CASE List(a)
  <2>1. Ghosts' /\ Begin(a, "list", None, None, "range")
    BY <1>2, <1>7 DEF List
  <2> QED
    BY <1>1, <2>1 DEF First, Place
<1>8. CASE BlankLine(a)
  <2>1. Ghosts' /\ Begin(a, "blank", None, None, "blank")
    BY <1>2, <1>8 DEF BlankLine
  <2> QED
    BY <1>1, <2>1 DEF First, Place
<1> QED
  BY <1>4, <1>5, <1>6, <1>7, <1>8 DEF Command

\* Stop leaves everyone idle and the disk as it is.
LEMMA StopBase ==
    ASSUME Base, Stop
    PROVE  Base'
<1>1. /\ state' = "down" /\ nodes' = NoNodes /\ nodesMu' = None /\ act' = [a \in Actors |-> Idle]
      /\ client' = [c \in Clients |-> "new"] /\ UNCHANGED <<disk, promised, buried, raced>>
      /\ torn' = (torn \/ json.state \in {"empty", "garbled"})
      /\ half' = half \cup {i \in DOMAIN image : 0 < image[i].step /\ ~Complete(image[i])}
  BY DEF Stop
<1>2. Idle \in Act /\ DOMAIN NoNodes = {}
  BY DEF Idle, Act, Place, NoNodes
<1>3. Stored'
  BY <1>1, <1>2 DEF Base, Stored, disk, NoNodes
<1>4. Ghosts'
  <2>1. DOMAIN image \subseteq Nat
    BY DEF Base, Stored
  <2> QED
    BY <1>1, <2>1 DEF Base, Ghosts
<1>5. \A a \in Actors : InPlace(a)' /\ Holding(a)' /\ InHand(a)'
  BY <1>1 DEF InPlace, Holding, InHand, Idle
<1> QED
  BY <1>1, <1>2, <1>3, <1>4, <1>5 DEF Base

\* What Open does: the image of the name, a new one when there is none.
LEMMA OpenFacts ==
    ASSUME Base, NEW a \in Actors, Open(a)
    PROVE  \E i \in 1 .. MaxImages : Opens(a, i)
<1> DEFINE n == act[a].name
           i == IF path[n] = 0 THEN Len(image) + 1 ELSE path[n]
           place == IF IsInitialized(image'[i]) THEN "insert" ELSE "format"
<1>1. /\ act[a].at = "open" /\ i <= MaxImages /\ path' = [path EXCEPT ![n] = i]
      /\ image' = IF path[n] = 0 THEN Append(image, Blank) ELSE image
      /\ folder' = TRUE /\ act' = [act EXCEPT ![a].image = i, ![a].at = place]
      /\ UNCHANGED <<state, nodes, nodesMu, json, client, bound, ghost>>
  BY DEF Open
<1>2. n \in Names /\ act[a].ip \in IPs
  <2>1. InPlace(a)
    BY DEF Base
  <2> QED
    BY <1>1, <2>1, EngineAssumption DEF InPlace, Idle
<1>3. image \in Seq(Image) /\ Blank \in Image /\ path[n] \in 0 .. Len(image)
  BY <1>2 DEF Base, Stored, Blank, Image, Steps
<1>4. /\ i \in Nat /\ i >= 1 /\ image' \in Seq(Image) /\ i \in DOMAIN image'
      /\ DOMAIN image \subseteq DOMAIN image' /\ \A j \in DOMAIN image : image'[j] = image[j]
  <2>1. CASE path[n] = 0
    BY <1>1, <1>3, <2>1
  <2>2. CASE path[n] # 0
    BY <1>1, <1>3, <2>2
  <2> QED
    BY <2>1, <2>2
<1>5. i \in 1 .. MaxImages
  BY <1>1, <1>4, EngineAssumption
<1>6. place \in Place
  BY DEF Place
<1> HIDE DEF i, place
<1>7. /\ act' \in [Actors -> Act] /\ Others(a) /\ act'[a].at = place /\ act'[a].image = i
      /\ act'[a].cmd = act[a].cmd /\ act'[a].name = act[a].name
      /\ act'[a].ip = act[a].ip /\ act'[a].list = act[a].list
  BY <1>1, <1>4, <1>6 DEF Base, Act, Others
<1> QED
  BY <1>1, <1>2, <1>4, <1>5, <1>7 DEF i, place, Opens

\* Opening a disk, and making its file when there is none.
LEMMA OpenBase ==
    ASSUME Base, NEW a \in Actors, Open(a)
    PROVE  Base'
<1>1. PICK i \in 1 .. MaxImages : Opens(a, i)
  BY OpenFacts
<1>2. path' \in [Names -> 0 .. Len(image')]
  <2>1. Len(image) <= Len(image') /\ i \in 0 .. Len(image') /\ Len(image) \in Nat /\ Len(image') \in Nat
    BY <1>1 DEF Opens, Base, Stored
  <2> QED
    BY <1>1, <2>1 DEF Opens, Base, Stored
<1>3. folder' = TRUE
  BY <1>1 DEF Opens, Open
<1>4. Stored'
  BY <1>1, <1>2, <1>3 DEF Opens, Base, Stored
<1>5. Ghosts'
  BY <1>1 DEF Opens, Base, Ghosts, ghost
<1>6. InPlace(a)' /\ Holding(a)'
  <2>1. InPlace(a) /\ Holding(a) /\ act'[a].at \in {"format", "insert"} /\ None \notin Names
    BY <1>1, EngineAssumption DEF Opens, Base
  <2> QED
    BY <1>1, <2>1 DEF Opens, InPlace, Holding, Idle
<1>7. InHand(a)'
  BY <1>1 DEF Opens, InHand, IsInitialized, Complete, Steps
<1>8. ASSUME NEW b \in Actors, b # a
      PROVE  InPlace(b)' /\ Holding(b)' /\ InHand(b)'
  <2>1. InPlace(b) /\ Holding(b) /\ InHand(b) /\ act'[b] = act[b]
    BY <1>1, <1>8 DEF Opens, Base, Others
  <2> QED
    BY <1>1, <2>1 DEF Opens, InPlace, Holding, InHand
<1> QED
  BY <1>1, <1>4, <1>5, <1>6, <1>7, <1>8 DEF Opens, Base

\* What one formatting write does.
LEMMA FormatFacts ==
    ASSUME Base, NEW a \in Actors, Format(a)
    PROVE  /\ act[a].at = "format" /\ act[a].image \in DOMAIN image
           /\ ~Complete(image[act[a].image])
           /\ image' = [image EXCEPT ![act[a].image] = Written(image[act[a].image])]
           /\ image' \in Seq(Image) /\ DOMAIN image' = DOMAIN image /\ Len(image') = Len(image)
           /\ image'[act[a].image] = Written(image[act[a].image])
           /\ \A j \in DOMAIN image : j # act[a].image => image'[j] = image[j]
           /\ act' \in [Actors -> Act] /\ Others(a) /\ Keeps(a)
           /\ act'[a].at = IF Complete(image'[act[a].image]) THEN "insert" ELSE "format"
           /\ UNCHANGED <<state, nodes, nodesMu, json, folder, path, client, bound, ghost>>
<1> DEFINE i == act[a].image
           place == IF Complete(image'[i]) THEN "insert" ELSE "format"
<1>1. /\ act[a].at = "format" /\ image' = [image EXCEPT ![i] = Written(image[i])] /\ Goto(a, place)
      /\ UNCHANGED <<state, nodes, nodesMu, json, folder, path, client, bound, ghost>>
  BY DEF Format
<1>2. i \in DOMAIN image /\ ~Complete(image[i]) /\ image \in Seq(Image)
  BY <1>1 DEF Base, InHand, Stored
<1>3. image[i] \in Image
  BY <1>2
<1>4. Written(image[i]) \in Image
  BY <1>2, <1>3 DEF Image, Written, Complete, Steps
<1>5. /\ image' \in Seq(Image) /\ DOMAIN image' = DOMAIN image /\ Len(image') = Len(image)
      /\ image'[i] = Written(image[i]) /\ \A j \in DOMAIN image : j # i => image'[j] = image[j]
  BY <1>1, <1>2, <1>4
<1>6. place \in Place
  BY DEF Place
<1>7. act' \in [Actors -> Act] /\ act'[a].at = place /\ Keeps(a) /\ Others(a)
  BY <1>1, <1>6, GotoFacts DEF Base
<1> QED
  BY <1>1, <1>2, <1>5, <1>7

\* One formatting write, on the disk of the only goroutine that adds a node.
LEMMA FormatBase ==
    ASSUME Base, NEW a \in Actors, Format(a)
    PROVE  Base'
<1>1. /\ act[a].at = "format" /\ act[a].image \in DOMAIN image
      /\ image' \in Seq(Image) /\ DOMAIN image' = DOMAIN image /\ Len(image') = Len(image)
      /\ \A j \in DOMAIN image : j # act[a].image => image'[j] = image[j]
      /\ act' \in [Actors -> Act] /\ Others(a) /\ Keeps(a)
      /\ act'[a].at = IF Complete(image'[act[a].image]) THEN "insert" ELSE "format"
      /\ UNCHANGED <<state, nodes, nodesMu, json, folder, path, client, bound, ghost>>
  BY FormatFacts
<1>2. Stored' /\ Ghosts'
  BY <1>1 DEF Base, Stored, Ghosts, ghost
<1>3. InPlace(a)' /\ Holding(a)' /\ InHand(a)'
  <2>1. InPlace(a) /\ Holding(a) /\ InHand(a) /\ act'[a].at \in {"format", "insert"}
    BY <1>1 DEF Base
  <2> QED
    BY <1>1, <2>1 DEF InPlace, Holding, InHand, Keeps, Idle
<1>4. ASSUME NEW b \in Actors, b # a
      PROVE  InPlace(b)' /\ Holding(b)' /\ InHand(b)'
  <2>1. InPlace(b) /\ Holding(b) /\ InHand(b) /\ act'[b] = act[b] /\ act[b].at # "format"
    BY <1>1, <1>4, OneAdder DEF Base, Others, Adding
  <2> QED
    BY <1>1, <2>1 DEF InPlace, Holding, InHand
<1> QED
  BY <1>1, <1>2, <1>3, <1>4 DEF Base

\* The node goes into the map, and nothing else changes.
LEMMA InsertFacts ==
    ASSUME Base, NEW a \in Actors, Insert(a)
    PROVE  /\ act[a].at = "insert" /\ act[a].name \in Names /\ act[a].ip \in IPs
           /\ DOMAIN nodes' = DOMAIN nodes \cup {act[a].ip}
           /\ nodes' \in [DOMAIN nodes' -> Node]
           /\ nodes'[act[a].ip] = [name |-> act[a].name, image |-> act[a].image]
           /\ \A ip \in DOMAIN nodes : ip # act[a].ip => nodes'[ip] = nodes[ip]
           /\ act' \in [Actors -> Act] /\ Others(a) /\ Keeps(a)
           /\ act'[a].at = IF a = Loader THEN "next" ELSE "mkdir"
           /\ UNCHANGED <<state, nodesMu, disk, client, bound, ghost>>
<1>1. /\ act[a].at = "insert" /\ nodes' = WithNode(a) /\ Goto(a, IF a = Loader THEN "next" ELSE "mkdir")
      /\ UNCHANGED <<state, nodesMu, disk, client, bound, ghost>>
  BY DEF Insert
<1>2. act[a].name \in Names /\ act[a].ip \in IPs /\ act[a].image \in 1 .. MaxImages
  <2>1. InPlace(a) /\ InHand(a) /\ DOMAIN image \subseteq Nat \ {0}
    BY DEF Base, Stored
  <2> QED
    BY <1>1, <2>1, EngineAssumption DEF InPlace, InHand, Idle
<1>3. [name |-> act[a].name, image |-> act[a].image] \in Node
  BY <1>2 DEF Node
<1>4. /\ DOMAIN nodes' = DOMAIN nodes \cup {act[a].ip}
      /\ nodes'[act[a].ip] = [name |-> act[a].name, image |-> act[a].image]
      /\ \A ip \in DOMAIN nodes : ip # act[a].ip => nodes'[ip] = nodes[ip]
      /\ nodes' = [ip \in DOMAIN nodes' |-> nodes'[ip]]
  BY <1>1 DEF WithNode
<1>5. \A ip \in DOMAIN nodes : nodes[ip] \in Node
  BY DEF Base, Stored
<1>6. nodes' \in [DOMAIN nodes' -> Node]
  BY <1>3, <1>4, <1>5
<1>7. act' \in [Actors -> Act] /\ act'[a].at = (IF a = Loader THEN "next" ELSE "mkdir") /\ Keeps(a) /\ Others(a)
  BY <1>1, GotoFacts DEF Base, Place
<1> QED
  BY <1>1, <1>2, <1>4, <1>6, <1>7

\* The node that enters the map works on an image that exists.
LEMMA InsertBase ==
    ASSUME Base, NEW a \in Actors, Insert(a)
    PROVE  Base'
<1>1. /\ act[a].at = "insert" /\ act[a].name \in Names /\ act[a].ip \in IPs
      /\ DOMAIN nodes' = DOMAIN nodes \cup {act[a].ip}
      /\ nodes' \in [DOMAIN nodes' -> Node]
      /\ nodes'[act[a].ip] = [name |-> act[a].name, image |-> act[a].image]
      /\ \A ip \in DOMAIN nodes : ip # act[a].ip => nodes'[ip] = nodes[ip]
      /\ act' \in [Actors -> Act] /\ Others(a) /\ Keeps(a)
      /\ act'[a].at = IF a = Loader THEN "next" ELSE "mkdir"
      /\ UNCHANGED <<state, nodesMu, disk, client, bound, ghost>>
  BY InsertFacts
<1>2. act[a].image \in DOMAIN image
  BY <1>1 DEF Base, InHand
<1>3. Stored' /\ Ghosts'
  BY <1>1, <1>2 DEF Base, Stored, Ghosts, ghost, disk
<1>4. InPlace(a)' /\ Holding(a)' /\ InHand(a)'
  <2>1. InPlace(a) /\ Holding(a) /\ None \notin Names /\ act'[a].at \in {"next", "mkdir"}
    BY <1>1, EngineAssumption DEF Base
  <2>2. Holding(a)' /\ InHand(a)'
    BY <1>1, <2>1 DEF Holding, InHand, Keeps
  <2>3. InPlace(a)'
    BY <1>1, <2>1, EngineAssumption DEF InPlace, Keeps, Idle
  <2> QED
    BY <2>2, <2>3
<1> QED
  BY <1>1, <1>3, <1>4, QuietBase DEF disk

\* A step that only moves a on, or lets it answer, changing nothing else but
\* network.json or the directory.
LEMMA MoveBase ==
    ASSUME Base, NEW a \in Actors, act' \in [Actors -> Act], Others(a),
           UNCHANGED <<state, nodesMu, image, ghost>>, Stored',
           act'[a].cmd = act[a].cmd, act[a].at # "lock", act'[a].at \notin {"format", "insert", "passwd"},
           InPlace(a)'
    PROVE  Base'
<1>1. Holding(a)'
  BY DEF Base, Holding
<1>2. InHand(a)' /\ Ghosts'
  BY DEF InHand, Base, Ghosts, ghost
<1> QED
  BY <1>1, <1>2, QuietBase

\* A goroutine that answers has nothing in hand; it may let go of the lock.
LEMMA ReplyBase ==
    ASSUME Base, NEW a \in Actors, Reply(a), Stored', Ghosts', UNCHANGED <<state, image>>,
           nodesMu' = nodesMu \/ nodesMu \in {None, a}
    PROVE  Base'
<1>1. act' \in [Actors -> Act] /\ act'[a] = Idle /\ Others(a)
  BY ReplyFacts DEF Base
<1>2. InPlace(a)' /\ Holding(a)' /\ InHand(a)'
  BY <1>1 DEF InPlace, Holding, InHand, Idle
<1> QED
  BY <1>1, <1>2, QuietBase

\* What the three steps of SaveNetwork do to their goroutine.
LEMMA SaveFacts ==
    ASSUME Base, NEW a \in Actors
    PROVE  /\ SaveCollect(a) => /\ act' \in [Actors -> Act] /\ Others(a)
                                /\ act'[a].at = "truncate" /\ act'[a].list = Config
                                /\ act'[a].cmd = act[a].cmd /\ act'[a].name = act[a].name
                                /\ act'[a].ip = act[a].ip /\ act'[a].image = act[a].image
           /\ SaveTruncate(a) => /\ act' \in [Actors -> Act] /\ Others(a) /\ Keeps(a)
                                 /\ act'[a].at = IF folder THEN "write" ELSE "done"
           /\ SaveWrite(a) => act' \in [Actors -> Act] /\ Others(a) /\ Keeps(a) /\ act'[a].at = "done"
           /\ act[a].at \in {"mkdir", "truncate", "write", "done"} =>
                 a \in Admins /\ act[a].cmd \in {"spawn", "delete"} /\ act[a].name \in Names
<1>0. act \in [Actors -> Act] /\ InPlace(a) /\ Stored
  BY DEF Base
<1>1. ASSUME SaveCollect(a)
      PROVE  /\ act' \in [Actors -> Act] /\ Others(a)
             /\ act'[a].at = "truncate" /\ act'[a].list = Config
             /\ act'[a].cmd = act[a].cmd /\ act'[a].name = act[a].name
             /\ act'[a].ip = act[a].ip /\ act'[a].image = act[a].image
  <2>1. Config \in SUBSET Entry
    BY <1>0 DEF Config, Stored, Node, Entry
  <2>2. act' = [act EXCEPT ![a].at = "truncate", ![a].list = Config] /\ "truncate" \in Place
    BY <1>1 DEF SaveCollect, Place
  <2> QED
    BY <1>0, <2>1, <2>2 DEF Act, Others
<1>2. ASSUME SaveTruncate(a)
      PROVE  /\ act' \in [Actors -> Act] /\ Others(a) /\ Keeps(a)
             /\ act'[a].at = IF folder THEN "write" ELSE "done"
  <2>1. Goto(a, IF folder THEN "write" ELSE "done")
    BY <1>2 DEF SaveTruncate
  <2> QED
    BY <1>0, <2>1, GotoFacts DEF Place
<1>3. ASSUME SaveWrite(a)
      PROVE  act' \in [Actors -> Act] /\ Others(a) /\ Keeps(a) /\ act'[a].at = "done"
  BY <1>0, <1>3, GotoFacts DEF SaveWrite, Place
<1>4. ASSUME act[a].at \in {"mkdir", "truncate", "write", "done"}
      PROVE  a \in Admins /\ act[a].cmd \in {"spawn", "delete"} /\ act[a].name \in Names
  BY <1>0, <1>4 DEF InPlace, Idle
<1> QED
  BY <1>1, <1>2, <1>3, <1>4

\* What is written to network.json is the list that was put together, or no
\* text that can be read.
LEMMA SaveWriteFacts ==
    ASSUME Base, NEW a \in Actors, SaveWrite(a)
    PROVE  /\ json' \in [state : {"absent", "empty", "whole", "garbled"}, list : SUBSET Entry]
           /\ json'.state # "whole" => json'.list = {}
           /\ json'.state = "absent" <=> json.state = "absent"
           /\ json'.list # {} => json'.list = act[a].list
           /\ json.state = "empty" => json'.list = act[a].list /\ json'.state = "whole"
<1> DEFINE mine == [state |-> "whole", list |-> act[a].list]
           bad == [state |-> "garbled", list |-> {}]
<1>1. /\ json.state = "absent" => json' = json
      /\ json.state = "empty" => json' = mine
      /\ json.state \notin {"absent", "empty"} => json' = mine \/ json' = bad
  <2>1. json' \in CASE json.state = "absent" -> {json}
                    [] json.state = "empty"  -> {mine}
                    [] OTHER -> {mine} \cup {bad : x \in {json} \ {mine}}
    BY DEF SaveWrite
  <2> HIDE DEF mine, bad
  <2> QED
    BY <2>1
<1>2. act[a].list \in SUBSET Entry
  BY DEF Base, Act
<1>3. json \in [state : {"absent", "empty", "whole", "garbled"}, list : SUBSET Entry]
        /\ (json.state # "whole" => json.list = {})
  BY DEF Base, Stored
<1> QED
  BY <1>1, <1>2, <1>3

\* SaveNetwork keeps network.json inside its directory.
LEMMA SaveBase ==
    ASSUME Base, NEW a \in Actors, SaveCollect(a) \/ SaveTruncate(a) \/ SaveWrite(a)
    PROVE  Base'
<1>0. Stored /\ InPlace(a) /\ act \in [Actors -> Act]
  BY DEF Base
<1>1. /\ UNCHANGED <<state, nodes, nodesMu, path, image, client, ghost>>
      /\ act' \in [Actors -> Act] /\ Others(a) /\ act'[a].cmd = act[a].cmd
      /\ act'[a].name = act[a].name /\ act'[a].ip = act[a].ip
      /\ act[a].at \in {"mkdir", "truncate", "write"} /\ act'[a].at \in {"truncate", "write", "done"}
  <2>1. /\ UNCHANGED <<state, nodes, nodesMu, path, image, client, ghost>>
        /\ act[a].at \in {"mkdir", "truncate", "write"}
    BY DEF SaveCollect, SaveTruncate, SaveWrite
  <2> QED
    BY <2>1, SaveFacts DEF Keeps
<1>2. Stored'
  <2>1. CASE SaveCollect(a)
    BY <1>0, <1>1, <2>1 DEF SaveCollect, Stored
  <2>2. CASE SaveTruncate(a)
    BY <1>0, <1>1, <2>2 DEF SaveTruncate, Stored
  <2>3. CASE SaveWrite(a)
    <3>1. UNCHANGED folder
      BY <2>3 DEF SaveWrite
    <3> QED
      BY <1>0, <1>1, <2>3, <3>1, SaveWriteFacts DEF Stored
  <2> QED
    BY <2>1, <2>2, <2>3
<1>3. InPlace(a)'
  BY <1>0, <1>1 DEF InPlace, Idle
<1> QED
  BY <1>1, <1>2, <1>3, MoveBase

\* Taking the lock, the check under it, and letting go.
LEMMA SpawnBase ==
    ASSUME Base, NEW a \in Actors, SpawnLock(a) \/ SpawnCheck(a) \/ SpawnDone(a)
    PROVE  Base'
<1>0. Stored /\ Ghosts /\ InPlace(a) /\ Holding(a) /\ act \in [Actors -> Act] /\ None \notin Names
  BY EngineAssumption DEF Base
<1>1. CASE SpawnLock(a)
  <2>1. /\ act[a].at = "lock" /\ nodesMu = None /\ nodesMu' = a /\ Goto(a, "check")
        /\ UNCHANGED <<state, nodes, disk, client, ghost>>
    BY <1>1 DEF SpawnLock
  <2>2. act' \in [Actors -> Act] /\ act'[a].at = "check" /\ Keeps(a) /\ Others(a)
    BY <1>0, <2>1, GotoFacts DEF Place
  <2>3. InPlace(a)' /\ Holding(a)' /\ InHand(a)' /\ a \in Admins
    BY <1>0, <2>1, <2>2 DEF InPlace, Holding, InHand, Keeps, Idle
  <2>4. Stored' /\ Ghosts'
    BY <1>0, <2>1, <2>3, StoredSame DEF Ghosts, ghost
  <2> QED
    BY <2>1, <2>2, <2>3, <2>4, QuietBase DEF disk
<1>2. CASE SpawnCheck(a)
  <2>1. act[a].at = "check" /\ UNCHANGED <<state, nodes, disk, client, promised, torn, half>>
    BY <1>2 DEF SpawnCheck
  <2>2. nodesMu = a
    BY <1>0, <2>1 DEF InPlace, Holding, Idle
  <2>3. CASE Refused(a)
    <3>1. Reply(a) /\ nodesMu' = None /\ UNCHANGED <<buried, raced>>
      BY <1>2, <2>3 DEF SpawnCheck
    <3>2. Stored' /\ Ghosts'
      BY <1>0, <2>1, <3>1, StoredSame DEF Ghosts
    <3> QED
      BY <2>1, <2>2, <3>1, <3>2, ReplyBase DEF disk
  <2>4. CASE ~Refused(a)
    <3>1. Goto(a, "open") /\ Enters(a) /\ buried' = buried \ {act[a].name} /\ UNCHANGED nodesMu
      BY <1>2, <2>4 DEF SpawnCheck
    <3>2. act' \in [Actors -> Act] /\ act'[a].at = "open" /\ Keeps(a) /\ Others(a)
      BY <1>0, <3>1, GotoFacts DEF Place
    <3>3. InPlace(a)' /\ Holding(a)' /\ InHand(a)'
      BY <1>0, <2>1, <2>2, <2>4, <3>1, <3>2 DEF InPlace, Holding, InHand, Keeps, Idle, Refused
    <3>4. Stored' /\ Ghosts'
      BY <1>0, <2>1, <3>1, StoredSame DEF Ghosts, Enters, Stored
    <3> QED
      BY <2>1, <3>1, <3>2, <3>3, <3>4, QuietBase DEF disk
  <2> QED
    BY <2>3, <2>4
<1>3. CASE SpawnDone(a)
  <2> DEFINE p == [name |-> act[a].name, ip |-> act[a].ip, image |-> act[a].image]
  <2>1. /\ act[a].at = "done" /\ act[a].cmd = "spawn" /\ nodesMu' = None /\ Reply(a)
        /\ promised' = promised \cup {p}
        /\ UNCHANGED <<state, nodes, disk, client, buried, raced, torn, half>>
    BY <1>3 DEF SpawnDone
  <2>2. nodesMu = a /\ act[a].name \in Names /\ act[a].ip \in IPs /\ act[a].image \in Nat
    BY <1>0, <2>1 DEF Holding, InPlace, Idle, Act
  <2>3. p \in [name : Names, ip : IPs, image : Nat]
    BY <2>2
  <2>4. Stored' /\ Ghosts'
    BY <1>0, <2>1, <2>3, StoredSame DEF Ghosts
  <2> QED
    BY <2>1, <2>2, <2>4, ReplyBase DEF disk
<1> QED
  BY <1>1, <1>2, <1>3

\* delete takes one address out of the map, and empties one directory.
LEMMA DeleteBase ==
    ASSUME Base, NEW a \in Actors, DeleteLookup(a) \/ DeleteDrop(a) \/ DeleteRemove(a) \/ DeleteDone(a)
    PROVE  Base'
<1>0. Stored /\ Ghosts /\ InPlace(a) /\ Holding(a) /\ act \in [Actors -> Act]
  BY DEF Base
<1>1. CASE DeleteLookup(a)
  <2>1. act[a].at = "lookup" /\ UNCHANGED <<state, nodes, nodesMu, disk, client, buried, torn, half>>
    BY <1>1 DEF DeleteLookup
  <2>2. Stored'
    BY <1>0, <2>1, StoredSame DEF Stored
  <2>3. CASE Reply(a) /\ UNCHANGED <<promised, raced>>
    <3>1. Ghosts'
      BY <1>0, <2>1, <2>3 DEF Ghosts
    <3> QED
      BY <2>1, <2>2, <2>3, <3>1, ReplyBase DEF disk
  <2>4. ASSUME NEW ip \in DOMAIN nodes, act' = [act EXCEPT ![a].at = "drop", ![a].ip = ip],
               promised' = {p \in promised : p.name # act[a].name}, Enters(a)
        PROVE  Base'
    <3>1. ip \in IPs /\ "drop" \in Place
      BY <1>0 DEF Stored, Place
    <3>2. /\ act' \in [Actors -> Act] /\ Others(a) /\ act'[a].at = "drop" /\ act'[a].ip = ip
          /\ act'[a].cmd = act[a].cmd /\ act'[a].name = act[a].name
      BY <1>0, <2>4, <3>1 DEF Act, Others
    <3>3. InPlace(a)' /\ Holding(a)' /\ InHand(a)'
      BY <1>0, <2>1, <3>1, <3>2 DEF InPlace, Holding, InHand, Idle
    <3>4. Ghosts'
      BY <1>0, <2>1, <2>4 DEF Ghosts, Enters
    <3> QED
      BY <2>1, <2>2, <3>2, <3>3, <3>4, QuietBase DEF disk
  <2> QED
    BY <1>1, <2>3, <2>4 DEF DeleteLookup
<1>2. CASE DeleteDrop(a)
  <2>1. /\ act[a].at = "drop" /\ nodes' = [ip \in DOMAIN nodes \ {act[a].ip} |-> nodes[ip]]
        /\ Goto(a, "remove") /\ UNCHANGED <<state, nodesMu, disk, client, ghost>>
    BY <1>2 DEF DeleteDrop, Restrict
  <2>2. act' \in [Actors -> Act] /\ act'[a].at = "remove" /\ Keeps(a) /\ Others(a)
    BY <1>0, <2>1, GotoFacts DEF Place
  <2>3. Stored'
    BY <1>0, <2>1 DEF Stored, disk
  <2>4. InPlace(a)'
    BY <1>0, <2>1, <2>2 DEF InPlace, Keeps, Idle
  <2> QED
    BY <2>1, <2>2, <2>3, <2>4, MoveBase DEF disk, Keeps
<1>3. CASE DeleteRemove(a)
  <2>1. /\ act[a].at = "remove" /\ path' = [path EXCEPT ![act[a].name] = 0]
        /\ Goto(a, "mkdir") /\ UNCHANGED <<state, nodes, nodesMu, json, folder, image, client, ghost>>
    BY <1>3 DEF DeleteRemove
  <2>2. act' \in [Actors -> Act] /\ act'[a].at = "mkdir" /\ Keeps(a) /\ Others(a)
    BY <1>0, <2>1, GotoFacts DEF Place
  <2>3. Stored'
    <3>1. Len(image) \in Nat /\ act[a].name \in Names
      BY <1>0, <2>1 DEF Stored, InPlace, Idle
    <3>2. path' \in [Names -> 0 .. Len(image)]
      BY <1>0, <2>1, <3>1 DEF Stored
    <3> QED
      BY <1>0, <2>1, <3>2 DEF Stored
  <2>4. InPlace(a)'
    BY <1>0, <2>1, <2>2 DEF InPlace, Keeps, Idle
  <2> QED
    BY <2>1, <2>2, <2>3, <2>4, MoveBase DEF Keeps
<1>4. CASE DeleteDone(a)
  <2>1. /\ act[a].at = "done" /\ act[a].cmd = "delete" /\ Reply(a) /\ buried' = buried \cup {act[a].name}
        /\ UNCHANGED <<state, nodes, nodesMu, disk, client, promised, raced, torn, half>>
    BY <1>4 DEF DeleteDone
  <2>2. act[a].name \in Names
    BY <2>1, SaveFacts
  <2>3. Stored' /\ Ghosts'
    BY <1>0, <2>1, <2>2, StoredSame DEF Ghosts, Stored
  <2> QED
    BY <2>1, <2>3, ReplyBase DEF disk
<1> QED
  BY <1>1, <1>2, <1>3, <1>4

\* reset-network wipes the directory and then the map.
LEMMA ResetBase ==
    ASSUME Base, NEW a \in Actors, ResetWipe(a) \/ ResetClear(a)
    PROVE  Base'
<1>0. Stored /\ Ghosts /\ InPlace(a) /\ Holding(a) /\ InHand(a) /\ act \in [Actors -> Act]
  BY DEF Base
<1>1. CASE ResetWipe(a)
  <2>1. act[a].at = "wipe" /\ UNCHANGED <<state, nodes, nodesMu, image, client, ghost>> /\ Len(image) \in Nat
    BY <1>0, <1>1 DEF ResetWipe, Stored
  <2>2. ASSUME NEW n \in Names, path' = [path EXCEPT ![n] = 0], UNCHANGED <<json, folder, act>>
        PROVE  Base'
    <3>1. path' \in [Names -> 0 .. Len(image)]
      BY <1>0, <2>1, <2>2 DEF Stored
    <3>2. Stored' /\ InPlace(a)' /\ Others(a)
      BY <1>0, <2>1, <2>2, <3>1 DEF Stored, InPlace, Others
    <3> QED
      BY <1>0, <2>1, <2>2, <3>2, MoveBase
  <2>3. CASE json' = [state |-> "absent", list |-> {}] /\ UNCHANGED <<path, folder, act>>
    <3>1. Stored' /\ InPlace(a)' /\ Others(a)
      BY <1>0, <2>1, <2>3 DEF Stored, InPlace, Others
    <3> QED
      BY <1>0, <2>1, <2>3, <3>1, MoveBase
  <2>4. CASE json.state = "absent" /\ folder' = FALSE /\ Goto(a, "clear") /\ UNCHANGED <<json, path>>
    <3>1. act' \in [Actors -> Act] /\ act'[a].at = "clear" /\ Keeps(a) /\ Others(a)
      BY <1>0, <2>4, GotoFacts DEF Place
    <3>2. Stored'
      BY <1>0, <2>1, <2>4 DEF Stored
    <3>3. InPlace(a)'
      BY <1>0, <2>1, <3>1 DEF InPlace, Keeps, Idle
    <3> QED
      BY <2>1, <3>1, <3>2, <3>3, MoveBase DEF Keeps
  <2> QED
    BY <1>1, <2>2, <2>3, <2>4 DEF ResetWipe
<1>2. CASE ResetClear(a)
  <2>1. /\ nodes' = NoNodes /\ Reply(a) /\ buried' = Names
        /\ UNCHANGED <<state, nodesMu, disk, client, promised, raced, torn, half>>
    BY <1>2 DEF ResetClear
  <2>2. DOMAIN NoNodes = {}
    BY DEF NoNodes
  <2>3. Stored' /\ Ghosts'
    BY <1>0, <2>1, <2>2 DEF Stored, Ghosts, disk, NoNodes
  <2> QED
    BY <2>1, <2>3, ReplyBase DEF disk
<1> QED
  BY <1>1, <1>2

\* What the write of adduser does to the images.
LEMMA AddUserWriteFacts ==
    ASSUME Base, NEW a \in Actors, AddUserWrite(a)
    PROVE  /\ image' \in Seq(Image) /\ DOMAIN image' = DOMAIN image /\ Len(image') = Len(image)
           /\ \A i \in DOMAIN image : /\ image'[i].step = image[i].step
                                      /\ image[i].users => image'[i].users
<1> DEFINE i == act[a].image
<1>1. act[a].at = "passwd" /\ \E ok \in CanAddUser(image[i]) : image' = [image EXCEPT ![i].users = @ \/ ok]
  BY DEF AddUserWrite
<1>2. PICK ok \in BOOLEAN : image' = [image EXCEPT ![i].users = @ \/ ok]
  BY <1>1 DEF CanAddUser
<1>3. i \in DOMAIN image /\ image \in Seq(Image) /\ image[i] \in Image
  BY <1>1 DEF Base, InHand, Stored
<1> DEFINE new == [image[i] EXCEPT !.users = image[i].users \/ ok]
<1>4. new \in Image /\ new.step = image[i].step /\ (image[i].users => new.users)
  BY <1>3 DEF Image
<1>5. image' = [image EXCEPT ![i] = new]
  BY <1>2
<1> HIDE DEF new
<1> QED
  BY <1>3, <1>4, <1>5

\* adduser finds a node by its name and writes to its disk.
LEMMA AddUserBase ==
    ASSUME Base, NEW a \in Actors, AddUserFind(a) \/ AddUserWrite(a)
    PROVE  Base'
<1>0. Stored /\ Ghosts /\ InPlace(a) /\ Holding(a) /\ InHand(a) /\ act \in [Actors -> Act]
  BY DEF Base
<1>1. CASE AddUserFind(a)
  <2>1. act[a].at = "find" /\ UNCHANGED <<state, nodes, nodesMu, disk, client, ghost>>
    BY <1>1 DEF AddUserFind
  <2>2. Stored' /\ Ghosts'
    BY <1>0, <2>1, StoredSame DEF Stored, Ghosts, ghost
  <2>3. CASE Reply(a)
    BY <2>1, <2>2, <2>3, ReplyBase DEF disk
  <2>4. ASSUME NEW ip \in DOMAIN nodes,
               act' = [act EXCEPT ![a].at = "passwd", ![a].image = nodes[ip].image]
        PROVE  Base'
    <3>1. nodes[ip].image \in DOMAIN image /\ nodes[ip].image \in Nat /\ "passwd" \in Place
      BY <1>0 DEF Stored, Node, Place
    <3>2. /\ act' \in [Actors -> Act] /\ Others(a) /\ act'[a].at = "passwd"
          /\ act'[a].image = nodes[ip].image /\ act'[a].cmd = act[a].cmd
      BY <1>0, <2>4, <3>1 DEF Act, Others
    <3>3. InPlace(a)' /\ Holding(a)' /\ InHand(a)'
      BY <1>0, <2>1, <3>1, <3>2 DEF InPlace, Holding, InHand, Idle, disk
    <3> QED
      BY <2>1, <2>2, <3>2, <3>3, QuietBase DEF disk
  <2> QED
    BY <1>1, <2>3, <2>4 DEF AddUserFind
<1>2. CASE AddUserWrite(a)
  <2>1. act[a].at = "passwd" /\ Reply(a) /\ UNCHANGED <<state, nodes, nodesMu, json, folder, path, client, ghost>>
    BY <1>2 DEF AddUserWrite
  <2>2. /\ image' \in Seq(Image) /\ DOMAIN image' = DOMAIN image /\ Len(image') = Len(image)
        /\ \A i \in DOMAIN image : image'[i].step = image[i].step
    BY <1>2, AddUserWriteFacts
  <2>3. act' \in [Actors -> Act] /\ act'[a] = Idle /\ Others(a)
    BY <1>0, <2>1, ReplyFacts
  <2>4. Stored' /\ Ghosts'
    BY <1>0, <2>1, <2>2 DEF Stored, Ghosts, ghost
  <2>5. InPlace(a)' /\ Holding(a)' /\ InHand(a)'
    BY <2>3 DEF InPlace, Holding, InHand, Idle
  <2>6. ASSUME NEW b \in Actors, b # a
        PROVE  InPlace(b)' /\ Holding(b)' /\ InHand(b)'
    <3>1. InPlace(b) /\ Holding(b) /\ InHand(b) /\ act'[b] = act[b]
      BY <2>3, <2>6 DEF Base, Others
    <3> QED
      BY <2>1, <2>2, <3>1 DEF InPlace, Holding, InHand, Complete
  <2> QED
    BY <2>3, <2>4, <2>5, <2>6 DEF Base
<1> QED
  BY <1>1, <1>2

\* list-nodes reads the map.
LEMMA ListBase ==
    ASSUME Base, NEW a \in Actors, ListRange(a) \/ ListCut(a)
    PROVE  Base'
<1>0. Stored /\ Ghosts /\ InPlace(a) /\ act \in [Actors -> Act]
  BY DEF Base
<1>1. UNCHANGED <<state, nodes, nodesMu, disk, client, ghost>>
  BY DEF ListRange, ListCut
<1>2. Stored' /\ Ghosts'
  BY <1>0, <1>1, StoredSame DEF Stored, Ghosts, ghost
<1>3. CASE ListCut(a)
  BY <1>1, <1>2, <1>3, ReplyBase DEF ListCut, disk
<1>4. CASE ListRange(a)
  <2>1. PICK text \in {Config, {}} : act[a].at = "range" /\ act' = [act EXCEPT ![a].at = "cut", ![a].list = text]
    BY <1>4 DEF ListRange
  <2>2. text \in SUBSET Entry /\ "cut" \in Place
    BY <1>0 DEF Config, Stored, Node, Entry, Place
  <2>3. act' \in [Actors -> Act] /\ Others(a) /\ act'[a].at = "cut" /\ act'[a].cmd = act[a].cmd
    BY <1>0, <2>1, <2>2 DEF Act, Others
  <2>4. InPlace(a)'
    BY <1>0, <1>1, <2>1, <2>3 DEF InPlace, Idle
  <2> QED
    BY <1>1, <1>2, <2>1, <2>3, <2>4, MoveBase DEF disk
<1> QED
  BY <1>3, <1>4

\* Clients look at the map only.
LEMMA ClientBase ==
    ASSUME Base, NEW c \in Clients, ClientList(c) \/ ClientPick(c)
    PROVE  Base'
<1>1. UNCHANGED <<state, nodes, nodesMu, disk, act, ghost>>
  BY DEF ClientList, ClientPick
<1>2. client' \in [Clients -> {"new", "list", "node", "gone"}]
  BY DEF ClientList, ClientPick, Base, Stored
<1>3. Stored' /\ Ghosts'
  BY <1>1, <1>2 DEF Base, Stored, Ghosts, ghost, disk
<1> QED
  BY <1>1, <1>3 DEF Base, InPlace, Holding, InHand, disk

\* What LoadNetwork starts with.
LEMMA RestartFacts ==
    ASSUME Base, Restart
    PROVE  /\ act' \in [Actors -> Act] /\ Others(Loader) /\ act'[Loader].at = "next"
           /\ act'[Loader].cmd = "load" /\ act'[Loader].list = json.list
           /\ Loader \in Actors /\ state = "down" /\ state' = "loading"
           /\ UNCHANGED <<nodes, nodesMu, disk, client, bound, ghost>>
<1> DEFINE r == [Idle EXCEPT !.cmd = "load", !.at = "next", !.list = json.list]
<1>1. json.list \in SUBSET Entry /\ act \in [Actors -> Act] /\ Loader \in Actors
  BY DEF Base, Stored, Actors
<1>2. r \in Act
  BY <1>1 DEF Idle, Act, Place
<1>3. r.at = "next" /\ r.cmd = "load" /\ r.list = json.list
  BY DEF Idle
<1>4. act' = [act EXCEPT ![Loader] = r]
  BY DEF Restart
<1> HIDE DEF r
<1> QED
  BY <1>1, <1>2, <1>3, <1>4 DEF Restart, Others

\* LoadNetwork starts with everyone idle.
LEMMA RestartBase ==
    ASSUME Base, Restart
    PROVE  Base'
<1>1. /\ act' \in [Actors -> Act] /\ Others(Loader) /\ act'[Loader].at = "next"
      /\ act'[Loader].cmd = "load" /\ act'[Loader].list = json.list
      /\ Loader \in Actors /\ state = "down" /\ state' = "loading"
      /\ UNCHANGED <<nodes, nodesMu, disk, client, bound, ghost>>
  BY RestartFacts
<1>2. Stored' /\ Ghosts'
  BY <1>1 DEF Base, Stored, Ghosts, ghost, disk
<1>3. ASSUME NEW b \in Actors
      PROVE  InPlace(b)' /\ Holding(b)' /\ InHand(b)'
  <2>1. CASE b = Loader
    BY <1>1, <2>1 DEF InPlace, Holding, InHand
  <2>2. CASE b # Loader
    <3>1. act'[b] = act[b] /\ act[b] = Idle
      BY <1>1, <2>2 DEF Base, InPlace, Others
    <3> QED
      BY <3>1 DEF InPlace, Holding, InHand, Idle
  <2> QED
    BY <2>1, <2>2
<1> QED
  BY <1>1, <1>2, <1>3 DEF Base

\* LoadNetwork takes the next entry, or is done.
LEMMA LoadNextFacts ==
    ASSUME Base, LoadNext
    PROVE  /\ Loader \in Actors /\ act' \in [Actors -> Act] /\ Others(Loader)
           /\ act[Loader].at = "next" /\ act[Loader].cmd = "load" /\ state = "loading"
           /\ UNCHANGED <<nodes, nodesMu, disk, client, bound, ghost>>
           /\ \/ \E e \in act[Loader].list :
                    /\ e \in Entry /\ state' = state
                    /\ act'[Loader].at = "open" /\ act'[Loader].cmd = "load"
                    /\ act'[Loader].name = e.name /\ act'[Loader].ip = e.ip
                    /\ act'[Loader].list = act[Loader].list \ {e}
              \/ act[Loader].list = {} /\ act'[Loader] = Idle /\ state' = "up"
<1>1. Loader \in Actors /\ act \in [Actors -> Act] /\ act[Loader].at = "next" /\ InPlace(Loader)
  BY DEF Base, Actors, LoadNext
<1>2. act[Loader].cmd = "load" /\ state = "loading"
  BY <1>1 DEF InPlace, Idle
<1>3. CASE act[Loader].list = {} /\ Reply(Loader) /\ state' = "up"
  BY <1>1, <1>2, <1>3, ReplyFacts DEF LoadNext
<1>4. ASSUME NEW e \in act[Loader].list, UNCHANGED state,
             act' = [act EXCEPT ![Loader].at = "open", ![Loader].name = e.name, ![Loader].ip = e.ip,
                                ![Loader].list = act[Loader].list \ {e}]
      PROVE  /\ e \in Entry /\ state' = state /\ act' \in [Actors -> Act] /\ Others(Loader)
             /\ act'[Loader].at = "open" /\ act'[Loader].cmd = "load"
             /\ act'[Loader].name = e.name /\ act'[Loader].ip = e.ip
             /\ act'[Loader].list = act[Loader].list \ {e}
  <2> DEFINE rest == act[Loader].list \ {e}
             r == [act[Loader] EXCEPT !.at = "open", !.name = e.name, !.ip = e.ip, !.list = rest]
  <2>1. act[Loader] \in Act
    BY <1>1
  <2>2. e \in Entry /\ rest \in SUBSET Entry /\ e.name \in Names /\ e.ip \in IPs
    BY <2>1 DEF Act, Entry
  <2>3. act' = [act EXCEPT ![Loader] = r] /\ state' = state
    BY <1>4
  <2> HIDE DEF rest
  <2>4. r \in Act
    BY <2>1, <2>2 DEF Act, Place
  <2>5. r.at = "open" /\ r.cmd = act[Loader].cmd /\ r.name = e.name /\ r.ip = e.ip /\ r.list = rest
    BY <2>1 DEF Act
  <2> HIDE DEF r
  <2> QED
    BY <1>1, <1>2, <2>2, <2>3, <2>4, <2>5 DEF rest, Others
<1> QED
  BY <1>1, <1>2, <1>3, <1>4 DEF LoadNext

\* LoadNetwork opens the next disk, or hands over to the connections.
LEMMA LoadNextBase ==
    ASSUME Base, LoadNext
    PROVE  Base'
<1>1. /\ Loader \in Actors /\ act' \in [Actors -> Act] /\ Others(Loader)
      /\ act[Loader].at = "next" /\ act[Loader].cmd = "load" /\ state = "loading"
      /\ UNCHANGED <<nodes, nodesMu, disk, client, bound, ghost>>
      /\ \/ /\ act'[Loader].at = "open" /\ act'[Loader].cmd = "load" /\ state' = state
            /\ act'[Loader].name \in Names /\ act'[Loader].ip \in IPs
         \/ act'[Loader] = Idle /\ state' = "up"
  BY LoadNextFacts DEF Entry
<1>2. Stored' /\ Ghosts'
  BY <1>1 DEF Base, Stored, Ghosts, ghost, disk
<1>3. ASSUME NEW b \in Actors
      PROVE  InPlace(b)' /\ Holding(b)' /\ InHand(b)'
  <2>1. CASE b = Loader
    BY <1>1, <2>1 DEF InPlace, Holding, InHand, Idle
  <2>2. CASE b # Loader
    <3>1. act'[b] = act[b] /\ act[b] = Idle
      BY <1>1, <2>2 DEF Base, InPlace, Others
    <3> QED
      BY <3>1 DEF InPlace, Holding, InHand, Idle
  <2> QED
    BY <2>1, <2>2
<1> QED
  BY <1>1, <1>2, <1>3 DEF Base

\* Nothing is there yet, or a network of an earlier version.
LEMMA InitBase == Init => Base
<1> SUFFICES ASSUME Init PROVE Base
  OBVIOUS
<1>1. /\ state = "down" /\ nodes = NoNodes /\ nodesMu = None /\ act = [a \in Actors |-> Idle]
      /\ client = [c \in Clients |-> "new"] /\ promised = {} /\ buried = {} /\ half = {}
      /\ raced = FALSE /\ torn = FALSE
  BY DEF Init
<1>2. Idle \in Act /\ DOMAIN NoNodes = {} /\ nodes \in [{} -> Node]
  BY <1>1 DEF Idle, Act, Place, NoNodes
<1> DEFINE Disk == /\ json \in [state : {"absent", "empty", "whole", "garbled"}, list : SUBSET Entry]
                   /\ folder \in BOOLEAN
                   /\ json.state # "whole" => json.list = {}
                   /\ json.state # "absent" => folder
                   /\ image \in Seq(Image) /\ path \in [Names -> 0 .. Len(image)]
<1>3. Disk
  <2>1. CASE json = [state |-> "absent", list |-> {}] /\ folder = FALSE
               /\ path = [n \in Names |-> 0] /\ image = <<>>
    <3>1. image \in Seq(Image) /\ Len(image) = 0
      BY <2>1
    <3>2. path \in [Names -> 0 .. Len(image)]
      BY <2>1, <3>1
    <3>3. json.state = "absent" /\ json.list = {}
      BY <2>1
    <3> QED
      BY <2>1, <3>1, <3>2, <3>3
  <2>2. ASSUME NEW e \in Entry, json = [state |-> "whole", list |-> {e}], folder = TRUE,
               path = [n \in Names |-> IF n = e.name THEN 1 ELSE 0], image = <<Outdated>>
        PROVE  Disk
    <3>1. Outdated \in Image
      BY DEF Outdated, Image, Steps
    <3>2. image \in Seq(Image) /\ Len(image) = 1
      BY <2>2, <3>1
    <3> QED
      BY <2>2, <3>2
  <2>3. (CHOOSE e \in Entry : TRUE) \in Entry
    <3>1. \E e \in Entry : TRUE
      <4>1. PICK n \in Names, ip \in IPs : TRUE
        BY EngineAssumption
      <4>2. [name |-> n, ip |-> ip] \in Entry
        BY DEF Entry
      <4> QED
        BY <4>2
    <3> QED
      BY <3>1
  <2> QED
    BY <2>1, <2>2, <2>3 DEF Init
<1>4. Stored /\ Ghosts
  BY <1>1, <1>2, <1>3 DEF Stored, Ghosts
<1>5. \A a \in Actors : InPlace(a) /\ Holding(a) /\ InHand(a)
  BY <1>1 DEF InPlace, Holding, InHand, Idle
<1> QED
  BY <1>1, <1>2, <1>4, <1>5 DEF Base

\* Every step keeps Base.
LEMMA NextBase == Base /\ [Next]_vars => Base'
<1> SUFFICES ASSUME Base, [Next]_vars PROVE Base'
  OBVIOUS
<1>1. CASE UNCHANGED vars
  BY <1>1 DEF vars, disk, bound, ghost, Base, Stored, Ghosts, InPlace, Holding, InHand
<1>2. ASSUME NEW a \in Actors, Step(a) PROVE Base'
  BY <1>2, OpenBase, FormatBase, InsertBase, SaveBase, SpawnBase, DeleteBase, ResetBase, AddUserBase,
     ListBase DEF Step
<1>3. ASSUME NEW a \in Admins, Command(a) \/ Panic(a) PROVE Base'
  BY <1>3, CommandBase, StopBase DEF Panic
<1>4. ASSUME NEW c \in Clients, ClientList(c) \/ ClientPick(c) PROVE Base'
  BY <1>4, ClientBase
<1>5. CASE Die \/ Restart \/ LoadNext
  BY <1>5, StopBase, RestartBase, LoadNextBase DEF Die
<1> QED
  BY <1>1, <1>2, <1>3, <1>4, <1>5 DEF Next

\* Base holds throughout.
LEMMA BaseInvariance == Spec => []Base
<1> QED
  BY InitBase, NextBase, PTL DEF Spec

\* Map, files and goroutines are well formed, however commands interleave and
\* whenever the engine dies (handle_admin.go, persistance.go).
THEOREM TypeCorrect == Spec => []TypeOK
<1>1. Base => TypeOK
  <2> SUFFICES ASSUME Base PROVE TypeOK
    OBVIOUS
  <2>1. \A i \in DOMAIN image : image[i] \in Image
    BY DEF Base, Stored
  <2>2. \A a \in Actors : act[a].at \in {"format", "insert", "passwd"} => act[a].image \in DOMAIN image
    BY DEF Base, InHand
  <2> QED
    BY <2>1, <2>2 DEF Base, Stored, TypeOK
<1> QED
  BY <1>1, BaseInvariance, PTL

-----------------------------------------------------------------------------
(* Disks are formatted once. *)

\* Only opening, formatting and adduser change the images.
LEMMA ImageSteps ==
    ASSUME Base, [Next]_vars
    PROVE  \/ UNCHANGED image
           \/ \E a \in Actors : Open(a) \/ Format(a) \/ AddUserWrite(a)
<1>1. CASE UNCHANGED vars
  BY <1>1 DEF vars, disk
<1>2. ASSUME NEW a \in Actors, Step(a)
      PROVE  UNCHANGED image \/ Open(a) \/ Format(a) \/ AddUserWrite(a)
  BY <1>2 DEF Step, Insert, SaveCollect, SaveTruncate, SaveWrite, SpawnLock, SpawnCheck, SpawnDone,
     DeleteLookup, DeleteDrop, DeleteRemove, DeleteDone, ResetWipe, ResetClear, AddUserFind, ListRange,
     ListCut, disk
<1>3. ASSUME NEW a \in Admins, Command(a) \/ Panic(a)
      PROVE  UNCHANGED image
  BY <1>3 DEF Command, Spawn, Delete, AddUser, Reset, List, BlankLine, Begin, Panic, Stop, disk
<1>4. ASSUME (\E c \in Clients : ClientList(c) \/ ClientPick(c)) \/ Die \/ Restart \/ LoadNext
      PROVE  UNCHANGED image
  BY <1>4 DEF ClientList, ClientPick, Die, Stop, Restart, LoadNext, disk
<1> QED
  BY <1>1, <1>2, <1>3, <1>4 DEF Next

\* No boot formats a complete disk again, and no step takes its users away,
\* however spawns, deletions and deaths interleave (fs.go:176-186).
THEOREM NothingReformatted == Spec => NeverReformatted
<1> DEFINE Kept == \A i \in DOMAIN image : Complete(image[i]) =>
                       Complete(image'[i]) /\ (image[i].users => image'[i].users)
<1>1. Base /\ [Next]_vars => [Kept]_vars
  <2> SUFFICES ASSUME Base, [Next]_vars PROVE Kept
    OBVIOUS
  <2>1. CASE UNCHANGED image
    BY <2>1
  <2>2. ASSUME NEW a \in Actors, Open(a) PROVE Kept
    <3>1. PICK i \in 1 .. MaxImages : Opens(a, i)
      BY <2>2, OpenFacts
    <3> QED
      BY <3>1 DEF Opens
  <2>3. ASSUME NEW a \in Actors, Format(a) PROVE Kept
    BY <2>3, FormatFacts
  <2>4. ASSUME NEW a \in Actors, AddUserWrite(a) PROVE Kept
    BY <2>4, AddUserWriteFacts DEF Complete
  <2> QED
    BY <2>1, <2>2, <2>3, <2>4, ImageSteps
<1> QED
  BY <1>1, BaseInvariance, PTL DEF Spec, NeverReformatted

-----------------------------------------------------------------------------
(* NamesApart is kept. *)

\* The map has lost nodes at most.
Fewer == DOMAIN nodes' \subseteq DOMAIN nodes /\ \A ip \in DOMAIN nodes' : nodes'[ip] = nodes[ip]

\* A map without doubles makes a list without doubles.
LEMMA ConfigDistinct == NamesApart => Distinct(Config)
BY DEF NamesApart, Distinct, Config

\* A step that adds no node keeps names apart, when the lists it reads or writes
\* are without doubles, and a spawn that passes its check has a free name.
LEMMA QuietNames ==
    ASSUME Base, NamesApart, NEW a \in Actors, Others(a), state # "down", state' # "down", Fewer,
           Distinct(json'.list), Distinct(act'[a].list),
           a = Loader => act'[a].list = act[a].list \/ act'[a].list = {},
           Adding(a)' => \/ Adding(a) /\ act'[a].name = act[a].name /\ act'[a].ip = act[a].ip
                         \/ a # Loader /\ ~Taken(act'[a].name, act'[a].ip)
    PROVE  NamesApart'
<1>1. ASSUME NEW n, NEW ip, ~Taken(n, ip) PROVE ~Taken(n, ip)'
  BY <1>1 DEF Taken, Fewer
<1>2. \A i, j \in DOMAIN nodes' : nodes'[i].name = nodes'[j].name => i = j
  BY DEF NamesApart, Fewer
<1>3. \A b \in Actors : Distinct(act'[b].list)
  BY DEF NamesApart, Others
<1>4. ASSUME NEW b \in Actors, Adding(b)'
      PROVE  ~Taken(act'[b].name, act'[b].ip)
  BY <1>4 DEF NamesApart, Others, Adding
<1>5. \A b \in Actors : Adding(b)' => ~Taken(act[b].name, act[b].ip)'
  BY <1>1, <1>4
<1>6. ASSUME NEW e \in act'[Loader].list
      PROVE  ~Taken(e.name, e.ip)' /\ (Adding(Loader)' => e.name # act'[Loader].name /\ e.ip # act'[Loader].ip)
  <2>1. Loader \in Actors
    BY DEF Actors
  <2>2. CASE a # Loader
    BY <1>1, <1>6, <2>1, <2>2 DEF NamesApart, Others, Adding
  <2>3. CASE a = Loader
    BY <1>1, <1>6, <2>1, <2>3 DEF NamesApart, Adding
  <2> QED
    BY <2>2, <2>3
<1> QED
  BY <1>2, <1>3, <1>5, <1>6 DEF NamesApart

\* A step of a goroutine moves that goroutine only, while the engine runs.
LEMMA StepOthers ==
    ASSUME Base, NEW a \in Actors, Step(a)
    PROVE  /\ Others(a) /\ UNCHANGED <<state, client, bound>>
           /\ act[a].at \notin {"idle", "blank", "next"}
           /\ \/ a \in Admins /\ state = "up" /\ a # Loader
              \/ a = Loader /\ state = "loading" /\ Adding(a)
<1>0. act \in [Actors -> Act] /\ InPlace(a) /\ Loader \notin Admins
  BY EngineAssumption DEF Base
<1>1. UNCHANGED <<state, client, bound>> /\ act[a].at \notin {"idle", "blank", "next"}
  BY DEF Step, Open, Format, Insert, SaveCollect, SaveTruncate, SaveWrite, SpawnLock, SpawnCheck, SpawnDone,
     DeleteLookup, DeleteDrop, DeleteRemove, DeleteDone, ResetWipe, ResetClear, AddUserFind, AddUserWrite,
     ListRange, ListCut
<1>2. \/ a \in Admins /\ state = "up" /\ a # Loader
      \/ a = Loader /\ state = "loading" /\ Adding(a)
  BY <1>0, <1>1 DEF InPlace, Idle, Adding
<1>3. Others(a)
  <2>1. CASE Open(a) \/ Format(a) \/ Insert(a) \/ SaveCollect(a) \/ SaveTruncate(a) \/ SaveWrite(a)
    BY <1>0, <2>1 DEF Open, Format, Insert, SaveCollect, SaveTruncate, SaveWrite, Goto, Others
  <2>2. CASE SpawnLock(a) \/ SpawnCheck(a) \/ SpawnDone(a)
    BY <1>0, <2>2 DEF SpawnLock, SpawnCheck, SpawnDone, Goto, Reply, Others
  <2>3. CASE DeleteLookup(a) \/ DeleteDrop(a) \/ DeleteRemove(a) \/ DeleteDone(a)
    BY <1>0, <2>3 DEF DeleteLookup, DeleteDrop, DeleteRemove, DeleteDone, Goto, Reply, Others
  <2>4. CASE ResetWipe(a) \/ ResetClear(a) \/ AddUserFind(a) \/ AddUserWrite(a)
    BY <1>0, <2>4 DEF ResetWipe, ResetClear, AddUserFind, AddUserWrite, Goto, Reply, Others
  <2>5. CASE ListRange(a) \/ ListCut(a)
    BY <1>0, <2>5 DEF ListRange, ListCut, Reply, Others
  <2> QED
    BY <2>1, <2>2, <2>3, <2>4, <2>5 DEF Step
<1> QED
  BY <1>1, <1>2, <1>3

\* The rest of what a goroutine's steps do to it.
LEMMA StepPlaces ==
    ASSUME Base, NEW a \in Actors
    PROVE  /\ SpawnLock(a) => act[a].at = "lock" /\ act'[a].at = "check" /\ Keeps(a)
           /\ SpawnCheck(a) => \/ Refused(a) /\ act'[a] = Idle
                               \/ ~Refused(a) /\ act'[a].at = "open" /\ Keeps(a)
           /\ SpawnDone(a) \/ DeleteDone(a) \/ ResetClear(a) \/ ListCut(a) \/ AddUserWrite(a) => act'[a] = Idle
           /\ DeleteLookup(a) => \/ act'[a] = Idle /\ UNCHANGED <<promised, raced>>
                                 \/ /\ act'[a].at = "drop" /\ act'[a].ip \in DOMAIN nodes
                                    /\ nodes[act'[a].ip].name = act[a].name
                                    /\ act'[a].cmd = act[a].cmd /\ act'[a].name = act[a].name
                                    /\ act'[a].list = act[a].list
                                    /\ promised' = {p \in promised : p.name # act[a].name} /\ Enters(a)
           /\ DeleteDrop(a) => act'[a].at = "remove" /\ Keeps(a)
           /\ DeleteRemove(a) => act'[a].at = "mkdir" /\ Keeps(a)
           /\ ResetWipe(a) => \/ act' = act
                              \/ act'[a].at = "clear" /\ Keeps(a)
           /\ AddUserFind(a) => \/ act'[a] = Idle
                                \/ act'[a].at = "passwd" /\ act'[a].cmd = act[a].cmd /\ act'[a].list = act[a].list
           /\ ListRange(a) => act'[a].at = "cut" /\ act'[a].cmd = act[a].cmd /\ act'[a].list \in {Config, {}}
<1>0. act \in [Actors -> Act] /\ act[a] \in Act
  BY DEF Base
<1>1. ASSUME SpawnLock(a) PROVE act[a].at = "lock" /\ act'[a].at = "check" /\ Keeps(a)
  BY <1>0, <1>1, GotoFacts DEF SpawnLock, Place
<1>2. ASSUME SpawnCheck(a)
      PROVE  \/ Refused(a) /\ act'[a] = Idle
             \/ ~Refused(a) /\ act'[a].at = "open" /\ Keeps(a)
  BY <1>0, <1>2, GotoFacts, ReplyFacts DEF SpawnCheck, Place
<1>3. ASSUME SpawnDone(a) \/ DeleteDone(a) \/ ResetClear(a) \/ ListCut(a) \/ AddUserWrite(a)
      PROVE  act'[a] = Idle
  BY <1>0, <1>3, ReplyFacts DEF SpawnDone, DeleteDone, ResetClear, ListCut, AddUserWrite
<1>4. ASSUME DeleteLookup(a)
      PROVE  \/ act'[a] = Idle /\ UNCHANGED <<promised, raced>>
             \/ /\ act'[a].at = "drop" /\ act'[a].ip \in DOMAIN nodes
                /\ nodes[act'[a].ip].name = act[a].name
                /\ act'[a].cmd = act[a].cmd /\ act'[a].name = act[a].name
                /\ act'[a].list = act[a].list
                /\ promised' = {p \in promised : p.name # act[a].name} /\ Enters(a)
  <2>1. CASE Reply(a) /\ UNCHANGED <<promised, raced>>
    BY <1>0, <2>1, ReplyFacts
  <2>2. ASSUME NEW ip \in DOMAIN nodes, nodes[ip].name = act[a].name,
               act' = [act EXCEPT ![a].at = "drop", ![a].ip = ip],
               promised' = {p \in promised : p.name # act[a].name}, Enters(a)
        PROVE  /\ act'[a].at = "drop" /\ act'[a].ip \in DOMAIN nodes
               /\ nodes[act'[a].ip].name = act[a].name
               /\ act'[a].cmd = act[a].cmd /\ act'[a].name = act[a].name
               /\ act'[a].list = act[a].list
               /\ promised' = {p \in promised : p.name # act[a].name} /\ Enters(a)
    <3>1. /\ act'[a].at = "drop" /\ act'[a].ip = ip /\ act'[a].cmd = act[a].cmd
          /\ act'[a].name = act[a].name /\ act'[a].list = act[a].list
      BY <1>0, <2>2 DEF Act
    <3> QED
      BY <2>2, <3>1
  <2> QED
    BY <1>4, <2>1, <2>2 DEF DeleteLookup
<1>5. ASSUME DeleteDrop(a) PROVE act'[a].at = "remove" /\ Keeps(a)
  BY <1>0, <1>5, GotoFacts DEF DeleteDrop, Place
<1>6. ASSUME DeleteRemove(a) PROVE act'[a].at = "mkdir" /\ Keeps(a)
  BY <1>0, <1>6, GotoFacts DEF DeleteRemove, Place
<1>7. ASSUME ResetWipe(a) PROVE act' = act \/ (act'[a].at = "clear" /\ Keeps(a))
  BY <1>0, <1>7, GotoFacts DEF ResetWipe, Place
<1>8. ASSUME AddUserFind(a)
      PROVE  \/ act'[a] = Idle
             \/ act'[a].at = "passwd" /\ act'[a].cmd = act[a].cmd /\ act'[a].list = act[a].list
  <2>1. CASE Reply(a)
    BY <1>0, <2>1, ReplyFacts
  <2>2. ASSUME NEW ip \in DOMAIN nodes, act' = [act EXCEPT ![a].at = "passwd", ![a].image = nodes[ip].image]
        PROVE  act'[a].at = "passwd" /\ act'[a].cmd = act[a].cmd /\ act'[a].list = act[a].list
    BY <1>0, <2>2 DEF Act
  <2> QED
    BY <1>8, <2>1, <2>2 DEF AddUserFind
<1>9. ASSUME ListRange(a) PROVE act'[a].at = "cut" /\ act'[a].cmd = act[a].cmd /\ act'[a].list \in {Config, {}}
  <2>1. PICK text \in {Config, {}} : act' = [act EXCEPT ![a].at = "cut", ![a].list = text]
    BY <1>9 DEF ListRange
  <2>2. act'[a].at = "cut" /\ act'[a].list = text /\ act'[a].cmd = act[a].cmd
    BY <1>0, <2>1 DEF Act
  <2> QED
    BY <2>2
<1> QED
  BY <1>1, <1>2, <1>3, <1>4, <1>5, <1>6, <1>7, <1>8, <1>9

\* What a new command changes.
LEMMA CommandFacts ==
    ASSUME Base, NEW a \in Admins, Command(a)
    PROVE  /\ a \in Actors /\ a # Loader /\ Others(a) /\ state = "up" /\ act[a].at = "idle"
           /\ act'[a].list = {}
           /\ UNCHANGED <<state, nodes, nodesMu, disk, client, torn, half, buried>>
           /\ \/ /\ act'[a].at \in {"lock", "lookup", "find", "range", "blank"}
                 /\ act'[a].cmd \in {"spawn", "delete", "adduser", "list", "blank"}
                 /\ act'[a].cmd = "delete" => act'[a].at = "lookup"
                 /\ act'[a].cmd = "spawn" => act'[a].at = "lock"
                 /\ UNCHANGED ghost
              \/ act'[a].at = "wipe" /\ act'[a].cmd = "reset" /\ promised' = {} /\ Enters(a)
<1>0. act \in [Actors -> Act] /\ a \in Actors /\ a # Loader
  BY EngineAssumption DEF Base, Actors
<1> DEFINE Begun(cmd, place) == /\ Others(a) /\ state = "up" /\ act[a].at = "idle"
                                /\ act'[a].list = {} /\ act'[a].at = place /\ act'[a].cmd = cmd
                                /\ UNCHANGED <<state, nodes, nodesMu, disk, client>>
<1>1. ASSUME NEW cmd \in {"spawn", "delete", "reset", "adduser", "list", "blank"},
             NEW n \in Names \cup {None}, NEW ip \in IPs \cup {None}, NEW place \in Place,
             Begin(a, cmd, n, ip, place)
      PROVE  Begun(cmd, place)
  <2>1. /\ act' \in [Actors -> Act] /\ Others(a)
        /\ act'[a].at = place /\ act'[a].cmd = cmd /\ act'[a].name = n /\ act'[a].ip = ip
        /\ act'[a].list = {} /\ state = "up" /\ act[a].at = "idle" /\ a \in Actors
        /\ UNCHANGED <<state, nodes, nodesMu, disk, client, deaths>>
    BY <1>0, <1>1, BeginFacts
  <2> QED
    BY <2>1
<1> HIDE DEF Begun
<1>2. ASSUME NEW n \in Names \cup {None}, NEW ip \in IPs \cup {None}, Spawn(a, n, ip)
      PROVE  Begun("spawn", "lock") /\ UNCHANGED ghost
  BY <1>1, <1>2 DEF Spawn, Place
<1>3. CASE (\E n \in Names, ip \in IPs : Spawn(a, n, ip)) \/ Spawn(a, None, None)
  <2>1. Begun("spawn", "lock") /\ UNCHANGED ghost
    BY <1>2, <1>3
  <2> QED
    BY <1>0, <2>1 DEF Begun, ghost
<1>4. ASSUME NEW n \in Names, Delete(a, n) \/ AddUser(a, n)
      PROVE  (Begun("delete", "lookup") \/ Begun("adduser", "find")) /\ UNCHANGED ghost
  BY <1>1, <1>4 DEF Delete, AddUser, Place
<1>5. CASE \E n \in Names : Delete(a, n) \/ AddUser(a, n)
  BY <1>0, <1>4, <1>5 DEF Begun, ghost
<1>6. CASE Reset(a)
  <2>1. Begin(a, "reset", None, None, "wipe") /\ promised' = {} /\ Enters(a) /\ UNCHANGED <<buried, torn, half>>
    BY <1>6 DEF Reset
  <2>2. Begun("reset", "wipe")
    BY <1>1, <2>1 DEF Place
  <2> QED
    BY <1>0, <2>1, <2>2 DEF Begun
<1>7. CASE List(a)
  <2>1. Begin(a, "list", None, None, "range") /\ UNCHANGED ghost
    BY <1>7 DEF List
  <2>2. Begun("list", "range")
    BY <1>1, <2>1 DEF Place
  <2> QED
    BY <1>0, <2>1, <2>2 DEF Begun, ghost
<1>8. CASE BlankLine(a)
  <2>1. Begin(a, "blank", None, None, "blank") /\ UNCHANGED ghost
    BY <1>8 DEF BlankLine
  <2>2. Begun("blank", "blank")
    BY <1>1, <2>1 DEF Place
  <2> QED
    BY <1>0, <2>1, <2>2 DEF Begun, ghost
<1> QED
  BY <1>3, <1>5, <1>6, <1>7, <1>8 DEF Command

\* The file and its lists stay without doubles: every step that writes
\* network.json writes a list that was read off the map.
LEMMA StepNames ==
    ASSUME Base, NamesApart, NEW a \in Actors, Step(a), ~Insert(a)
    PROVE  NamesApart'
<1>0. /\ Others(a) /\ state' = state /\ state # "down" /\ act[a].at \notin {"idle", "next"}
      /\ a = Loader => Adding(a)
      /\ Distinct(act[a].list) /\ Distinct(json.list) /\ Distinct({})
      /\ act \in [Actors -> Act]
  BY StepOthers, EngineAssumption DEF NamesApart, Distinct, Base
<1>1. CASE Open(a)
  <2>1. PICK i \in 1 .. MaxImages : Opens(a, i)
    BY <1>1, OpenFacts
  <2> QED
    BY <1>0, <2>1, QuietNames DEF Opens, Fewer, Adding
<1>2. CASE Format(a)
  <2>1. /\ act[a].at = "format" /\ Keeps(a)
        /\ UNCHANGED <<state, nodes, nodesMu, json, folder, path, client, bound, ghost>>
    BY <1>2, FormatFacts
  <2> QED
    BY <1>0, <2>1, QuietNames DEF Fewer, Adding, Keeps
<1>3. CASE SaveCollect(a) \/ SaveTruncate(a) \/ SaveWrite(a)
  <2>1. UNCHANGED nodes /\ a # Loader
    BY <1>0, <1>3 DEF SaveCollect, SaveTruncate, SaveWrite, Adding
  <2>2. act'[a].at \in {"truncate", "write", "done"} /\ Distinct(act'[a].list)
    BY <1>0, <1>3, SaveFacts, ConfigDistinct DEF Keeps
  <2>3. json'.list = json.list \/ json'.list = {} \/ json'.list = act[a].list
    <3>1. CASE SaveCollect(a) \/ SaveTruncate(a)
      BY <3>1 DEF SaveCollect, SaveTruncate
    <3>2. CASE SaveWrite(a)
      BY <3>2, SaveWriteFacts
    <3> QED
      BY <1>3, <3>1, <3>2
  <2>4. Distinct(json'.list)
    BY <1>0, <2>3
  <2> QED
    BY <1>0, <2>1, <2>2, <2>4, QuietNames DEF Fewer, Adding
<1>4. CASE SpawnLock(a) \/ SpawnCheck(a) \/ SpawnDone(a)
  <2>1. UNCHANGED <<nodes, json>> /\ a # Loader
    BY <1>0, <1>4 DEF SpawnLock, SpawnCheck, SpawnDone, disk, Adding
  <2>2. \/ act'[a] = Idle
        \/ act'[a].at = "check" /\ Keeps(a)
        \/ ~Refused(a) /\ act'[a].at = "open" /\ Keeps(a)
    BY <1>4, StepPlaces
  <2>3. Distinct(act'[a].list) /\ (Adding(a)' => ~Taken(act'[a].name, act'[a].ip))
    BY <1>0, <2>2 DEF Idle, Keeps, Adding, Refused
  <2> QED
    BY <1>0, <2>1, <2>3, QuietNames DEF Fewer
<1>5. CASE DeleteLookup(a) \/ DeleteDrop(a) \/ DeleteRemove(a) \/ DeleteDone(a)
  <2>1. UNCHANGED json /\ a # Loader
    BY <1>0, <1>5 DEF DeleteLookup, DeleteDrop, DeleteRemove, DeleteDone, disk, Adding
  <2>2. act'[a] = Idle \/ (act'[a].at \in {"drop", "remove", "mkdir"} /\ act'[a].list = act[a].list)
    BY <1>5, StepPlaces DEF Keeps
  <2>3. Fewer
    BY <1>5 DEF DeleteLookup, DeleteDrop, DeleteRemove, DeleteDone, Fewer, Restrict
  <2>4. Distinct(act'[a].list) /\ ~Adding(a)'
    BY <1>0, <2>2 DEF Idle, Adding
  <2> QED
    BY <1>0, <2>1, <2>3, <2>4, QuietNames
<1>6. CASE ResetWipe(a) \/ ResetClear(a)
  <2>1. (json'.list = json.list \/ json'.list = {}) /\ a # Loader
    BY <1>0, <1>6 DEF ResetWipe, ResetClear, disk, Adding
  <2>2. act[a].at \in {"wipe", "clear"}
    BY <1>6 DEF ResetWipe, ResetClear
  <2>3. act'[a] = Idle \/ (act'[a].at \in {"wipe", "clear"} /\ act'[a].list = act[a].list)
    BY <1>6, <2>2, StepPlaces DEF Keeps
  <2>4. Fewer
    BY <1>6 DEF ResetWipe, ResetClear, Fewer, NoNodes
  <2>5. Distinct(act'[a].list) /\ ~Adding(a)'
    BY <1>0, <2>3 DEF Idle, Adding
  <2> QED
    BY <1>0, <2>1, <2>4, <2>5, QuietNames
<1>7. CASE AddUserFind(a) \/ AddUserWrite(a) \/ ListRange(a) \/ ListCut(a)
  <2>1. UNCHANGED <<nodes, json>> /\ a # Loader
    BY <1>0, <1>7 DEF AddUserFind, AddUserWrite, ListRange, ListCut, disk, Adding
  <2>2. \/ act'[a] = Idle
        \/ act'[a].at = "passwd" /\ act'[a].list = act[a].list
        \/ act'[a].at = "cut" /\ act'[a].list \in {Config, {}}
    BY <1>7, StepPlaces
  <2>3. Distinct(act'[a].list) /\ ~Adding(a)'
    BY <1>0, <2>2, ConfigDistinct DEF Idle, Adding
  <2> QED
    BY <1>0, <2>1, <2>3, QuietNames DEF Fewer
<1> QED
  BY <1>1, <1>2, <1>3, <1>4, <1>5, <1>6, <1>7 DEF Step

\* The name and the address that enter the map were free.
LEMMA InsertNames ==
    ASSUME Base, NamesApart, NEW a \in Actors, Insert(a)
    PROVE  NamesApart'
<1>1. /\ act[a].at = "insert" /\ act[a].name \in Names /\ act[a].ip \in IPs
      /\ DOMAIN nodes' = DOMAIN nodes \cup {act[a].ip}
      /\ nodes'[act[a].ip] = [name |-> act[a].name, image |-> act[a].image]
      /\ \A ip \in DOMAIN nodes : ip # act[a].ip => nodes'[ip] = nodes[ip]
      /\ act' \in [Actors -> Act] /\ Others(a) /\ Keeps(a)
      /\ act'[a].at = IF a = Loader THEN "next" ELSE "mkdir"
      /\ UNCHANGED <<state, nodesMu, disk, client, bound, ghost>>
  BY InsertFacts
<1>2. Adding(a) /\ ~Taken(act[a].name, act[a].ip) /\ state # "down"
  BY <1>1 DEF NamesApart, Adding, Base, InPlace, Idle
<1>3. act[a].ip \notin DOMAIN nodes /\ \A ip \in DOMAIN nodes : nodes'[ip] = nodes[ip] /\ nodes[ip].name # act[a].name
  BY <1>1, <1>2 DEF Taken
<1>4. \A i, j \in DOMAIN nodes' : nodes'[i].name = nodes'[j].name => i = j
  BY <1>1, <1>3 DEF NamesApart
<1>5. Distinct(json'.list) /\ \A b \in Actors : Distinct(act'[b].list)
  BY <1>1 DEF NamesApart, Others, Keeps, disk
<1>6. \A b \in Actors : ~Adding(b)'
  <2>1. ~Adding(a)'
    BY <1>1 DEF Adding
  <2>2. \A b \in Actors : b # a => ~Adding(b)
    BY <1>2, OneAdder
  <2> QED
    BY <1>1, <2>1, <2>2 DEF Others, Adding
<1>7. ASSUME NEW e \in act'[Loader].list PROVE ~Taken(e.name, e.ip)'
  <2>1. Loader \in Actors /\ Loader \notin Admins
    BY EngineAssumption DEF Actors
  <2>2. a = Loader /\ e \in act[Loader].list
    <3>1. CASE a # Loader
      <4>1. InPlace(a) /\ InPlace(Loader) /\ act'[Loader] = act[Loader] /\ a \in Admins
        BY <1>1, <2>1, <3>1 DEF Base, Others, Actors
      <4>2. act[Loader] = Idle
        BY <1>1, <2>1, <3>1, <4>1 DEF InPlace, Idle
      <4> QED
        BY <1>7, <4>1, <4>2 DEF Idle
    <3>2. CASE a = Loader
      BY <1>1, <1>7, <3>2 DEF Keeps
    <3> QED
      BY <3>1, <3>2
  <2>3. ~Taken(e.name, e.ip) /\ e.name # act[a].name /\ e.ip # act[a].ip
    BY <1>2, <2>2 DEF NamesApart
  <2>4. ASSUME NEW k \in DOMAIN nodes' PROVE nodes'[k].name # e.name /\ k # e.ip
    BY <1>1, <1>3, <2>3, <2>4 DEF Taken
  <2> QED
    BY <2>4 DEF Taken
<1> QED
  BY <1>1, <1>2, <1>4, <1>5, <1>6, <1>7, EngineAssumption DEF NamesApart, Actors

\* LoadNetwork starts with an empty map and a list without doubles, and takes
\* each entry once.
LEMMA LoadNames ==
    ASSUME Base, NamesApart, Restart \/ LoadNext
    PROVE  NamesApart'
<1>0. Loader \in Actors /\ Distinct(json.list) /\ \A a \in Actors : Distinct(act[a].list)
  BY DEF Actors, NamesApart
<1>1. CASE Restart
  <2>1. /\ Others(Loader) /\ act'[Loader].at = "next" /\ act'[Loader].list = json.list
        /\ state = "down" /\ state' = "loading" /\ UNCHANGED <<nodes, disk>>
    BY <1>1, RestartFacts
  <2>2. nodes = NoNodes /\ DOMAIN NoNodes = {}
    BY <2>1 DEF NamesApart, NoNodes
  <2>3. \A n, ip : ~Taken(n, ip)'
    BY <2>1, <2>2 DEF Taken
  <2>4. \A b \in Actors : Distinct(act'[b].list)
    BY <1>0, <2>1 DEF Others
  <2>5. ~Adding(Loader)'
    BY <2>1 DEF Adding
  <2> QED
    BY <1>0, <2>1, <2>2, <2>3, <2>4, <2>5 DEF NamesApart, disk
<1>2. CASE LoadNext
  <2>1. /\ Others(Loader) /\ act[Loader].at = "next" /\ state = "loading" /\ state' # "down"
        /\ UNCHANGED <<nodes, disk>>
        /\ \/ \E e \in act[Loader].list :
                 /\ act'[Loader].at = "open" /\ act'[Loader].name = e.name /\ act'[Loader].ip = e.ip
                 /\ act'[Loader].list = act[Loader].list \ {e}
           \/ act'[Loader] = Idle
    BY <1>2, LoadNextFacts
  <2>2. \A n, ip : Taken(n, ip)' <=> Taken(n, ip)
    BY <2>1 DEF Taken
  <2>3. act'[Loader].list \subseteq act[Loader].list
    BY <2>1 DEF Idle
  <2>4. \A b \in Actors : Distinct(act'[b].list)
    BY <1>0, <2>1, <2>3 DEF Others, Distinct
  <2>5. Adding(Loader)' => ~Taken(act'[Loader].name, act'[Loader].ip)
    BY <2>1 DEF Adding, NamesApart, Idle
  <2>6. \A b \in Actors : Adding(b)' => ~Taken(act[b].name, act[b].ip)'
    BY <2>1, <2>2, <2>5 DEF Others, Adding, NamesApart
  <2>7. ASSUME NEW f \in act'[Loader].list, Adding(Loader)'
        PROVE  f.name # act'[Loader].name /\ f.ip # act'[Loader].ip
    <3>1. Distinct(act[Loader].list)
      BY <1>0
    <3> QED
      BY <2>1, <2>7, <3>1 DEF Adding, Idle, Distinct
  <2> QED
    BY <1>0, <2>1, <2>2, <2>3, <2>4, <2>6, <2>7 DEF NamesApart, disk
<1> QED
  BY <1>1, <1>2

\* Every step keeps names apart.
LEMMA NextNames == Base /\ NamesApart /\ [Next]_vars => NamesApart'
<1> SUFFICES ASSUME Base, NamesApart, [Next]_vars PROVE NamesApart'
  OBVIOUS
<1>1. CASE UNCHANGED <<state, nodes, json, act>>
  BY <1>1 DEF NamesApart, Distinct, Taken, Adding
<1>2. ASSUME NEW a \in Actors, Step(a) PROVE NamesApart'
  BY <1>2, StepNames, InsertNames
<1>3. ASSUME NEW a \in Admins, Command(a) PROVE NamesApart'
  <2>1. /\ a \in Actors /\ a # Loader /\ Others(a) /\ state = "up" /\ act'[a].list = {}
        /\ UNCHANGED <<state, nodes, nodesMu, disk, client, torn, half, buried>>
        /\ act'[a].at \in {"lock", "lookup", "find", "range", "blank", "wipe"}
    BY <1>3, CommandFacts
  <2> QED
    BY <2>1, QuietNames DEF Fewer, Adding, Distinct, NamesApart, disk
<1>4. CASE Stop
  <2>1. nodes' = NoNodes /\ act' = [b \in Actors |-> Idle] /\ UNCHANGED json /\ DOMAIN nodes' = {}
    BY <1>4 DEF Stop, disk, NoNodes
  <2>2. Loader \in Actors
    BY DEF Actors
  <2> QED
    BY <2>1, <2>2 DEF NamesApart, Distinct, Adding, Idle
<1>5. CASE Restart \/ LoadNext
  BY <1>5, LoadNames
<1>6. CASE \E c \in Clients : ClientList(c) \/ ClientPick(c)
  BY <1>1, <1>6 DEF ClientList, ClientPick, disk
<1>7. CASE UNCHANGED vars
  BY <1>1, <1>7 DEF vars, disk
<1> QED
  BY <1>2, <1>3, <1>4, <1>5, <1>6, <1>7 DEF Next, Panic, Die

\* What there is at first has names apart.
LEMMA InitNames == Init => NamesApart
<1> SUFFICES ASSUME Init PROVE NamesApart
  OBVIOUS
<1>1. nodes = NoNodes /\ act = [b \in Actors |-> Idle] /\ DOMAIN nodes = {} /\ Loader \in Actors
  BY DEF Init, NoNodes, Actors
<1> DEFINE f == CHOOSE e \in Entry : TRUE
<1>2. json.list = {} \/ json.list = {f}
  BY DEF Init
<1> HIDE DEF f
<1>3. Distinct(json.list)
  BY <1>2 DEF Distinct
<1> QED
  BY <1>1, <1>3 DEF NamesApart, Distinct, Adding, Idle

-----------------------------------------------------------------------------
(* An image belongs to one name. *)

\* Apart from opening, formatting and entering, a step takes nodes and disks
\* away at most.
LEMMA OtherSteps ==
    ASSUME Base, NEW a \in Actors, Step(a), ~Open(a), ~Format(a), ~Insert(a)
    PROVE  /\ Fewer /\ \A n \in Names : path'[n] \in {path[n], 0}
           /\ act[a].at \notin {"open", "format", "insert"} /\ act'[a].at \notin {"format", "insert"}
           /\ UNCHANGED <<half, torn>>
           /\ ~AddUserWrite(a) => UNCHANGED image
<1>0. act \in [Actors -> Act] /\ path \in [Names -> 0 .. Len(image)]
  BY DEF Base, Stored
<1>1. CASE SaveCollect(a) \/ SaveTruncate(a) \/ SaveWrite(a)
  <2>1. UNCHANGED <<nodes, path, image, ghost>> /\ act[a].at \notin {"open", "format", "insert"}
    BY <1>1 DEF SaveCollect, SaveTruncate, SaveWrite
  <2>2. act'[a].at \notin {"format", "insert"}
    BY <1>1, SaveFacts
  <2> QED
    BY <2>1, <2>2 DEF Fewer, ghost
<1>2. CASE SpawnLock(a) \/ SpawnCheck(a) \/ SpawnDone(a) \/ AddUserFind(a) \/ AddUserWrite(a)
             \/ ListRange(a) \/ ListCut(a)
  <2>1. UNCHANGED <<nodes, path, half, torn>> /\ act[a].at \notin {"open", "format", "insert"}
          /\ (~AddUserWrite(a) => UNCHANGED image)
    BY <1>2 DEF SpawnLock, SpawnCheck, SpawnDone, AddUserFind, AddUserWrite, ListRange, ListCut, disk, ghost
  <2>2. act'[a].at \notin {"format", "insert"}
    BY <1>2, StepPlaces DEF Idle
  <2> QED
    BY <2>1, <2>2 DEF Fewer
<1>3. CASE DeleteLookup(a) \/ DeleteDrop(a) \/ DeleteRemove(a) \/ DeleteDone(a)
  <2>1. Fewer /\ \A n \in Names : path'[n] \in {path[n], 0}
    BY <1>0, <1>3 DEF DeleteLookup, DeleteDrop, DeleteRemove, DeleteDone, Fewer, Restrict, disk
  <2>2. act'[a].at \notin {"format", "insert"}
    BY <1>3, StepPlaces DEF Idle
  <2>3. UNCHANGED <<image, half, torn>> /\ act[a].at \notin {"open", "format", "insert"}
    BY <1>3 DEF DeleteLookup, DeleteDrop, DeleteRemove, DeleteDone, disk, ghost
  <2> QED
    BY <2>1, <2>2, <2>3
<1>4. CASE ResetWipe(a) \/ ResetClear(a)
  <2>1. Fewer /\ \A n \in Names : path'[n] \in {path[n], 0}
    BY <1>0, <1>4 DEF ResetWipe, ResetClear, Fewer, NoNodes, disk
  <2>2. UNCHANGED <<image, half, torn>> /\ act[a].at \in {"wipe", "clear"}
    BY <1>4 DEF ResetWipe, ResetClear, disk, ghost
  <2>3. act'[a].at \notin {"format", "insert"}
    BY <1>4, <2>2, StepPlaces DEF Idle
  <2> QED
    BY <2>1, <2>2, <2>3
<1> QED
  BY <1>1, <1>2, <1>3, <1>4 DEF Step

\* Every step but Open only hands images on: what is opened under a name was so
\* before.
LEMMA OpenedBefore ==
    ASSUME Base, [Next]_vars, ~(\E a \in Actors : Open(a)), NEW n \in Names, NEW i \in DOMAIN image, Opened(n, i)'
    PROVE  Opened(n, i)
<1>0. i # 0 /\ act \in [Actors -> Act] /\ path \in [Names -> 0 .. Len(image)]
  BY DEF Base, Stored
<1>1. CASE path'[n] \in {path[n], 0} /\ Fewer
            /\ \A b \in Actors : act'[b].at \in {"format", "insert"} =>
                  act[b].at \in {"format", "insert"} /\ act'[b].name = act[b].name /\ act'[b].image = act[b].image
  BY <1>0, <1>1 DEF Opened, Fewer
<1>2. CASE UNCHANGED <<nodes, path, act>>
  BY <1>2 DEF Opened
<1>3. ASSUME NEW a \in Actors, Step(a) PROVE Opened(n, i)
  <2>0. Others(a) /\ ~Open(a)
    BY <1>3, StepOthers
  <2>1. CASE Insert(a)
    <3>1. /\ act[a].at = "insert" /\ DOMAIN nodes' = DOMAIN nodes \cup {act[a].ip}
          /\ nodes'[act[a].ip] = [name |-> act[a].name, image |-> act[a].image]
          /\ \A ip \in DOMAIN nodes : ip # act[a].ip => nodes'[ip] = nodes[ip]
          /\ act'[a].at \notin {"format", "insert"} /\ UNCHANGED disk
      BY <2>1, InsertFacts
    <3> QED
      BY <2>0, <3>1 DEF Opened, Others, disk
  <2>2. CASE Format(a)
    <3>1. act[a].at = "format" /\ Keeps(a) /\ UNCHANGED <<nodes, path>>
      BY <2>2, FormatFacts
    <3> QED
      BY <1>1, <2>0, <3>1 DEF Others, Keeps, Fewer
  <2>3. CASE ~Insert(a) /\ ~Format(a)
    <3>1. Fewer /\ path'[n] \in {path[n], 0} /\ act'[a].at \notin {"format", "insert"}
      BY <1>3, <2>0, <2>3, OtherSteps
    <3> QED
      BY <1>1, <2>0, <3>1 DEF Others
  <2> QED
    BY <2>1, <2>2, <2>3
<1>4. ASSUME NEW a \in Admins, Command(a) PROVE Opened(n, i)
  <2>1. /\ a \in Actors /\ Others(a) /\ UNCHANGED <<nodes, disk>>
        /\ act'[a].at \notin {"format", "insert"}
    BY <1>4, CommandFacts
  <2> QED
    BY <1>1, <2>1 DEF Others, Fewer, disk
<1>5. CASE Stop
  <2>1. nodes' = NoNodes /\ act' = [b \in Actors |-> Idle] /\ UNCHANGED path /\ DOMAIN nodes' = {}
    BY <1>5 DEF Stop, disk, NoNodes
  <2> QED
    BY <1>1, <2>1 DEF Idle, Fewer
<1>6. CASE Restart
  BY <1>1, <1>6, RestartFacts DEF Others, Fewer, disk
<1>7. CASE LoadNext
  BY <1>1, <1>7, LoadNextFacts DEF Others, Fewer, disk, Idle
<1>8. CASE UNCHANGED vars \/ \E c \in Clients : ClientList(c) \/ ClientPick(c)
  BY <1>2, <1>8 DEF vars, ClientList, ClientPick, disk
<1> QED
  BY <1>3, <1>4, <1>5, <1>6, <1>7, <1>8 DEF Next, Panic, Die

\* A new image is one nobody has, and an old one stays with its name.
LEMMA NextOwnImages == Base /\ Base' /\ OwnImages /\ [Next]_vars => OwnImages'
<1> SUFFICES ASSUME Base, Base', OwnImages, [Next]_vars,
                    NEW m \in Names, NEW n \in Names, NEW i \in DOMAIN image', Opened(m, i)', Opened(n, i)'
             PROVE  m = n
  BY DEF OwnImages
<1>1. ASSUME NEW l \in Names, NEW j, Opened(l, j), j # 0 PROVE j \in DOMAIN image
  <2>1. image \in Seq(Image) /\ path \in [Names -> 0 .. Len(image)] /\ \A ip \in DOMAIN nodes : nodes[ip].image \in DOMAIN image
    BY DEF Base, Stored
  <2>2. \A b \in Actors : act[b].at \in {"format", "insert"} => act[b].image \in DOMAIN image
    BY DEF Base, InHand
  <2> QED
    BY <1>1, <2>1, <2>2 DEF Opened
<1>2. CASE \E a \in Actors : Open(a)
  <2>1. PICK a \in Actors : Open(a)
    BY <1>2
  <2>2. PICK k \in 1 .. MaxImages : Opens(a, k)
    BY <2>1, OpenFacts
  <2>3. path \in [Names -> 0 .. Len(image)] /\ image \in Seq(Image) /\ i # 0
    BY DEF Base, Stored
  <2>4. ASSUME NEW l \in Names, Opened(l, i)'
        PROVE  Opened(l, i) \/ (l = act[a].name /\ i = k)
    BY <2>2, <2>3, <2>4 DEF Opened, Opens, Others
  <2>5. CASE path[act[a].name] = 0
    <3>1. k = Len(image) + 1 /\ k \notin DOMAIN image
      BY <2>2, <2>3, <2>5 DEF Opens
    <3> QED
      BY <1>1, <2>3, <2>4, <3>1 DEF OwnImages
  <2>6. CASE path[act[a].name] # 0
    <3>1. Opened(act[a].name, k) /\ act[a].name \in Names
      BY <2>2, <2>6 DEF Opened, Opens
    <3> QED
      BY <1>1, <2>3, <2>4, <3>1 DEF OwnImages
  <2> QED
    BY <2>5, <2>6
<1>3. CASE ~(\E a \in Actors : Open(a))
  <2>1. DOMAIN image' = DOMAIN image
    BY <1>3, ImageSteps, FormatFacts, AddUserWriteFacts
  <2>2. Opened(m, i) /\ Opened(n, i)
    BY <1>3, <2>1, OpenedBefore
  <2> QED
    BY <2>1, <2>2 DEF OwnImages
<1> QED
  BY <1>2, <1>3

\* Nothing is opened at first, or one disk under its name.
LEMMA InitOwnImages == Init => OwnImages
<1> SUFFICES ASSUME Init PROVE OwnImages
  OBVIOUS
<1>1. nodes = NoNodes /\ act = [b \in Actors |-> Idle] /\ DOMAIN nodes = {}
  BY DEF Init, NoNodes
<1> DEFINE f == CHOOSE e \in Entry : TRUE
<1>2. image = <<>> \/ path = [n \in Names |-> IF n = f.name THEN 1 ELSE 0]
  BY DEF Init
<1> HIDE DEF f
<1>3. \A i \in DOMAIN image : i # 0
  BY InitBase DEF Base, Stored
<1>4. ASSUME NEW n \in Names, NEW i \in DOMAIN image, Opened(n, i) PROVE path[n] = i
  BY <1>1, <1>4 DEF Opened, Idle
<1> QED
  BY <1>2, <1>3, <1>4 DEF OwnImages

\* Names apart, and every image with its name, throughout.
LEMMA NamesInvariance == Spec => [](Base /\ NamesApart /\ OwnImages)
<1>1. Init => NamesApart /\ OwnImages
  BY InitNames, InitOwnImages
<1>2. Base /\ Base' /\ NamesApart /\ OwnImages /\ [Next]_vars => (NamesApart /\ OwnImages)'
  BY NextNames, NextOwnImages
<1> QED
  BY <1>1, <1>2, BaseInvariance, PTL DEF Spec

\* Two nodes never have one name or one disk, for any number of admins whose
\* commands interleave, and whenever the engine dies (handle_admin.go:88-126).
THEOREM NamesAndDisksApart == Spec => []OneNodePerName
<1>1. Base /\ NamesApart /\ OwnImages => OneNodePerName
  <2> SUFFICES ASSUME Base, NamesApart, OwnImages, NEW i \in DOMAIN nodes, NEW j \in DOMAIN nodes,
                      nodes[i].name = nodes[j].name \/ nodes[i].image = nodes[j].image
               PROVE  i = j
    BY DEF OneNodePerName
  <2>1. /\ nodes[i].name \in Names /\ nodes[j].name \in Names
        /\ nodes[i].image \in DOMAIN image /\ nodes[j].image \in DOMAIN image
    BY DEF Base, Stored, Node
  <2>2. Opened(nodes[i].name, nodes[i].image) /\ Opened(nodes[j].name, nodes[j].image)
    BY DEF Opened
  <2>3. nodes[i].name = nodes[j].name
    BY <2>1, <2>2 DEF OwnImages
  <2> QED
    BY <2>3 DEF NamesApart
<1> QED
  BY <1>1, NamesInvariance, PTL

-----------------------------------------------------------------------------
(* First boots. *)

\* The goroutine that opens a disk with a header finds it complete, or left
\* behind by a death: nobody else is formatting.
LEMMA NextBoots == Base /\ Base' /\ Boots /\ [Next]_vars => Boots'
<1> SUFFICES ASSUME Base, Base', Boots, [Next]_vars PROVE Boots'
  OBVIOUS
<1>0. /\ act \in [Actors -> Act] /\ image \in Seq(Image)
      /\ \A ip \in DOMAIN nodes : nodes[ip].image \in DOMAIN image
      /\ \A b \in Actors : act[b].at \in {"format", "insert"} => act[b].image \in DOMAIN image
  BY DEF Base, Stored, InHand
<1>1. CASE /\ UNCHANGED half /\ DOMAIN image' = DOMAIN image
           /\ \A i \in DOMAIN image : image'[i].step = image[i].step
           /\ \A b \in Actors : act[b].at = "format" => act'[b].at = "format" /\ act'[b].image = act[b].image
           /\ \A b \in Actors : act'[b].at = "insert" => act[b].at = "insert" /\ act'[b].image = act[b].image
           /\ \A ip \in DOMAIN nodes' : \/ ip \in DOMAIN nodes /\ nodes'[ip] = nodes[ip]
                                        \/ \E b \in Actors : act[b].at = "insert" /\ nodes'[ip].image = act[b].image
  <2>1. \A i \in DOMAIN image : Complete(image'[i]) <=> Complete(image[i])
    BY <1>1 DEF Complete
  <2>2. ASSUME NEW i \in DOMAIN image', 0 < image'[i].step, ~Complete(image'[i])
        PROVE  i \in half' \/ \E b \in Actors : act'[b].at = "format" /\ act'[b].image = i
    BY <1>1, <2>1, <2>2 DEF Boots
  <2>3. ASSUME NEW b \in Actors, act'[b].at = "insert"
        PROVE  act'[b].image \in half' \/ Complete(image'[act'[b].image])
    BY <1>0, <1>1, <2>1, <2>3 DEF Boots
  <2>4. ASSUME NEW ip \in DOMAIN nodes'
        PROVE  nodes'[ip].image \in half' \/ Complete(image'[nodes'[ip].image])
    BY <1>0, <1>1, <2>1, <2>4 DEF Boots, BootsComplete
  <2> QED
    BY <2>2, <2>3, <2>4 DEF Boots, BootsComplete
<1>2. ASSUME NEW a \in Actors, Open(a) PROVE Boots'
  <2>1. PICK k \in 1 .. MaxImages : Opens(a, k)
    BY <1>2, OpenFacts
  <2>2. half' = half /\ nodes' = nodes /\ Adding(a) /\ Others(a) /\ \A b \in Actors : act[b].at # "format"
    BY <2>1, OneAdder DEF Opens, Adding, ghost
  <2>3. \A i \in DOMAIN image : Complete(image'[i]) <=> Complete(image[i])
    BY <2>1 DEF Opens, Complete
  <2>4. ASSUME NEW i \in DOMAIN image', 0 < image'[i].step, ~Complete(image'[i])
        PROVE  i \in half
    <3>1. CASE i \in DOMAIN image
      BY <2>1, <2>2, <2>4, <3>1 DEF Boots, Opens
    <3>2. CASE i \notin DOMAIN image
      <4>1. image' = Append(image, Blank) /\ i = Len(image) + 1
        BY <1>0, <2>1, <3>2 DEF Opens
      <4>2. image'[i] = Blank
        BY <1>0, <4>1
      <4> QED
        BY <2>4, <4>2 DEF Blank
    <3> QED
      BY <3>1, <3>2
  <2>5. act'[a].at = "insert" => k \in half \/ Complete(image'[k])
    BY <2>1, <2>4 DEF Opens, IsInitialized
  <2>6. ASSUME NEW b \in Actors, act'[b].at = "insert"
        PROVE  act'[b].image \in half' \/ Complete(image'[act'[b].image])
    <3>1. CASE b = a
      BY <2>1, <2>2, <2>5, <2>6, <3>1 DEF Opens
    <3>2. CASE b # a
      <4>1. act'[b] = act[b]
        BY <2>2, <3>2 DEF Others
      <4> QED
        BY <1>0, <2>2, <2>3, <2>6, <4>1 DEF Boots
    <3> QED
      BY <3>1, <3>2
  <2>7. BootsComplete'
    BY <1>0, <2>2, <2>3 DEF Boots, BootsComplete
  <2> QED
    BY <2>2, <2>4, <2>6, <2>7 DEF Boots
<1>3. ASSUME NEW a \in Actors, Format(a) PROVE Boots'
  <2>1. /\ act[a].at = "format" /\ act[a].image \in DOMAIN image /\ ~Complete(image[act[a].image])
        /\ DOMAIN image' = DOMAIN image
        /\ \A j \in DOMAIN image : j # act[a].image => image'[j] = image[j]
        /\ Others(a) /\ Keeps(a)
        /\ act'[a].at = IF Complete(image'[act[a].image]) THEN "insert" ELSE "format"
        /\ nodes' = nodes /\ half' = half
    BY <1>3, FormatFacts DEF ghost
  <2>2. \A i \in DOMAIN image : Complete(image[i]) => Complete(image'[i])
    BY <2>1
  <2>3. ASSUME NEW i \in DOMAIN image', 0 < image'[i].step, ~Complete(image'[i])
        PROVE  i \in half' \/ \E b \in Actors : act'[b].at = "format" /\ act'[b].image = i
    <3>1. CASE i = act[a].image
      BY <2>1, <2>3, <3>1 DEF Keeps
    <3>2. CASE i # act[a].image
      BY <2>1, <2>3, <3>2 DEF Boots, Others
    <3> QED
      BY <3>1, <3>2
  <2>4. ASSUME NEW b \in Actors, act'[b].at = "insert"
        PROVE  act'[b].image \in half' \/ Complete(image'[act'[b].image])
    <3>1. CASE b = a
      BY <2>1, <2>4, <3>1 DEF Keeps
    <3>2. CASE b # a
      BY <1>0, <2>1, <2>2, <2>4, <3>2 DEF Boots, Others
    <3> QED
      BY <3>1, <3>2
  <2>5. BootsComplete'
    BY <1>0, <2>1, <2>2 DEF Boots, BootsComplete
  <2> QED
    BY <2>3, <2>4, <2>5 DEF Boots
<1>4. ASSUME NEW a \in Actors, Step(a), ~Open(a), ~Format(a) PROVE Boots'
  <2>0. Others(a)
    BY <1>4, StepOthers
  <2>1. CASE Insert(a)
    <3>1. /\ act[a].at = "insert" /\ DOMAIN nodes' = DOMAIN nodes \cup {act[a].ip}
          /\ nodes'[act[a].ip] = [name |-> act[a].name, image |-> act[a].image]
          /\ \A ip \in DOMAIN nodes : ip # act[a].ip => nodes'[ip] = nodes[ip]
          /\ act'[a].at \notin {"format", "insert"} /\ UNCHANGED <<disk, ghost>>
      BY <2>1, InsertFacts
    <3>2. nodes'[act[a].ip].image = act[a].image /\ UNCHANGED <<image, half>>
      BY <3>1 DEF disk, ghost
    <3> QED
      BY <1>1, <2>0, <3>1, <3>2 DEF Others
  <2>2. CASE ~Insert(a)
    <3>1. /\ Fewer /\ act[a].at \notin {"format", "insert"} /\ act'[a].at \notin {"format", "insert"}
          /\ UNCHANGED half /\ (~AddUserWrite(a) => UNCHANGED image)
      BY <1>4, <2>2, OtherSteps
    <3>2. DOMAIN image' = DOMAIN image /\ \A i \in DOMAIN image : image'[i].step = image[i].step
      BY <3>1, AddUserWriteFacts
    <3> QED
      BY <1>1, <2>0, <3>1, <3>2 DEF Others, Fewer
  <2> QED
    BY <2>1, <2>2
<1>5. ASSUME NEW a \in Admins, Command(a) PROVE Boots'
  <2>1. /\ a \in Actors /\ Others(a) /\ UNCHANGED <<nodes, image, half>> /\ act[a].at = "idle"
        /\ act'[a].at \notin {"format", "insert"}
    BY <1>5, CommandFacts DEF disk
  <2> QED
    BY <1>1, <2>1 DEF Others
<1>6. CASE Stop
  <2>1. /\ nodes' = NoNodes /\ act' = [b \in Actors |-> Idle] /\ UNCHANGED image /\ DOMAIN nodes' = {}
        /\ half' = half \cup {i \in DOMAIN image : 0 < image[i].step /\ ~Complete(image[i])}
    BY <1>6 DEF Stop, disk, NoNodes
  <2> QED
    BY <2>1 DEF Boots, BootsComplete, Idle
<1>7. CASE Restart \/ LoadNext
  <2>1. UNCHANGED <<nodes, image, half>>
    BY <1>7 DEF Restart, LoadNext, disk, ghost
  <2>2. Others(Loader) /\ act[Loader].at \in {"idle", "next"} /\ act'[Loader].at \in {"idle", "next", "open"}
    <3>1. CASE Restart
      BY <3>1, RestartFacts, EngineAssumption DEF Base, InPlace, Idle
    <3>2. CASE LoadNext
      BY <3>2, LoadNextFacts DEF Idle
    <3> QED
      BY <1>7, <3>1, <3>2
  <2> QED
    BY <1>1, <2>1, <2>2 DEF Others
<1>8. CASE UNCHANGED vars \/ \E c \in Clients : ClientList(c) \/ ClientPick(c)
  BY <1>1, <1>8 DEF vars, ClientList, ClientPick, disk, ghost
<1> QED
  BY <1>2, <1>3, <1>4, <1>5, <1>6, <1>7, <1>8 DEF Next, Panic, Die

\* The disk of an earlier version has no header that passes.
LEMMA InitBoots == Init => Boots
<1> SUFFICES ASSUME Init PROVE Boots
  OBVIOUS
<1>1. nodes = NoNodes /\ act = [b \in Actors |-> Idle] /\ DOMAIN nodes = {}
  BY DEF Init, NoNodes
<1>2. image = <<>> \/ image = <<Outdated>>
  BY DEF Init
<1>3. \A i \in DOMAIN image : image[i].step = 0
  BY <1>2 DEF Outdated
<1> QED
  BY <1>1, <1>3 DEF Boots, BootsComplete, Idle

\* The account of the first boots holds throughout.
LEMMA BootsInvariance == Spec => []Boots
<1> QED
  BY InitBoots, NextBoots, BaseInvariance, PTL DEF Spec

\* A node in the map has all of its first-boot tree, unless a death came between
\* the superblock and the end of the tree (fs.go:176-186, computer.go:128).
THEOREM NodesBootComplete == Spec => []BootsComplete
<1>1. Boots => BootsComplete
  BY DEF Boots
<1> QED
  BY <1>1, BootsInvariance, PTL

-----------------------------------------------------------------------------
(* Commands that do not overlap. *)

\* Nobody but a changes the network.
Solo(a) == a \in Admins /\ state = "up" /\ \A b \in Admins : b # a => ~Changing(b)

\* What Disks, Files and Promises come to then.
DisksOf(a) ==
    /\ act[a].cmd # "reset" => /\ \A ip \in DOMAIN nodes : path[nodes[ip].name] = nodes[ip].image
                               /\ act[a].at \in {"format", "insert"} => path[act[a].name] = act[a].image
    /\ act[a].at = "drop" => act[a].ip \in DOMAIN nodes /\ nodes[act[a].ip].name = act[a].name
    /\ act[a].cmd = "delete" /\ (act[a].at = "remove" \/ Saving(a)) =>
          \A ip \in DOMAIN nodes : nodes[ip].name # act[a].name
    /\ act[a].cmd = "spawn" /\ Saving(a) =>
          /\ act[a].ip \in DOMAIN nodes
          /\ nodes[act[a].ip].name = act[a].name /\ nodes[act[a].ip].image = act[a].image

FilesOf(a) ==
    /\ json.state \in {"empty", "garbled"} => act[a].at = "write"
    /\ ~Changing(a) => json.list = Config
    /\ act[a].at \in {"open", "format", "insert", "drop", "done"} => json.list = Config
    /\ act[a].at \in {"truncate", "write"} => act[a].list = Config /\ folder
    /\ act[a].at = "write" => json.state = "empty"
    /\ act[a].at = "clear" => json.state = "absent"

PromisesOf(a) ==
    /\ \A p \in promised :
          /\ path[p.name] = p.image /\ p.image # 0
          /\ p.ip \in DOMAIN nodes /\ nodes[p.ip].name = p.name /\ nodes[p.ip].image = p.image
          /\ act[a].at = "write" \/ [name |-> p.name, ip |-> p.ip] \in json.list
    /\ act[a].cmd = "reset" => promised = {}
    /\ act[a].cmd = "delete" /\ act[a].at # "lookup" => \A p \in promised : p.name # act[a].name
    /\ \A ip \in DOMAIN nodes : nodes[ip].name \notin buried
    /\ \A e \in json.list : e.name \notin buried
    /\ Adding(a) => act[a].name \notin buried

UnracedOf(a) == DisksOf(a) /\ (~torn => FilesOf(a) /\ PromisesOf(a))

\* An admin that is not changing the network is at no place that matters.
LEMMA NotChanging ==
    ASSUME Base, NEW b \in Admins, ~Changing(b)
    PROVE  /\ act[b].at \notin {"open", "format", "insert", "mkdir", "truncate", "write", "done",
                                "drop", "remove", "wipe", "clear"}
           /\ act[b].cmd # "reset"
           /\ act[b].cmd = "delete" => act[b].at = "lookup"
           /\ ~Saving(b) /\ ~Adding(b) /\ b \in Actors
<1>1. InPlace(b) /\ b \in Actors /\ b # Loader
  BY EngineAssumption DEF Base, Actors
<1> QED
  BY <1>1 DEF Changing, Saving, Adding, InPlace, Idle

\* While connections are served LoadNetwork is over.
LEMMA LoaderIdle ==
    ASSUME Base, state # "loading"
    PROVE  act[Loader] = Idle
BY EngineAssumption DEF Base, InPlace, Actors

\* With a alone, its own part is all there is to say.
LEMMA SoloUnraced ==
    ASSUME Base, NEW a, Solo(a)
    PROVE  Unraced <=> UnracedOf(a)
<1>0. a \in Admins /\ state = "up" /\ act[Loader] = Idle /\ Actors = Admins \cup {Loader} /\ Loader \notin Admins
  BY LoaderIdle, EngineAssumption DEF Solo, Actors
<1>1. ASSUME NEW b \in Admins, b # a
      PROVE  /\ ~Changing(b)
             /\ act[b].at \notin {"open", "format", "insert", "mkdir", "truncate", "write", "done",
                                  "drop", "remove", "wipe", "clear"}
             /\ act[b].cmd # "reset"
             /\ act[b].cmd = "delete" => act[b].at = "lookup"
             /\ ~Saving(b) /\ ~Adding(b)
  BY <1>1, NotChanging DEF Solo
<1>2. Idle.at = "idle" /\ ~Adding(Loader)
  BY <1>0 DEF Idle, Adding
<1>3. Disks <=> DisksOf(a)
  BY <1>0, <1>1, <1>2 DEF Disks, DisksOf, Alone, NoReset
<1>4. Files <=> FilesOf(a)
  BY <1>0, <1>1, <1>2 DEF Files, FilesOf
<1>5. Promises <=> PromisesOf(a)
  BY <1>0, <1>1, <1>2 DEF Promises, PromisesOf
<1> QED
  BY <1>3, <1>4, <1>5 DEF Unraced, UnracedOf

\* The same after a step.
LEMMA SoloUnracedAfter ==
    ASSUME NEW a \in Admins
    PROVE  (Base /\ Solo(a) => (Unraced <=> UnracedOf(a)))'
<1>1. Base /\ Solo(a) => (Unraced <=> UnracedOf(a))
  BY SoloUnraced
<1> QED
  BY <1>1, PTL

\* The same after a step.
LEMMA NotChangingAfter ==
    ASSUME NEW b \in Admins, Base', ~Changing(b)'
    PROVE  /\ act'[b].at \notin {"open", "format", "insert", "mkdir", "truncate", "write", "done",
                                 "drop", "remove", "wipe", "clear"}
           /\ act'[b].cmd # "reset"
           /\ act'[b].cmd = "delete" => act'[b].at = "lookup"
           /\ ~Saving(b)' /\ ~Adding(b)' /\ b \in Actors
<1>1. InPlace(b)' /\ b \in Actors /\ b # Loader
  BY EngineAssumption DEF Base, Actors
<1> QED
  BY <1>1 DEF Changing, Saving, Adding, InPlace, Idle

\* While a is alone, opening its disk touches no other node's, and no promise:
\* its name is free.
LEMMA SoloOpen ==
    ASSUME Base, NamesApart, NEW a \in Admins, UnracedOf(a), Open(a)
    PROVE  UnracedOf(a)'
<1>0. a \in Actors /\ InPlace(a) /\ act[a].at = "open" /\ a # Loader /\ path \in [Names -> 0 .. Len(image)]
      /\ DOMAIN nodes \subseteq IPs /\ nodes \in [DOMAIN nodes -> Node]
  BY EngineAssumption DEF Base, Stored, Actors, Open
<1>1. PICK i \in 1 .. MaxImages : Opens(a, i)
  BY <1>0, OpenFacts
<1> DEFINE n == act[a].name
<1>2. /\ n \in Names /\ path' = [path EXCEPT ![n] = i]
      /\ act'[a].at \in {"format", "insert"} /\ act'[a].image = i /\ act'[a].name = n
      /\ act'[a].cmd = act[a].cmd /\ act[a].cmd = "spawn"
      /\ UNCHANGED <<nodes, json, promised, buried, torn>>
  BY <1>0, <1>1 DEF Opens, ghost, InPlace, Idle
<1>3. \A ip \in DOMAIN nodes : nodes[ip].name # n /\ nodes[ip].name \in Names
  BY <1>0 DEF NamesApart, Adding, Taken, Node
<1> HIDE DEF n
<1>4. DisksOf(a)'
  BY <1>0, <1>2, <1>3 DEF DisksOf, UnracedOf, Saving
<1>5. ASSUME FilesOf(a) PROVE FilesOf(a)'
  BY <1>0, <1>2, <1>5 DEF FilesOf, Changing, Config
<1>6. ASSUME PromisesOf(a) PROVE PromisesOf(a)'
  BY <1>0, <1>2, <1>3, <1>6 DEF PromisesOf, Adding, n
<1> QED
  BY <1>2, <1>4, <1>5, <1>6 DEF UnracedOf

\* Formatting touches nothing that the network is made of.
LEMMA SoloFormat ==
    ASSUME Base, NEW a \in Admins, UnracedOf(a), Format(a)
    PROVE  UnracedOf(a)'
<1>0. a \in Actors /\ InPlace(a) /\ a # Loader
  BY EngineAssumption DEF Base, Actors
<1>1. /\ act[a].at = "format" /\ act'[a].at \in {"format", "insert"} /\ Keeps(a)
      /\ UNCHANGED <<nodes, json, path, promised, buried, torn>>
  BY <1>0, FormatFacts DEF ghost
<1>2. act[a].cmd = "spawn"
  BY <1>0, <1>1 DEF InPlace, Idle
<1>3. DisksOf(a)'
  BY <1>1, <1>2 DEF DisksOf, UnracedOf, Saving, Keeps
<1>4. ASSUME FilesOf(a) PROVE FilesOf(a)'
  BY <1>1, <1>4 DEF FilesOf, Changing, Config
<1>5. ASSUME PromisesOf(a) PROVE PromisesOf(a)'
  BY <1>1, <1>2, <1>5 DEF PromisesOf, Adding, Keeps
<1> QED
  BY <1>1, <1>3, <1>4, <1>5 DEF UnracedOf

\* The new node has its disk in its directory and a name that is not buried.
LEMMA SoloInsert ==
    ASSUME Base, NamesApart, NEW a \in Admins, UnracedOf(a), Insert(a)
    PROVE  UnracedOf(a)'
<1>0. a \in Actors /\ InPlace(a) /\ a # Loader
  BY EngineAssumption DEF Base, Actors
<1>1. /\ act[a].at = "insert" /\ act'[a].at = "mkdir" /\ Keeps(a)
      /\ DOMAIN nodes' = DOMAIN nodes \cup {act[a].ip}
      /\ nodes'[act[a].ip] = [name |-> act[a].name, image |-> act[a].image]
      /\ \A ip \in DOMAIN nodes : ip # act[a].ip => nodes'[ip] = nodes[ip]
      /\ UNCHANGED <<json, path, promised, buried, torn>>
  BY <1>0, InsertFacts DEF disk, ghost
<1>2. act[a].cmd = "spawn" /\ Adding(a)
  BY <1>0, <1>1 DEF InPlace, Idle, Adding
<1>3. act[a].ip \notin DOMAIN nodes
  BY <1>0, <1>2 DEF NamesApart, Taken
<1>4. \A ip \in DOMAIN nodes' : \/ ip \in DOMAIN nodes /\ nodes'[ip] = nodes[ip]
                                \/ /\ ip = act[a].ip
                                   /\ nodes'[ip].name = act[a].name /\ nodes'[ip].image = act[a].image
  BY <1>1
<1>5. DisksOf(a)'
  <2>1. \A ip \in DOMAIN nodes' : path[nodes'[ip].name] = nodes'[ip].image
    BY <1>1, <1>2, <1>4 DEF DisksOf, UnracedOf
  <2> QED
    BY <1>1, <1>2, <2>1 DEF DisksOf, Keeps
<1>6. ASSUME FilesOf(a) PROVE FilesOf(a)'
  BY <1>1, <1>6 DEF FilesOf, Changing
<1>7. ASSUME PromisesOf(a) PROVE PromisesOf(a)'
  BY <1>1, <1>2, <1>3, <1>4, <1>7 DEF PromisesOf, Adding, Keeps
<1> QED
  BY <1>1, <1>5, <1>6, <1>7 DEF UnracedOf

\* SaveNetwork puts together what is in the map, empties the file and writes it.
LEMMA SoloSave ==
    ASSUME Base, NEW a \in Admins, UnracedOf(a), SaveCollect(a) \/ SaveTruncate(a) \/ SaveWrite(a)
    PROVE  UnracedOf(a)'
<1>0. a \in Actors /\ UNCHANGED <<nodes, path, promised, buried, torn>>
  BY DEF Actors, SaveCollect, SaveTruncate, SaveWrite, ghost
<1>1. Config' = Config
  BY <1>0 DEF Config
<1>2. /\ act[a].at \in {"mkdir", "truncate", "write"} /\ act[a].cmd \in {"spawn", "delete"}
      /\ act'[a].at \in {"truncate", "write", "done"}
      /\ act'[a].cmd = act[a].cmd /\ act'[a].name = act[a].name
      /\ act'[a].ip = act[a].ip /\ act'[a].image = act[a].image
  <2>1. act[a].at \in {"mkdir", "truncate", "write"}
    BY DEF SaveCollect, SaveTruncate, SaveWrite
  <2> QED
    BY <1>0, <2>1, SaveFacts DEF Keeps
<1>3. DisksOf(a)'
  BY <1>0, <1>2 DEF DisksOf, UnracedOf, Saving
<1>4. ASSUME FilesOf(a), PromisesOf(a), SaveCollect(a) PROVE FilesOf(a)' /\ PromisesOf(a)'
  <2>1. /\ act[a].at = "mkdir" /\ act'[a].at = "truncate" /\ act'[a].list = Config /\ folder' /\ json' = json
    BY <1>0, <1>4, SaveFacts DEF SaveCollect
  <2>2. FilesOf(a)'
    BY <1>1, <1>4, <2>1 DEF FilesOf, Changing
  <2> QED
    BY <1>0, <1>2, <1>4, <2>1, <2>2 DEF PromisesOf, Adding
<1>5. ASSUME FilesOf(a), PromisesOf(a), SaveTruncate(a) PROVE FilesOf(a)' /\ PromisesOf(a)'
  <2>1. act[a].at = "truncate" /\ folder /\ act[a].list = Config
    BY <1>5 DEF FilesOf, SaveTruncate
  <2>2. /\ act'[a].at = "write" /\ act'[a].list = Config /\ folder'
        /\ json' = [state |-> "empty", list |-> {}]
    BY <1>0, <1>5, <2>1, SaveFacts DEF SaveTruncate, Keeps
  <2>3. FilesOf(a)'
    BY <1>1, <2>2 DEF FilesOf, Changing
  <2> QED
    BY <1>0, <1>2, <1>5, <2>1, <2>2, <2>3 DEF PromisesOf, Adding
<1>6. ASSUME FilesOf(a), PromisesOf(a), SaveWrite(a) PROVE FilesOf(a)' /\ PromisesOf(a)'
  <2>1. act[a].at = "write" /\ json.state = "empty" /\ act[a].list = Config
    BY <1>6 DEF FilesOf, SaveWrite
  <2>2. act'[a].at = "done" /\ json'.list = Config /\ json'.state = "whole"
    BY <1>0, <1>6, <2>1, SaveFacts, SaveWriteFacts
  <2>3. FilesOf(a)'
    BY <1>1, <2>2 DEF FilesOf, Changing
  <2>4. \A p \in promised : [name |-> p.name, ip |-> p.ip] \in json'.list
    <3>1. ASSUME NEW p \in promised
          PROVE  [name |-> p.name, ip |-> p.ip] \in Config
      BY <1>6, <3>1 DEF PromisesOf, Config
    <3> QED
      BY <2>2, <3>1
  <2>5. \A e \in json'.list : e.name \notin buried
    BY <1>6, <2>2 DEF PromisesOf, Config
  <2> QED
    BY <1>0, <1>2, <1>6, <2>1, <2>2, <2>3, <2>4, <2>5 DEF PromisesOf, Adding
<1> QED
  BY <1>0, <1>3, <1>4, <1>5, <1>6 DEF UnracedOf

\* A spawn promises a node that is in the map, on its disk and in the file.
LEMMA SoloSpawnDone ==
    ASSUME Base, NEW a \in Admins, UnracedOf(a), SpawnDone(a)
    PROVE  UnracedOf(a)'
<1> DEFINE q == [name |-> act[a].name, ip |-> act[a].ip, image |-> act[a].image]
<1>0. /\ a \in Actors /\ act[a].at = "done" /\ act[a].cmd = "spawn" /\ promised' = promised \cup {q}
      /\ UNCHANGED <<nodes, json, folder, path, buried, torn>>
  BY DEF SpawnDone, Actors, disk
<1>1. act'[a] = Idle /\ Idle.at = "idle" /\ Idle.cmd = "none"
  BY <1>0, StepPlaces DEF Idle
<1>2. DisksOf(a)'
  BY <1>0, <1>1 DEF DisksOf, UnracedOf, Saving
<1>3. /\ act[a].ip \in DOMAIN nodes
      /\ nodes[act[a].ip].name = act[a].name /\ nodes[act[a].ip].image = act[a].image
      /\ path[act[a].name] = act[a].image /\ act[a].image # 0
  BY <1>0 DEF DisksOf, UnracedOf, Saving, Base, Stored, Node
<1>4. q.name = act[a].name /\ q.ip = act[a].ip /\ q.image = act[a].image
  OBVIOUS
<1>5. ASSUME FilesOf(a), PromisesOf(a) PROVE FilesOf(a)' /\ PromisesOf(a)'
  <2>1. json.list = Config /\ json.state \notin {"empty", "garbled"}
    BY <1>0, <1>5 DEF FilesOf
  <2>2. FilesOf(a)'
    BY <1>0, <1>1, <2>1 DEF FilesOf, Changing, Config
  <2>3. [name |-> q.name, ip |-> q.ip] \in json.list
    BY <1>3, <1>4, <2>1 DEF Config
  <2> HIDE DEF q
  <2>4. ASSUME NEW p \in promised'
        PROVE  /\ path[p.name] = p.image /\ p.image # 0
               /\ p.ip \in DOMAIN nodes /\ nodes[p.ip].name = p.name /\ nodes[p.ip].image = p.image
               /\ [name |-> p.name, ip |-> p.ip] \in json.list
    <3>1. CASE p = q
      BY <1>3, <1>4, <2>3, <3>1
    <3>2. CASE p \in promised
      BY <1>0, <1>5, <3>2 DEF PromisesOf
    <3> QED
      BY <1>0, <3>1, <3>2
  <2> QED
    BY <1>0, <1>1, <1>5, <2>2, <2>4 DEF PromisesOf, Adding
<1> QED
  BY <1>0, <1>2, <1>5 DEF UnracedOf

\* A delete takes away the node it has found, then its directory; no promise and
\* no other node is on either.
LEMMA SoloDelete ==
    ASSUME Base, NamesApart, NEW a \in Admins, UnracedOf(a),
           DeleteDrop(a) \/ DeleteRemove(a) \/ DeleteDone(a)
    PROVE  UnracedOf(a)'
<1>0. a \in Actors /\ InPlace(a) /\ a # Loader /\ path \in [Names -> 0 .. Len(image)]
      /\ nodes \in [DOMAIN nodes -> Node] /\ promised \subseteq [name : Names, ip : IPs, image : Nat]
  BY EngineAssumption DEF Base, Stored, Ghosts, Actors
<1>1. CASE DeleteDrop(a)
  <2>0. /\ act[a].at = "drop" /\ nodes' = Restrict(nodes, DOMAIN nodes \ {act[a].ip})
        /\ UNCHANGED <<json, folder, path, promised, buried, torn>>
    BY <1>1 DEF DeleteDrop, disk, ghost
  <2>1. act'[a].at = "remove" /\ Keeps(a) /\ act[a].cmd = "delete"
    BY <1>0, <1>1, <2>0, StepPlaces DEF InPlace, Idle
  <2>2. /\ DOMAIN nodes' = DOMAIN nodes \ {act[a].ip} /\ \A ip \in DOMAIN nodes' : nodes'[ip] = nodes[ip]
    BY <2>0 DEF Restrict
  <2>3. act[a].ip \in DOMAIN nodes /\ nodes[act[a].ip].name = act[a].name
    BY <2>0 DEF DisksOf, UnracedOf
  <2>4. \A ip \in DOMAIN nodes' : nodes'[ip].name # act[a].name
    BY <2>2, <2>3 DEF NamesApart
  <2>5. DisksOf(a)'
    BY <2>0, <2>1, <2>2, <2>4 DEF DisksOf, UnracedOf, Saving, Keeps
  <2>6. ASSUME FilesOf(a) PROVE FilesOf(a)'
    BY <2>0, <2>1, <2>6 DEF FilesOf, Changing
  <2>7. ASSUME PromisesOf(a) PROVE PromisesOf(a)'
    <3>1. ASSUME NEW p \in promised
          PROVE  p.ip \in DOMAIN nodes' /\ nodes'[p.ip].name = p.name /\ nodes'[p.ip].image = p.image
      <4>1. /\ p.name # act[a].name
            /\ p.ip \in DOMAIN nodes /\ nodes[p.ip].name = p.name /\ nodes[p.ip].image = p.image
        BY <2>0, <2>1, <2>7, <3>1 DEF PromisesOf
      <4>2. p.ip # act[a].ip
        BY <2>3, <4>1
      <4> QED
        BY <2>2, <4>1, <4>2
    <3>2. \A ip \in DOMAIN nodes' : nodes'[ip].name \notin buried
      BY <2>2, <2>7 DEF PromisesOf
    <3> QED
      BY <2>0, <2>1, <2>7, <3>1, <3>2 DEF PromisesOf, Adding, Keeps
  <2> QED
    BY <2>0, <2>5, <2>6, <2>7 DEF UnracedOf
<1>2. CASE DeleteRemove(a)
  <2>0. /\ act[a].at = "remove" /\ path' = [path EXCEPT ![act[a].name] = 0]
        /\ UNCHANGED <<nodes, json, folder, promised, buried, torn>>
    BY <1>2 DEF DeleteRemove, ghost
  <2>1. act'[a].at = "mkdir" /\ Keeps(a) /\ act[a].cmd = "delete" /\ act[a].name \in Names
    BY <1>0, <1>2, <2>0, StepPlaces DEF InPlace, Idle
  <2>2. \A ip \in DOMAIN nodes : nodes[ip].name # act[a].name /\ nodes[ip].name \in Names
    BY <1>0, <2>0, <2>1 DEF DisksOf, UnracedOf, Node
  <2>3. DisksOf(a)'
    BY <1>0, <2>0, <2>1, <2>2 DEF DisksOf, UnracedOf, Saving, Keeps
  <2>4. ASSUME FilesOf(a) PROVE FilesOf(a)'
    BY <2>0, <2>1, <2>4 DEF FilesOf, Changing
  <2>5. ASSUME PromisesOf(a) PROVE PromisesOf(a)'
    BY <1>0, <2>0, <2>1, <2>5 DEF PromisesOf, Adding, Keeps
  <2> QED
    BY <2>0, <2>3, <2>4, <2>5 DEF UnracedOf
<1>3. CASE DeleteDone(a)
  <2>0. /\ act[a].at = "done" /\ act[a].cmd = "delete" /\ buried' = buried \cup {act[a].name}
        /\ UNCHANGED <<nodes, json, folder, path, promised, torn>>
    BY <1>3 DEF DeleteDone, disk
  <2>1. act'[a] = Idle /\ Idle.at = "idle" /\ Idle.cmd = "none"
    BY <1>0, <1>3, StepPlaces DEF Idle
  <2>2. \A ip \in DOMAIN nodes : nodes[ip].name # act[a].name
    BY <2>0 DEF DisksOf, UnracedOf, Saving
  <2>3. DisksOf(a)'
    BY <2>0, <2>1 DEF DisksOf, UnracedOf, Saving
  <2>4. ASSUME FilesOf(a) PROVE FilesOf(a)' /\ \A e \in json.list : e.name # act[a].name
    <3>1. json.list = Config /\ json.state \notin {"empty", "garbled"}
      BY <2>0, <2>4 DEF FilesOf
    <3>2. \A e \in json.list : e.name # act[a].name
      BY <2>2, <3>1 DEF Config
    <3> QED
      BY <2>0, <2>1, <3>1, <3>2 DEF FilesOf, Changing, Config
  <2>5. ASSUME FilesOf(a), PromisesOf(a) PROVE PromisesOf(a)'
    BY <2>0, <2>1, <2>2, <2>4, <2>5 DEF PromisesOf, Adding
  <2> QED
    BY <2>0, <2>3, <2>4, <2>5 DEF UnracedOf
<1> QED
  BY <1>1, <1>2, <1>3

\* A reset has given every node up, and leaves neither files nor nodes.
LEMMA SoloReset ==
    ASSUME Base, NEW a \in Admins, UnracedOf(a), ResetWipe(a) \/ ResetClear(a)
    PROVE  UnracedOf(a)'
<1>0. a \in Actors /\ InPlace(a) /\ a # Loader /\ Stored /\ Ghosts
  BY EngineAssumption DEF Base, Actors
<1>1. CASE ResetWipe(a)
  <2>0. act[a].at = "wipe" /\ UNCHANGED <<nodes, promised, buried, torn>>
    BY <1>1 DEF ResetWipe, ghost
  <2>1. act[a].cmd = "reset" /\ act'[a].cmd = "reset" /\ act'[a].at \in {"wipe", "clear"}
    BY <1>0, <1>1, <2>0, StepPlaces DEF InPlace, Idle, Keeps
  <2>2. json' = json \/ json' = [state |-> "absent", list |-> {}]
    BY <1>1 DEF ResetWipe
  <2>3. act'[a].at = "clear" => json'.state = "absent"
    BY <1>1, <2>0 DEF ResetWipe
  <2>4. DisksOf(a)'
    BY <2>1 DEF DisksOf, Saving
  <2>5. ASSUME FilesOf(a) PROVE FilesOf(a)'
    BY <2>0, <2>1, <2>2, <2>3, <2>5 DEF FilesOf, Changing
  <2>6. ASSUME PromisesOf(a) PROVE PromisesOf(a)'
    BY <2>0, <2>1, <2>2, <2>6 DEF PromisesOf, Adding
  <2> QED
    BY <2>0, <2>4, <2>5, <2>6 DEF UnracedOf
<1>2. CASE ResetClear(a)
  <2>0. /\ act[a].at = "clear" /\ nodes' = NoNodes /\ DOMAIN nodes' = {} /\ buried' = Names
        /\ UNCHANGED <<json, folder, path, promised, torn>>
    BY <1>2 DEF ResetClear, disk, NoNodes
  <2>1. act'[a] = Idle /\ Idle.at = "idle" /\ Idle.cmd = "none"
    BY <1>0, <1>2, StepPlaces DEF Idle
  <2>5. act[a].cmd = "reset"
    BY <1>0, <2>0 DEF InPlace, Idle
  <2>2. DisksOf(a)'
    BY <2>0, <2>1 DEF DisksOf, Saving
  <2>3. ASSUME FilesOf(a) PROVE FilesOf(a)' /\ json.list = {}
    <3>1. json.state = "absent" /\ json.list = {}
      BY <1>0, <2>0, <2>3 DEF FilesOf, Stored
    <3> QED
      BY <2>0, <2>1, <3>1 DEF FilesOf, Changing, Config
  <2>4. ASSUME FilesOf(a), PromisesOf(a) PROVE PromisesOf(a)'
    BY <2>0, <2>1, <2>3, <2>4, <2>5 DEF PromisesOf, Adding
  <2> QED
    BY <2>0, <2>2, <2>3, <2>4 DEF UnracedOf
<1> QED
  BY <1>1, <1>2

\* Every step of a that changes the network, while a is alone.
LEMMA SoloStep ==
    ASSUME Base, Base', NamesApart, NEW a \in Admins, Solo(a), Changing(a), Unraced, Step(a)
    PROVE  Unraced'
<1>0. a \in Actors /\ Others(a) /\ UNCHANGED state /\ UnracedOf(a)
  BY StepOthers, SoloUnraced DEF Actors
<1>1. Solo(a)'
  BY <1>0 DEF Solo, Changing, Others, Actors
<1>2. UnracedOf(a)'
  <2>1. ~SpawnLock(a) /\ ~SpawnCheck(a) /\ ~DeleteLookup(a) /\ ~AddUserFind(a) /\ ~AddUserWrite(a)
          /\ ~ListRange(a) /\ ~ListCut(a)
    BY DEF Changing, SpawnLock, SpawnCheck, DeleteLookup, AddUserFind, AddUserWrite, ListRange, ListCut
  <2> QED
    BY <1>0, <2>1, SoloOpen, SoloFormat, SoloInsert, SoloSave, SoloSpawnDone, SoloDelete, SoloReset DEF Step
<1> QED
  BY <1>1, <1>2, SoloUnracedAfter

\* Who begins to change the network, with nobody else at it, finds it in order.
LEMMA SoloEnter ==
    ASSUME Base, Base', NEW a \in Admins, Unraced, ~raced', ~Changing(a), Enters(a), state = "up",
           Others(a), UNCHANGED <<state, nodes, json, folder, path, torn>>,
           \/ /\ act'[a].at = "open" /\ act'[a].cmd = "spawn" /\ buried' = buried \ {act'[a].name}
              /\ UNCHANGED promised
           \/ /\ act'[a].at = "drop" /\ act'[a].cmd = "delete"
              /\ act'[a].ip \in DOMAIN nodes /\ nodes[act'[a].ip].name = act'[a].name
              /\ promised' = {p \in promised : p.name # act'[a].name} /\ UNCHANGED buried
           \/ act'[a].at = "wipe" /\ act'[a].cmd = "reset" /\ promised' = {} /\ UNCHANGED buried
    PROVE  Unraced'
<1>1. Solo(a) /\ Solo(a)'
  BY DEF Solo, Enters, Others, Changing, Actors
<1>2. UnracedOf(a)
  BY <1>1, SoloUnraced
<1>3. act[a].cmd # "reset" /\ act[a].at # "write"
  BY NotChanging
<1>4. DisksOf(a)'
  BY <1>2, <1>3 DEF UnracedOf, DisksOf, Saving
<1>5. ASSUME FilesOf(a) PROVE FilesOf(a)'
  BY <1>3, <1>5 DEF FilesOf, Changing, Config
<1>6. ASSUME PromisesOf(a) PROVE PromisesOf(a)'
  BY <1>3, <1>6 DEF PromisesOf, Adding
<1>7. UnracedOf(a)'
  BY <1>2, <1>4, <1>5, <1>6 DEF UnracedOf
<1> QED
  BY <1>1, <1>7, SoloUnracedAfter

\* The steps of a command that does not change the network disturb nobody.
LEMMA QuietUnraced ==
    ASSUME Base, Base', NEW a \in Admins, Unraced, ~Changing(a), ~Changing(a)', state = "up",
           Others(a), UNCHANGED <<state, nodes, json, folder, path, torn, promised, buried>>
    PROVE  Unraced'
<1>1. /\ act[a].at \notin {"open", "format", "insert", "mkdir", "truncate", "write", "done",
                           "drop", "remove", "wipe", "clear"}
      /\ act[a].cmd # "reset" /\ ~Saving(a) /\ ~Adding(a) /\ a \in Actors
  BY NotChanging
<1>2. /\ act'[a].at \notin {"open", "format", "insert", "mkdir", "truncate", "write", "done",
                            "drop", "remove", "wipe", "clear"}
      /\ act'[a].cmd # "reset" /\ (act'[a].cmd = "delete" => act'[a].at = "lookup")
      /\ ~Saving(a)' /\ ~Adding(a)'
  BY NotChangingAfter
<1>3. ASSUME NEW b \in Actors, b # a
      PROVE  /\ act'[b] = act[b] /\ (Changing(b)' <=> Changing(b)) /\ (Saving(b)' <=> Saving(b))
             /\ (Adding(b)' <=> Adding(b))
  BY <1>3 DEF Others, Changing, Saving, Adding
<1>4. Admins \subseteq Actors /\ Config' = Config
  BY DEF Actors, Config
<1>5. Disks'
  <2>1. Alone'
    BY <1>3, <1>4 DEF Alone, Disks, Unraced
  <2>2. NoReset' <=> NoReset
    BY <1>1, <1>2, <1>3, <1>4 DEF NoReset
  <2> QED
    BY <1>1, <1>2, <1>3, <1>4, <2>1, <2>2 DEF Disks, Unraced
<1>6. ASSUME Files PROVE Files'
  BY <1>1, <1>2, <1>3, <1>4, <1>6 DEF Files
<1>7. ASSUME Promises PROVE Promises'
  <2>1. ASSUME NEW p \in promised
        PROVE  [name |-> p.name, ip |-> p.ip] \in json.list \/ \E b \in Admins : act'[b].at = "write"
    BY <1>1, <1>3, <1>4, <1>7 DEF Promises
  <2>2. \A b \in Admins : /\ act'[b].cmd = "reset" => promised = {}
                          /\ act'[b].cmd = "delete" /\ act'[b].at # "lookup" =>
                               \A p \in promised : p.name # act'[b].name
    BY <1>2, <1>3, <1>4, <1>7 DEF Promises
  <2>3. \A b \in Actors : Adding(b)' => act'[b].name \notin buried
    BY <1>2, <1>3, <1>7 DEF Promises
  <2> QED
    BY <1>7, <2>1, <2>2, <2>3 DEF Promises
<1> QED
  BY <1>5, <1>6, <1>7 DEF Unraced

(***************************************************************************)
(* Before connections are served.  What Unraced comes to then: network.json *)
(* lists the nodes that are in the map and those ahead.                     *)
(***************************************************************************)
Started ==
    /\ \A ip \in DOMAIN nodes : path[nodes[ip].name] = nodes[ip].image
    /\ act[Loader].at \in {"format", "insert"} => path[act[Loader].name] = act[Loader].image
    /\ ~torn =>
          /\ json.state \notin {"empty", "garbled"}
          /\ state = "loading" => json.list = Config \cup Ahead
          /\ \A p \in promised : /\ path[p.name] = p.image /\ p.image # 0
                                 /\ [name |-> p.name, ip |-> p.ip] \in json.list
          /\ \A ip \in DOMAIN nodes : nodes[ip].name \notin buried
          /\ \A e \in json.list : e.name \notin buried
          /\ Adding(Loader) => act[Loader].name \notin buried

\* Nobody is connected.
LEMMA StartedUnraced ==
    ASSUME Base, state # "up"
    PROVE  Unraced <=> Started
<1>0. Actors = Admins \cup {Loader} /\ Loader \notin Admins
  BY EngineAssumption DEF Actors
<1>1. ASSUME NEW b \in Admins
      PROVE  act[b].at = "idle" /\ act[b].cmd = "none" /\ ~Changing(b) /\ ~Saving(b) /\ ~Adding(b)
  <2>1. InPlace(b) /\ b # Loader
    BY <1>0 DEF Base
  <2>2. act[b] = Idle
    BY <2>1 DEF InPlace
  <2> QED
    BY <2>2 DEF Idle, Changing, Saving, Adding
<1>2. Disks <=> /\ \A ip \in DOMAIN nodes : path[nodes[ip].name] = nodes[ip].image
                /\ act[Loader].at \in {"format", "insert"} => path[act[Loader].name] = act[Loader].image
  BY <1>0, <1>1 DEF Disks, Alone, NoReset
<1>3. Files <=> /\ json.state \notin {"empty", "garbled"}
                /\ state = "loading" => json.list = Config \cup Ahead
  BY <1>0, <1>1 DEF Files
<1>4. Promises <=>
          /\ \A p \in promised : /\ path[p.name] = p.image /\ p.image # 0
                                 /\ [name |-> p.name, ip |-> p.ip] \in json.list
          /\ \A ip \in DOMAIN nodes : nodes[ip].name \notin buried
          /\ \A e \in json.list : e.name \notin buried
          /\ Adding(Loader) => act[Loader].name \notin buried
  BY <1>0, <1>1 DEF Promises
<1> QED
  BY <1>2, <1>3, <1>4 DEF Unraced, Started

\* The same after a step.
LEMMA StartedUnracedAfter == (Base /\ state # "up" => (Unraced <=> Started))'
<1>1. Base /\ state # "up" => (Unraced <=> Started)
  BY StartedUnraced
<1> QED
  BY <1>1, PTL

\* LoadNetwork opens the disks it finds and enters every node of the file.
LEMMA LoaderUnraced ==
    ASSUME Base, Base', NamesApart, Unraced, Step(Loader)
    PROVE  Unraced'
<1>0. /\ Loader \in Actors /\ Loader \notin Admins /\ state = "loading" /\ state' = "loading" /\ Adding(Loader)
      /\ path \in [Names -> 0 .. Len(image)] /\ nodes \in [DOMAIN nodes -> Node]
      /\ promised \subseteq [name : Names, ip : IPs, image : Nat] /\ Started
  BY StepOthers, EngineAssumption, StartedUnraced DEF Actors, Base, Stored, Ghosts
<1> DEFINE n == act[Loader].name
<1>1. CASE Open(Loader)
  <2>1. PICK i \in 1 .. MaxImages : Opens(Loader, i)
    BY <1>0, <1>1, OpenFacts
  <2>2. /\ n \in Names /\ i = (IF path[n] = 0 THEN Len(image) + 1 ELSE path[n])
        /\ path' = [path EXCEPT ![n] = i]
        /\ act'[Loader].image = i /\ act'[Loader].name = n /\ act'[Loader].ip = act[Loader].ip
        /\ act'[Loader].list = act[Loader].list /\ Adding(Loader)'
        /\ UNCHANGED <<nodes, json, promised, buried, torn>>
    BY <1>0, <2>1 DEF Opens, ghost, Adding
  <2>3. \A ip \in DOMAIN nodes : nodes[ip].name # n /\ nodes[ip].name \in Names
    BY <1>0 DEF NamesApart, Taken, Node
  <2>4. Config' = Config /\ Ahead' = Ahead
    BY <1>0, <2>2 DEF Config, Ahead
  <2>5. \A ip \in DOMAIN nodes : path'[nodes[ip].name] = nodes[ip].image
    BY <1>0, <2>2, <2>3 DEF Started
  <2>6. ~torn => \A p \in promised : path'[p.name] = p.image
    BY <1>0, <2>2 DEF Started
  <2>7. path'[n] = i
    BY <1>0, <2>2
  <2>8. Started'
    BY <1>0, <2>2, <2>4, <2>5, <2>6, <2>7 DEF Started
  <2> QED
    BY <1>0, <2>8, StartedUnracedAfter
<1>2. CASE Format(Loader)
  <2>1. /\ act[Loader].at = "format" /\ Adding(Loader)' /\ Keeps(Loader)
        /\ UNCHANGED <<nodes, json, path, promised, buried, torn>>
    BY <1>0, <1>2, FormatFacts DEF ghost, Adding
  <2>2. Config' = Config /\ Ahead' = Ahead
    BY <1>0, <2>1 DEF Config, Ahead, Keeps
  <2>3. Started'
    BY <1>0, <2>1, <2>2 DEF Started, Keeps
  <2> QED
    BY <1>0, <2>3, StartedUnracedAfter
<1>3. CASE Insert(Loader)
  <2>1. /\ act[Loader].at = "insert" /\ act'[Loader].at = "next" /\ Keeps(Loader)
        /\ DOMAIN nodes' = DOMAIN nodes \cup {act[Loader].ip}
        /\ nodes'[act[Loader].ip] = [name |-> n, image |-> act[Loader].image]
        /\ \A ip \in DOMAIN nodes : ip # act[Loader].ip => nodes'[ip] = nodes[ip]
        /\ UNCHANGED <<json, path, promised, buried, torn>>
    BY <1>0, <1>3, InsertFacts DEF disk, ghost
  <2>2. act[Loader].ip \notin DOMAIN nodes
    BY <1>0 DEF NamesApart, Taken
  <2>3. nodes'[act[Loader].ip].name = n /\ nodes'[act[Loader].ip].image = act[Loader].image
    BY <2>1
  <2>4. \A ip \in DOMAIN nodes' : \/ ip \in DOMAIN nodes /\ nodes'[ip] = nodes[ip]
                                  \/ ip = act[Loader].ip
    BY <2>1
  <2>5. Config' = Config \cup {[name |-> n, ip |-> act[Loader].ip]}
    BY <2>1, <2>2, <2>3, <2>4 DEF Config
  <2>6. Ahead = act[Loader].list \cup {[name |-> n, ip |-> act[Loader].ip]} /\ Ahead' = act[Loader].list
    BY <1>0, <2>1 DEF Ahead, Adding, Keeps
  <2>7. Config' \cup Ahead' = Config \cup Ahead
    BY <2>5, <2>6
  <2>8. ~Adding(Loader)' /\ act'[Loader].at \notin {"format", "insert"}
    BY <2>1 DEF Adding
  <2>9. \A ip \in DOMAIN nodes' : path[nodes'[ip].name] = nodes'[ip].image
    BY <1>0, <2>1, <2>3, <2>4 DEF Started
  <2>10. ~torn => \A ip \in DOMAIN nodes' : nodes'[ip].name \notin buried
    BY <1>0, <2>3, <2>4 DEF Started
  <2>11. Started'
    BY <1>0, <2>1, <2>7, <2>8, <2>9, <2>10 DEF Started
  <2> QED
    BY <1>0, <2>11, StartedUnracedAfter
<1> QED
  <2>1. ~SpawnLock(Loader) /\ ~SpawnCheck(Loader) /\ ~DeleteLookup(Loader) /\ ~AddUserFind(Loader)
          /\ ~AddUserWrite(Loader) /\ ~ListRange(Loader) /\ ~ListCut(Loader)
    BY <1>0 DEF Adding, SpawnLock, SpawnCheck, DeleteLookup, AddUserFind, AddUserWrite, ListRange, ListCut
  <2>2. ~SaveCollect(Loader) /\ ~SaveTruncate(Loader) /\ ~SaveWrite(Loader) /\ ~SpawnDone(Loader)
          /\ ~DeleteDrop(Loader) /\ ~DeleteRemove(Loader) /\ ~DeleteDone(Loader)
          /\ ~ResetWipe(Loader) /\ ~ResetClear(Loader)
    BY <1>0 DEF Adding, SaveCollect, SaveTruncate, SaveWrite, SpawnDone, DeleteDrop, DeleteRemove, DeleteDone,
       ResetWipe, ResetClear
  <2> QED
    BY <1>1, <1>2, <1>3, <2>1, <2>2 DEF Step

\* The file that is read has every promise; at its end the map has every entry.
LEMMA LoadUnraced ==
    ASSUME Base, Base', NamesApart, Unraced, Restart \/ LoadNext
    PROVE  Unraced'
<1>0. Loader \in Actors /\ Loader \notin Admins /\ Actors = Admins \cup {Loader}
  BY EngineAssumption DEF Actors
<1>1. CASE Restart
  <2>1. /\ act'[Loader].at = "next" /\ act'[Loader].list = json.list /\ state = "down" /\ state' = "loading"
        /\ UNCHANGED <<nodes, json, path, promised, buried, torn>>
    BY <1>1, RestartFacts DEF disk, ghost
  <2>2. nodes = NoNodes /\ DOMAIN nodes = {}
    BY <2>1 DEF NamesApart, NoNodes
  <2>3. Config' = {} /\ Ahead' = json.list /\ ~Adding(Loader)'
    BY <2>1, <2>2 DEF Config, Ahead, Adding
  <2>4. Started
    BY <2>1, StartedUnraced
  <2>5. Started'
    BY <2>1, <2>2, <2>3, <2>4 DEF Started
  <2> QED
    BY <2>1, <2>5, StartedUnracedAfter
<1>2. CASE LoadNext
  <2>0. /\ act[Loader].at = "next" /\ state = "loading" /\ Others(Loader)
        /\ UNCHANGED <<nodes, json, path, promised, buried, torn>> /\ Config' = Config
    BY <1>2, LoadNextFacts DEF disk, ghost, Config
  <2>1. Started /\ ~Adding(Loader) /\ Ahead = act[Loader].list
    BY <2>0, StartedUnraced DEF Adding, Ahead
  <2>2. ASSUME NEW e \in act[Loader].list, e \in Entry, state' = state, act'[Loader].at = "open",
               act'[Loader].name = e.name, act'[Loader].ip = e.ip, act'[Loader].list = act[Loader].list \ {e}
        PROVE  Unraced'
    <3>1. e = [name |-> e.name, ip |-> e.ip]
      BY <2>2 DEF Entry
    <3>2. Adding(Loader)' /\ Ahead' = (act[Loader].list \ {e}) \cup {[name |-> e.name, ip |-> e.ip]}
      BY <2>2 DEF Adding, Ahead
    <3>3. Ahead' = Ahead
      BY <2>1, <2>2, <3>1, <3>2
    <3>4. ~torn => e.name \notin buried
      BY <2>0, <2>1, <2>2 DEF Started
    <3>5. Started'
      BY <2>0, <2>1, <2>2, <3>2, <3>3, <3>4 DEF Started
    <3> QED
      BY <2>0, <2>2, <3>5, StartedUnracedAfter
  <2>3. CASE act[Loader].list = {} /\ act'[Loader] = Idle /\ state' = "up"
    <3>1. ASSUME NEW b \in Actors
          PROVE  /\ act'[b].at = "idle" /\ act'[b].cmd = "none"
                 /\ ~Changing(b)' /\ ~Saving(b)' /\ ~Adding(b)'
      <4>1. CASE b \in Admins
        <5>1. InPlace(b) /\ b # Loader
          BY <1>0, <4>1 DEF Base
        <5>2. act'[b] = Idle
          BY <2>0, <5>1 DEF InPlace, Others
        <5> QED
          BY <5>2 DEF Idle, Changing, Saving, Adding
      <4>2. CASE b = Loader
        BY <2>3, <4>2 DEF Idle, Changing, Saving, Adding
      <4> QED
        BY <1>0, <4>1, <4>2
    <3>2. Disks'
      BY <1>0, <2>0, <2>1, <3>1 DEF Disks, Alone, Started
    <3>3. ASSUME ~torn PROVE json.list = Config /\ json.state \notin {"empty", "garbled"}
      BY <2>0, <2>1, <2>3, <3>3 DEF Started
    <3>4. ASSUME ~torn PROVE Files'
      BY <1>0, <2>0, <2>3, <3>1, <3>3, <3>4 DEF Files
    <3>5. ASSUME ~torn, NEW p \in promised
          PROVE  p.ip \in DOMAIN nodes /\ nodes[p.ip].name = p.name /\ nodes[p.ip].image = p.image
      <4>1. [name |-> p.name, ip |-> p.ip] \in Config /\ path[p.name] = p.image
        BY <2>1, <3>3, <3>5 DEF Started
      <4>2. p.ip \in DOMAIN nodes /\ nodes[p.ip].name = p.name
        BY <4>1 DEF Config
      <4> QED
        BY <2>1, <4>1, <4>2 DEF Started
    <3>6. ASSUME ~torn PROVE Promises'
      BY <1>0, <2>0, <2>1, <2>3, <3>1, <3>5, <3>6 DEF Promises, Started
    <3> QED
      BY <2>0, <3>2, <3>4, <3>6 DEF Unraced
  <2> QED
    BY <1>2, <2>2, <2>3, LoadNextFacts
<1> QED
  BY <1>1, <1>2

\* A death leaves the disks as they are, and a file that can be read unless the
\* engine was writing it.
LEMMA StopUnraced ==
    ASSUME Base, Base', Unraced, Stop
    PROVE  Unraced'
<1>1. /\ state' = "down" /\ nodes' = NoNodes /\ DOMAIN nodes' = {} /\ act' = [a \in Actors |-> Idle]
      /\ torn' = (torn \/ json.state \in {"empty", "garbled"})
      /\ Loader \in Actors /\ UNCHANGED <<json, path, promised, buried>>
  BY DEF Stop, NoNodes, disk, Actors
<1>2. act'[Loader].at = "idle" /\ ~Adding(Loader)'
  BY <1>1 DEF Idle, Adding
<1>3. ASSUME ~torn'
      PROVE  /\ ~torn /\ json.state \notin {"empty", "garbled"} /\ Files /\ Promises
             /\ \A b \in Admins : act[b].at # "write"
  BY <1>1, <1>3 DEF Unraced, Files
<1>4. Started'
  BY <1>1, <1>2, <1>3 DEF Started, Promises
<1> QED
  BY <1>1, <1>4, StartedUnracedAfter

\* Nothing has been promised at first.
LEMMA InitUnraced == Init => Unraced
<1> SUFFICES ASSUME Init PROVE Unraced
  OBVIOUS
<1>1. /\ nodes = NoNodes /\ act = [b \in Actors |-> Idle] /\ DOMAIN nodes = {} /\ Loader \in Actors
      /\ state = "down" /\ promised = {} /\ buried = {}
  BY DEF Init, NoNodes, Actors
<1>2. json.state \in {"absent", "whole"}
  BY DEF Init
<1>3. act[Loader].at = "idle" /\ ~Adding(Loader)
  BY <1>1 DEF Idle, Adding
<1>4. Started
  BY <1>1, <1>2, <1>3 DEF Started
<1> QED
  BY <1>1, <1>4, InitBase, StartedUnraced

\* As long as no changes overlap, every step keeps Unraced.
LEMMA NextUnraced ==
    ASSUME Base, Base', NamesApart, [Next]_vars, ~raced => Unraced
    PROVE  (~raced => Unraced)'
<1>0. ASSUME raced PROVE raced'
  <2>1. ASSUME NEW a \in Actors, Step(a) PROVE raced'
    BY <1>0, <2>1 DEF Step, Open, Format, Insert, SaveCollect, SaveTruncate, SaveWrite, SpawnLock, SpawnCheck,
       SpawnDone, DeleteLookup, DeleteDrop, DeleteRemove, DeleteDone, ResetWipe, ResetClear, AddUserFind,
       AddUserWrite, ListRange, ListCut, ghost, Enters
  <2>2. ASSUME NEW a \in Admins, Command(a) PROVE raced'
    BY <1>0, <2>2, CommandFacts DEF ghost, Enters
  <2>3. CASE Stop \/ Restart \/ LoadNext \/ UNCHANGED vars \/ \E c \in Clients : ClientList(c) \/ ClientPick(c)
    BY <1>0, <2>3 DEF Stop, Restart, LoadNext, vars, ClientList, ClientPick, ghost
  <2> QED
    BY <2>1, <2>2, <2>3 DEF Next, Panic, Die
<1> SUFFICES ASSUME ~raced', Unraced PROVE Unraced'
  BY <1>0
<1>1. ASSUME NEW a \in Admins, Step(a) PROVE Unraced'
  <2>0. a \in Actors /\ Others(a) /\ state = "up" /\ UNCHANGED state /\ InPlace(a) /\ a # Loader
    BY <1>1, StepOthers, EngineAssumption DEF Actors, Base
  <2>1. CASE Changing(a)
    <3>1. Solo(a)
      BY <1>0, <2>0, <2>1 DEF Solo, Unraced, Disks, Alone
    <3> QED
      BY <1>1, <2>1, <3>1, SoloStep
  <2>2. CASE SpawnCheck(a)
    <3>1. /\ act[a].at = "check" /\ act[a].cmd = "spawn" /\ ~Changing(a)
          /\ UNCHANGED <<nodes, json, folder, path, torn, promised>>
      BY <2>0, <2>2 DEF SpawnCheck, disk, InPlace, Idle, Changing
    <3>2. CASE act'[a] = Idle /\ Refused(a)
      BY <2>0, <2>2, <3>1, <3>2, QuietUnraced DEF SpawnCheck, Changing, Idle
    <3>3. CASE ~Refused(a) /\ act'[a].at = "open" /\ Keeps(a)
      <4>1. Enters(a) /\ buried' = buried \ {act'[a].name} /\ act'[a].cmd = "spawn"
        BY <2>2, <3>1, <3>3 DEF SpawnCheck, Keeps
      <4> QED
        BY <2>0, <3>1, <3>3, <4>1, SoloEnter
    <3> QED
      BY <2>0, <2>2, <3>2, <3>3, StepPlaces
  <2>3. CASE DeleteLookup(a)
    <3>1. /\ act[a].at = "lookup" /\ act[a].cmd = "delete" /\ ~Changing(a)
          /\ UNCHANGED <<nodes, json, folder, path, torn, buried>>
      BY <2>0, <2>3 DEF DeleteLookup, disk, InPlace, Idle, Changing
    <3>2. CASE act'[a] = Idle /\ UNCHANGED <<promised, raced>>
      BY <2>0, <3>1, <3>2, QuietUnraced DEF Changing, Idle
    <3>3. CASE /\ act'[a].at = "drop" /\ act'[a].ip \in DOMAIN nodes
               /\ nodes[act'[a].ip].name = act[a].name
               /\ act'[a].cmd = act[a].cmd /\ act'[a].name = act[a].name
               /\ act'[a].list = act[a].list
               /\ promised' = {p \in promised : p.name # act[a].name} /\ Enters(a)
      BY <2>0, <3>1, <3>3, SoloEnter
    <3> QED
      BY <2>0, <2>3, <3>2, <3>3, StepPlaces
  <2>4. CASE SpawnLock(a) \/ AddUserFind(a) \/ AddUserWrite(a) \/ ListRange(a) \/ ListCut(a)
    <3>1. ~Changing(a) /\ UNCHANGED <<nodes, json, folder, path, torn, promised, buried>>
      BY <2>4 DEF SpawnLock, AddUserFind, AddUserWrite, ListRange, ListCut, Changing, disk, ghost
    <3>2. ~Changing(a)'
      BY <2>0, <2>4, StepPlaces DEF Changing, Idle
    <3> QED
      BY <2>0, <3>1, <3>2, QuietUnraced
  <2> QED
    BY <1>1, <2>1, <2>2, <2>3, <2>4 DEF Step, Changing, Open, Format, Insert, SaveCollect, SaveTruncate, SaveWrite,
       SpawnDone, DeleteDrop, DeleteRemove, DeleteDone, ResetWipe, ResetClear
<1>2. CASE Step(Loader)
  BY <1>2, LoaderUnraced
<1>3. ASSUME NEW a \in Admins, Command(a) PROVE Unraced'
  <2>1. /\ a \in Actors /\ Others(a) /\ state = "up" /\ ~Changing(a)
        /\ UNCHANGED <<state, nodes, json, folder, path, torn, buried>>
    BY <1>3, CommandFacts DEF disk, Changing
  <2>2. CASE act'[a].at = "wipe" /\ act'[a].cmd = "reset" /\ promised' = {} /\ Enters(a)
    BY <2>1, <2>2, SoloEnter
  <2>3. CASE act'[a].at \in {"lock", "lookup", "find", "range", "blank"} /\ UNCHANGED ghost
    BY <2>1, <2>3, QuietUnraced DEF Changing, ghost
  <2> QED
    BY <1>3, <2>2, <2>3, CommandFacts
<1>4. CASE Stop
  BY <1>4, StopUnraced
<1>5. CASE Restart \/ LoadNext
  BY <1>5, LoadUnraced
<1>6. CASE UNCHANGED <<state, nodes, json, folder, path, act, torn, promised, buried>>
  <2>1. Disks'
    BY <1>6 DEF Unraced, Disks, Alone, NoReset, Saving, Changing
  <2>2. ASSUME Files PROVE Files'
    BY <1>6, <2>2 DEF Files, Changing, Config, Ahead, Adding
  <2>3. ASSUME Promises PROVE Promises'
    BY <1>6, <2>3 DEF Promises, Adding
  <2> QED
    BY <1>6, <2>1, <2>2, <2>3 DEF Unraced
<1>7. CASE UNCHANGED vars \/ \E c \in Clients : ClientList(c) \/ ClientPick(c)
  BY <1>6, <1>7 DEF ClientList, ClientPick, vars, disk, ghost
<1> QED
  BY <1>1, <1>2, <1>3, <1>4, <1>5, <1>7 DEF Next, Panic, Die, Actors

\* The account of the network holds until changes overlap.
LEMMA UnracedInvariance == Spec => [](Base /\ (~raced => Unraced))
<1>1. Base /\ Base' /\ NamesApart /\ [Next]_vars /\ (~raced => Unraced) => (~raced => Unraced)'
  BY NextUnraced
<1>2. Init => (~raced => Unraced)
  BY InitUnraced
<1> QED
  BY <1>1, <1>2, NamesInvariance, PTL DEF Spec

\* All of it together is an invariant of every run of the engine.
LEMMA Invariance == Spec => []IInv
BY NamesInvariance, BootsInvariance, UnracedInvariance, PTL DEF IInv

\* A node works on the disk.img in its directory, unless a reset is wiping or a
\* delete or reset overlapped a change (handle_admin.go:192-204).
THEOREM DisksInPlace == Spec => []DiskInPlace
<1>1. Base /\ (~raced => Unraced) => DiskInPlace
  BY DEF Unraced, Disks, NoReset, DiskInPlace
<1> QED
  BY <1>1, UnracedInvariance, PTL

\* Between commands network.json lists exactly the nodes there are, unless
\* commands overlapped or the file was torn (persistance.go:25-49).
THEOREM NetworkSaved == Spec => []Saved
<1>1. Base /\ (~raced => Unraced) => Saved
  BY DEF Unraced, Files, Saved
<1> QED
  BY <1>1, UnracedInvariance, PTL

\* Short of overlaps and a torn file, an acknowledged spawn outlives every
\* restart, with its disk, and an acknowledged deletion is not undone
\* (handle_admin.go:122-126, 196-210, persistance.go:51-79).
THEOREM PromisesSurvive == Spec => []Survives
<1>1. ASSUME Base, ~raced => Unraced, state = "up", ~raced, ~torn
      PROVE  /\ \A p \in promised : p.ip \in DOMAIN nodes /\ nodes[p.ip] = [name |-> p.name, image |-> p.image]
             /\ \A ip \in DOMAIN nodes : nodes[ip].name \notin buried
  <2>1. Promises /\ nodes \in [DOMAIN nodes -> Node]
    BY <1>1 DEF Unraced, Base, Stored
  <2>2. \A ip \in DOMAIN nodes : nodes[ip] = [name |-> nodes[ip].name, image |-> nodes[ip].image]
    BY <2>1 DEF Node
  <2>3. ASSUME NEW p \in promised
        PROVE  p.ip \in DOMAIN nodes /\ nodes[p.ip] = [name |-> p.name, image |-> p.image]
    <3>1. p.ip \in DOMAIN nodes /\ nodes[p.ip].name = p.name /\ nodes[p.ip].image = p.image
      BY <1>1, <2>1, <2>3 DEF Promises
    <3> QED
      BY <2>2, <3>1
  <2> QED
    BY <2>1, <2>3 DEF Promises
<1>2. Base /\ (~raced => Unraced) => Survives
  BY <1>1 DEF Survives
<1> QED
  BY <1>2, UnracedInvariance, PTL
=============================================================================
