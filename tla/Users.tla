------------------------------- MODULE Users -------------------------------
(***************************************************************************)
(* The users of a node: /etc/passwd, which the program adduser             *)
(* (programs/adduser) and the admin command of that name                   *)
(* (engine/handle_admin.go) read, extend and write back in syscalls of     *)
(* their own, which login searches (programs/login), and the home          *)
(* directories NewSession makes (computer/computer.go).                    *)
(*                                                                         *)
(* A syscall is one step, since it holds fsMu; nothing is held between two.*)
(* NewSession is no syscall: its walks, its look into the inode cache and  *)
(* its inode write are steps that take no lock at all, and only its mkDir  *)
(* does.  A name is a value without colons; a password is either the right *)
(* one or not.  /root is made with the disk.                               *)
(***************************************************************************)
EXTENDS Integers, Sequences, FiniteSets, Functions

CONSTANTS
    UserNames,      \* names but root
    Adders,         \* goroutines that add users
    Logins,         \* goroutines of login
    NoName,         \* no name typed yet
    Prefix,         \* the first 13 bytes of a name, all of it when it is no longer
    Inums,          \* the inodes a home directory may get
    MaxChanges,     \* writes and removals of /etc/passwd
    MaxRemovals,    \* removals of home directories
    MaxDeaths       \* deaths of the engine

ASSUME UsersAssumption ==
    /\ NoName \notin UserNames
    /\ Prefix = [u \in UserNames |-> Prefix[u]]
    /\ Inums \subseteq Nat \ {0}

VARIABLES
    passwd,         \* whether /etc/passwd is there, and its lines
    add,            \* what each goroutine that adds a user is doing
    login,          \* what each login is doing
    home,           \* the inode /home/u leads to, 0 when there is none
    owner,          \* the owner of each inode, as getInode gives it
    stored,         \* and as the inode table on disk has it
    deaths,         \* deaths so far
    changes,        \* changes of passwd so far
    removals,       \* home directories removed so far
    acked,          \* names whose addition was reported
    lost,           \* a write went over a change made since it read
    doubled,        \* a write relied on a check made before another change
    orphans,        \* users whose directory root made, or a death kept from them
    strays          \* users whose directory another's login has written over

homes  == <<home, owner, stored, removals>>
ghost  == <<acked, lost, doubled>>
fates  == <<orphans, strays>>
vars   == <<passwd, add, login, homes, deaths, changes, ghost, fates>>

Line == [name : UserNames, uid : Nat]

\* stale: the readings that another change has overtaken, "check" for that of
\* the uniqueness check and "read" for the one the write is based on.
NoAdd == [at |-> "idle", name |-> NoName, uid |-> 0, lines |-> <<>>, stale |-> {}]

\* inum: the inode ResolvePath has found after mkDir.
NoLogin == [at |-> "idle", name |-> NoName, inum |-> 0]

Listed(lines, u) == \E k \in DOMAIN lines : lines[k].name = u

\* Mutant: counts from 0.
NewUIDZero(lines) == Len(lines)

\* Mutant: the last line is not counted.
NewUIDShort(lines) == IF lines = <<>> THEN 1000 ELSE 999 + Len(lines)

NewUID(lines) == 1000 + Len(lines)

Quit(a) == add' = [add EXCEPT ![a] = NoAdd]

-----------------------------------------------------------------------------
(* The program adduser. *)

\* A name was typed.  A file that cannot be read makes every name a duplicate.
IsUsernameUnique(a, u) ==
    /\ add[a].at = "idle"
    /\ passwd.there /\ ~Listed(passwd.lines, u)
    /\ add' = [add EXCEPT ![a] = [at |-> "password", name |-> u, uid |-> 0, lines |-> <<>>, stale |-> {}]]
    /\ UNCHANGED <<passwd, login, homes, deaths, changes, ghost, fates>>

\* Ctrl-C at the password prompt, or a lost connection.
Interrupted(a) ==
    /\ add[a].at = "password"
    /\ Quit(a)
    /\ UNCHANGED <<passwd, login, homes, deaths, changes, ghost, fates>>

\* The password was typed.
FindUID(a) ==
    /\ add[a].at = "password"
    /\ IF passwd.there
       THEN add' = [add EXCEPT ![a].at = "read", ![a].uid = NewUID(passwd.lines)]
       ELSE Quit(a)
    /\ UNCHANGED <<passwd, login, homes, deaths, changes, ghost, fates>>

\* Mutant: what is there is not read.
AddUserReadNothing(a) ==
    /\ add[a].at = "read"
    /\ add' = [add EXCEPT ![a].at = "write"]
    /\ UNCHANGED <<passwd, login, homes, deaths, changes, ghost, fates>>

\* addUser reads again; when it cannot, it starts a new file.
AddUserRead(a) ==
    /\ add[a].at = "read"
    /\ add' = [add EXCEPT ![a].at = "write", ![a].lines = IF passwd.there THEN passwd.lines ELSE <<>>]
    /\ UNCHANGED <<passwd, login, homes, deaths, changes, ghost, fates>>

\* The admin command reads, looks for the name and counts, all on one reading.
AdminRead(a, u) ==
    /\ add[a].at = "idle"
    /\ passwd.there /\ ~Listed(passwd.lines, u)
    /\ add' = [add EXCEPT ![a] = [at |-> "write", name |-> u, uid |-> NewUID(passwd.lines),
                                  lines |-> passwd.lines, stale |-> {}]]
    /\ UNCHANGED <<passwd, login, homes, deaths, changes, ghost, fates>>

\* What has been read so far no longer holds.
Overtaken == [a \in Adders |->
                 [add[a] EXCEPT !.stale = CASE add[a].at = "idle"  -> {}
                                            [] add[a].at = "write" -> {"check", "read"}
                                            [] OTHER               -> {"check"}]]

\* Both write the lines they read and their own, and report success.  A missing
\* file is created.
AddUserWrite(a) ==
    /\ add[a].at = "write" /\ changes < MaxChanges
    /\ passwd' = [there |-> TRUE,
                  lines |-> Append(add[a].lines, [name |-> add[a].name, uid |-> add[a].uid])]
    /\ changes' = changes + 1
    /\ acked' = acked \cup {add[a].name}
    /\ lost' = (lost \/ "read" \in add[a].stale)
    /\ doubled' = (doubled \/ "check" \in add[a].stale)
    /\ add' = [Overtaken EXCEPT ![a] = NoAdd]
    /\ UNCHANGED <<login, homes, deaths, fates>>

\* The write syscall returns an error; nothing is written.
AddUserFails(a) ==
    /\ add[a].at = "write"
    /\ Quit(a)
    /\ UNCHANGED <<passwd, login, homes, deaths, changes, ghost, fates>>

\* root removes /etc/passwd with rm, and may touch it into being again.
RemovePasswd ==
    /\ passwd.there /\ changes < MaxChanges
    /\ passwd' = [there |-> FALSE, lines |-> <<>>]
    /\ changes' = changes + 1
    /\ acked' = {}
    /\ add' = Overtaken
    /\ UNCHANGED <<login, homes, deaths, lost, doubled, fates>>

TouchPasswd ==
    /\ ~passwd.there
    /\ passwd' = [passwd EXCEPT !.there = TRUE]
    /\ UNCHANGED <<add, login, homes, deaths, changes, ghost, fates>>

-----------------------------------------------------------------------------
(* login: checkCredentials and NewSession. *)

CheckCredentials(l, u) ==
    /\ login[l].at = "idle"
    /\ passwd.there /\ Listed(passwd.lines, u)
    /\ login' = [login EXCEPT ![l] = [at |-> "look", name |-> u, inum |-> 0]]
    /\ UNCHANGED <<passwd, add, homes, deaths, changes, ghost, fates>>

Goes(l, place) == login' = [login EXCEPT ![l].at = place]

\* ResolvePath of the home directory, without the lock.
LookForHome(l) ==
    /\ login[l].at = "look"
    /\ Goes(l, IF home[login[l].name] = 0 THEN "mkdir" ELSE "session")
    /\ UNCHANGED <<passwd, add, homes, deaths, changes, ghost, fates>>

\* makeInode gives u's directory to root, in an inode that no home uses.
MakeInode(u, i) ==
    /\ home[u] = 0 /\ i \notin Range(home)
    /\ home' = [home EXCEPT ![u] = i]
    /\ owner' = [owner EXCEPT ![i] = "root"]
    /\ stored' = [stored EXCEPT ![i] = "root"]

\* What makeInode takes out of the cache is of no more use to whoever has it.
Evicted(i) ==
    [l \in Logins |-> IF login[l].at = "chown" /\ login[l].inum = i
                      THEN [login[l] EXCEPT !.at = "stale"] ELSE login[l]]

\* Mutant: the directory is left as mkDir made it.
MkDirOnly(l) ==
    /\ login[l].at = "mkdir"
    /\ \E i \in Inums : /\ MakeInode(login[l].name, i)
                        /\ login' = [Evicted(i) EXCEPT ![l].at = "session"]
    /\ UNCHANGED <<passwd, add, removals, deaths, changes, ghost, fates>>

\* mkDir, under the lock.
MkDir(l) ==
    /\ login[l].at = "mkdir"
    /\ \E i \in Inums : /\ MakeInode(login[l].name, i)
                        /\ login' = [Evicted(i) EXCEPT ![l].at = "again"]
    /\ UNCHANGED <<passwd, add, removals, deaths, changes, ghost, fates>>

\* Every error of mkDir is ignored: another login was faster, the name is too
\* long for an entry or has a slash in it, /home is gone, the disk is full.
MkDirFails(l) ==
    /\ login[l].at = "mkdir"
    /\ Goes(l, "again")
    /\ UNCHANGED <<passwd, add, homes, deaths, changes, ghost, fates>>

\* ResolvePath once more; a user without a directory gets a session all the same.
LookAgain(l) ==
    LET u == login[l].name  i == home[u]
    IN  /\ login[l].at = "again"
        /\ login' = [login EXCEPT ![l] = [at |-> IF i = 0 THEN "session" ELSE "get", name |-> u, inum |-> i]]
        /\ UNCHANGED <<passwd, add, homes, deaths, changes, ghost, fates>>

\* getInode of what was found, whatever has become of it.
GetInode(l) ==
    /\ login[l].at = "get"
    /\ Goes(l, "chown")
    /\ UNCHANGED <<passwd, add, homes, deaths, changes, ghost, fates>>

\* At most 13 bytes of a name fit into an inode.
ownerBytes(u) == Prefix[u]

\* Mutant: the new owner is written, but not to the inode in the cache.
ChownDisk(l) ==
    LET i == login[l].inum  u == login[l].name
    IN  /\ login[l].at \in {"chown", "stale"}
        /\ stored' = [stored EXCEPT ![i] = ownerBytes(u)]
        /\ strays' = strays \cup {v \in UserNames \ {u} : home[v] = i}
        /\ Goes(l, "session")
        /\ UNCHANGED <<passwd, add, home, owner, removals, deaths, changes, ghost, orphans>>

\* The inode is changed and written to its place on disk.  When it has been taken
\* out of the cache since, getInode finds that change only if it has to read the
\* disk.
Chown(l) ==
    LET i == login[l].inum  u == login[l].name
    IN  /\ login[l].at \in {"chown", "stale"}
        /\ \/ owner' = [owner EXCEPT ![i] = ownerBytes(u)]
           \/ login[l].at = "stale" /\ owner' = owner
        /\ stored' = [stored EXCEPT ![i] = ownerBytes(u)]
        /\ strays' = strays \cup {v \in UserNames \ {u} : home[v] = i}
        /\ Goes(l, "session")
        /\ UNCHANGED <<passwd, add, home, removals, deaths, changes, ghost, orphans>>

Logout(l) ==
    /\ login[l].at = "session"
    /\ login' = [login EXCEPT ![l] = NoLogin]
    /\ UNCHANGED <<passwd, add, homes, deaths, changes, ghost, fates>>

\* root makes a home directory with mkdir, before its user's first login.
RootMakesHome(u) ==
    /\ \E i \in Inums : MakeInode(u, i) /\ login' = Evicted(i)
    /\ orphans' = orphans \cup {u}
    /\ UNCHANGED <<passwd, add, removals, deaths, changes, ghost, strays>>

\* root removes one with rm, and its inode may be used again.
RemoveHome(u) ==
    /\ home[u] # 0 /\ removals < MaxRemovals
    /\ home' = [home EXCEPT ![u] = 0]
    /\ removals' = removals + 1
    /\ orphans' = orphans \ {u} /\ strays' = strays \ {u}
    /\ UNCHANGED <<passwd, add, login, owner, stored, deaths, changes, ghost>>

-----------------------------------------------------------------------------
\* The engine dies and is started again; the disk is as it was.
Restart ==
    /\ deaths < MaxDeaths
    /\ deaths' = deaths + 1
    /\ add' = [a \in Adders |-> NoAdd]
    /\ login' = [l \in Logins |-> NoLogin]
    /\ owner' = stored
    /\ orphans' = orphans \cup {u \in UserNames : home[u] # 0 /\ stored[home[u]] = "root"}
    /\ UNCHANGED <<passwd, home, stored, removals, changes, ghost, strays>>

\* The disk of a new node.
Init ==
    /\ passwd = [there |-> TRUE, lines |-> <<>>]
    /\ add = [a \in Adders |-> NoAdd]
    /\ login = [l \in Logins |-> NoLogin]
    /\ home = [u \in UserNames |-> 0]
    /\ owner = [i \in Inums |-> "root"] /\ stored = owner
    /\ deaths = 0 /\ changes = 0 /\ removals = 0
    /\ acked = {} /\ lost = FALSE /\ doubled = FALSE /\ orphans = {} /\ strays = {}

NewSession(l) ==
    LookForHome(l) \/ MkDir(l) \/ MkDirFails(l) \/ LookAgain(l) \/ GetInode(l) \/ Chown(l)

Next ==
    \/ \E a \in Adders, u \in UserNames : IsUsernameUnique(a, u) \/ AdminRead(a, u)
    \/ \E a \in Adders : Interrupted(a) \/ FindUID(a) \/ AddUserRead(a)
    \/ \E a \in Adders : AddUserWrite(a) \/ AddUserFails(a)
    \/ RemovePasswd \/ TouchPasswd
    \/ \E l \in Logins, u \in UserNames : CheckCredentials(l, u)
    \/ \E l \in Logins : NewSession(l) \/ Logout(l)
    \/ \E u \in UserNames : RootMakesHome(u) \/ RemoveHome(u)
    \/ Restart

\* A goroutine in NewSession waits for nobody.
Spec == Init /\ [][Next]_vars /\ \A l \in Logins : WF_vars(NewSession(l))

-----------------------------------------------------------------------------
(* Properties. *)

\* The lines have names and user ids, whoever writes has a name and a user id to
\* write, and whoever is about to change an inode has one.
TypeOK ==
    /\ passwd.there \in BOOLEAN /\ \A k \in DOMAIN passwd.lines : passwd.lines[k] \in Line
    /\ ~passwd.there => passwd.lines = <<>>
    /\ \A a \in Adders : add[a].at \in {"read", "write"} => add[a].name \in UserNames /\ add[a].uid >= 1000
    /\ \A l \in Logins : login[l].at = "idle" <=> login[l].name = NoName
    /\ \A l \in Logins : login[l].at \in {"get", "chown", "stale"} => login[l].inum \in Inums
    /\ home \in [UserNames -> Inums \cup {0}]

\* No name and no user id is given twice, and ids follow the order of the lines,
\* as long as nobody else changed the file between a writer's check and its
\* write: the check is made before the password is typed, and not again
\* (adduser.go:60-81, handle_admin.go:152-171).
NamesOnce ==
    ~doubled => \A j, k \in DOMAIN passwd.lines :
                    /\ passwd.lines[j].name = passwd.lines[k].name => j = k
                    /\ passwd.lines[k].uid = 999 + k

\* A user whose addition was reported stays, however many others are added and
\* even while passwords are being typed, as long as nobody changed the file
\* between a writer's last read and its write (adduser.go:127-144).
AckedStay == ~lost => \A u \in acked : Listed(passwd.lines, u)

\* Login l will make u the owner of the directory that is u's home now.
WillGive(l, u) ==
    /\ login[l].name = u
    /\ login[l].at = "again" \/ (login[l].at \in {"get", "chown"} /\ login[l].inum = home[u])

\* Whatever logins, removals by root and reuses of inodes come between the steps
\* of NewSession: a home directory has its user's name, as far as an inode holds
\* it, or it is root's and a login under way will change that.  A directory that
\* root made, or that a death kept from its user, may stay root's; for one that
\* the login of another user has written over, nothing is said.  A user whose
\* name is longer than 13 bytes is not the owner by this: the checks of
\* permissions compare the whole name (computer.go:160-175, fs_inode.go:91-98).
HomePending ==
    \A u \in UserNames :
        home[u] # 0 /\ u \notin strays =>
            \/ owner[home[u]] = ownerBytes(u)
            \/ owner[home[u]] = "root" /\ (u \in orphans \/ \E l \in Logins : WillGive(l, u))

\* A home directory is given to its user in the end, also when two logins of the
\* user make it at once or another goes before it was given, unless root made or
\* removed it, a death came between mkDir and the inode write, or another's
\* login wrote over it (computer.go:160-175).
HomeOwned ==
    \A u \in UserNames :
        home[u] # 0 ~> \/ home[u] = 0 \/ u \in orphans \cup strays
                       \/ owner[home[u]] = ownerBytes(u)
=============================================================================
