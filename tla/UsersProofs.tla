---------------------------- MODULE UsersProofs -----------------------------
(***************************************************************************)
(* Proofs about Users, for any number of users, of goroutines that add     *)
(* them, of logins and of inodes, any names, and any number of changes,    *)
(* removals and deaths.                                                    *)
(***************************************************************************)
EXTENDS Users, TLAPS

(***************************************************************************)
(* The inductive invariant.  Whoever adds a user carries what it read:     *)
(* unless a change overtook it, that is still what the file says.          *)
(***************************************************************************)
Adding == [at : {"idle", "password", "read", "write"}, name : UserNames \cup {NoName},
           uid : Nat, lines : Seq(Line), stale : SUBSET {"check", "read"}]

LoggingIn == [at   : {"idle", "look", "mkdir", "again", "get", "chown", "stale", "session"},
              name : UserNames \cup {NoName},
              inum : Inums \cup {0}]

Owners == {"root"} \cup {ownerBytes(u) : u \in UserNames}

TypedFile ==
    /\ passwd \in [there : BOOLEAN, lines : Seq(Line)]
    /\ add \in [Adders -> Adding]
    /\ lost \in BOOLEAN /\ doubled \in BOOLEAN
    /\ ~passwd.there => passwd.lines = <<>>

\* What NewSession holds: its name, and from getInode on an inode.
Placed(r) ==
    /\ r \in LoggingIn
    /\ r.at = "idle" <=> r.name = NoName
    /\ r.at \in {"get", "chown", "stale"} => r.inum \in Inums

TypedHomes ==
    /\ login \in [Logins -> LoggingIn] /\ \A l \in Logins : Placed(login[l])
    /\ home \in [UserNames -> Inums \cup {0}]
    /\ owner \in [Inums -> Owners] /\ stored \in [Inums -> Owners]

\* A goroutine past the uniqueness check.
UpToDate(a) ==
    /\ add[a].at # "idle" => add[a].name \in UserNames
    /\ add[a].at \in {"read", "write"} => add[a].uid >= 1000
    /\ "read" \in add[a].stale => "check" \in add[a].stale
    /\ add[a].at # "idle" /\ "check" \notin add[a].stale => ~Listed(passwd.lines, add[a].name)
    /\ add[a].at \in {"read", "write"} /\ "check" \notin add[a].stale =>
           add[a].uid = NewUID(passwd.lines)
    /\ add[a].at = "write" /\ "read" \notin add[a].stale => add[a].lines = passwd.lines

\* The disk never knows more of a home directory than the cache does.
StoredToo ==
    \A u \in UserNames :
        home[u] # 0 /\ u \notin strays => stored[home[u]] \in {"root", ownerBytes(u)}

Homes == TypedHomes /\ HomePending /\ StoredToo

IInv ==
    /\ TypedFile
    /\ \A a \in Adders : UpToDate(a)
    /\ NamesOnce
    /\ AckedStay
    /\ Homes

-----------------------------------------------------------------------------
\* The disk of a new node satisfies the invariant (createPasswd, fs.go).
LEMMA InitIInv == Init => IInv
<1> SUFFICES ASSUME Init PROVE IInv
  OBVIOUS
<1>1. TypedFile
  <2>1. passwd \in [there : BOOLEAN, lines : Seq(Line)] /\ passwd.there
    BY DEF Init
  <2>2. NoAdd \in Adding
    BY DEF NoAdd, Adding
  <2> QED
    BY <2>1, <2>2 DEF Init, TypedFile
<1>2. \A a \in Adders : UpToDate(a)
  BY DEF Init, UpToDate, NoAdd
<1>3. passwd.lines = <<>> /\ DOMAIN passwd.lines = {} /\ acked = {}
  BY DEF Init
<1>4. Homes
  <2>1. Placed(NoLogin) /\ NoLogin \in LoggingIn /\ "root" \in Owners
    BY DEF NoLogin, Placed, LoggingIn, Owners
  <2>2. login = [l \in Logins |-> NoLogin] /\ owner = [i \in Inums |-> "root"] /\ stored = owner
           /\ home = [u \in UserNames |-> 0]
    BY DEF Init
  <2> QED
    BY <2>1, <2>2 DEF Homes, TypedHomes, HomePending, StoredToo
<1> QED
  BY <1>1, <1>2, <1>3, <1>4 DEF IInv, NamesOnce, AckedStay

\* What adds users leaves the home directories and the logins alone.
LEMMA HomesStay ==
    ASSUME Homes, UNCHANGED <<login, homes, fates>>
    PROVE  Homes'
<1>1. /\ login' = login /\ home' = home /\ owner' = owner /\ stored' = stored
      /\ orphans' = orphans /\ strays' = strays
  BY DEF homes, fates
<1>2. TypedHomes' /\ StoredToo'
  BY <1>1 DEF Homes, TypedHomes, StoredToo
<1>3. HomePending'
  BY <1>1 DEF Homes, HomePending, WillGive
<1> QED
  BY <1>2, <1>3 DEF Homes

\* The steps of a goroutine that adds a user, up to its write, change only what
\* that goroutine carries.
LEMMA ReadingIInv ==
    ASSUME IInv, NEW a \in Adders,
           UNCHANGED <<passwd, login, homes, deaths, changes, ghost, fates>>,
           NEW r \in Adding, add' = [add EXCEPT ![a] = r], UpToDate(a)'
    PROVE  IInv'
<1>1. add' \in [Adders -> Adding] /\ \A b \in Adders : b # a => add'[b] = add[b]
  BY DEF IInv, TypedFile
<1>2. \A b \in Adders : UpToDate(b)'
  BY <1>1 DEF IInv, UpToDate
<1> QED
  BY <1>1, <1>2, HomesStay DEF IInv, TypedFile, NamesOnce, AckedStay, ghost

\* isUsernameUnique: the name is on no line of the file as it is now.
LEMMA IsUsernameUniqueIInv ==
    ASSUME IInv, NEW a \in Adders, NEW u \in UserNames, IsUsernameUnique(a, u)
    PROVE  IInv'
<1> DEFINE r == [at |-> "password", name |-> u, uid |-> 0, lines |-> <<>>, stale |-> {}]
<1>1. r \in Adding
  BY DEF Adding
<1>2. add' = [add EXCEPT ![a] = r] /\ UNCHANGED <<passwd, login, homes, deaths, changes, ghost, fates>>
  BY DEF IsUsernameUnique
<1>3. add'[a] = r
  BY <1>2 DEF IInv, TypedFile
<1>4. UpToDate(a)'
  BY <1>2, <1>3 DEF UpToDate, IsUsernameUnique
<1> QED
  BY <1>1, <1>2, <1>4, ReadingIInv

\* The admin command's reading, uniqueness check and count are of one file.
LEMMA AdminReadIInv ==
    ASSUME IInv, NEW a \in Adders, NEW u \in UserNames, AdminRead(a, u)
    PROVE  IInv'
<1> DEFINE r == [at |-> "write", name |-> u, uid |-> NewUID(passwd.lines),
                 lines |-> passwd.lines, stale |-> {}]
<1>0. passwd.lines \in Seq(Line) /\ NewUID(passwd.lines) \in Nat /\ NewUID(passwd.lines) >= 1000
  BY DEF IInv, TypedFile, NewUID
<1>1. r \in Adding
  BY <1>0 DEF Adding
<1>2. add' = [add EXCEPT ![a] = r] /\ UNCHANGED <<passwd, login, homes, deaths, changes, ghost, fates>>
  BY DEF AdminRead
<1>3. add'[a] = r
  BY <1>2 DEF IInv, TypedFile
<1>4. UpToDate(a)'
  BY <1>0, <1>2, <1>3 DEF UpToDate, AdminRead, NewUID
<1> QED
  BY <1>1, <1>2, <1>4, ReadingIInv

\* A goroutine that gives up carries nothing.
LEMMA QuitIInv ==
    ASSUME IInv, NEW a \in Adders, Quit(a),
           UNCHANGED <<passwd, login, homes, deaths, changes, ghost, fates>>
    PROVE  IInv'
<1>1. NoAdd \in Adding
  BY DEF NoAdd, Adding
<1>2. add' = [add EXCEPT ![a] = NoAdd] /\ add'[a] = NoAdd
  BY DEF Quit, IInv, TypedFile
<1>3. UpToDate(a)'
  BY <1>2 DEF UpToDate, NoAdd
<1> QED
  BY <1>1, <1>2, <1>3, ReadingIInv

\* The number of the lines gives the user id.
LEMMA FindUIDIInv ==
    ASSUME IInv, NEW a \in Adders, FindUID(a)
    PROVE  IInv'
<1>1. CASE ~passwd.there
  BY <1>1, QuitIInv DEF FindUID
<1>2. CASE passwd.there
  <2> DEFINE r == [add[a] EXCEPT !.at = "read", !.uid = NewUID(passwd.lines)]
  <2>0. add[a] \in Adding /\ NewUID(passwd.lines) \in Nat /\ NewUID(passwd.lines) >= 1000 /\ UpToDate(a)
    BY DEF IInv, TypedFile, NewUID
  <2>1. r \in Adding /\ r.at = "read" /\ r.uid = NewUID(passwd.lines)
           /\ r.name = add[a].name /\ r.stale = add[a].stale
    BY <2>0 DEF Adding
  <2>2. add' = [add EXCEPT ![a] = r] /\ UNCHANGED <<passwd, login, homes, deaths, changes, ghost, fates>>
    BY <1>2 DEF FindUID
  <2>3. add'[a] = r
    BY <2>2 DEF IInv, TypedFile
  <2> HIDE DEF r
  <2>4. UpToDate(a)'
    BY <2>0, <2>1, <2>2, <2>3 DEF UpToDate, FindUID
  <2> QED
    BY <2>1, <2>2, <2>4, ReadingIInv
<1> QED
  BY <1>1, <1>2

\* addUser starts from the file as it is, or from nothing when it is gone.
LEMMA AddUserReadIInv ==
    ASSUME IInv, NEW a \in Adders, AddUserRead(a)
    PROVE  IInv'
<1> DEFINE read == IF passwd.there THEN passwd.lines ELSE <<>>
           r == [add[a] EXCEPT !.at = "write", !.lines = read]
<1>0. add[a] \in Adding /\ read = passwd.lines /\ read \in Seq(Line) /\ UpToDate(a)
  BY DEF IInv, TypedFile
<1>1. r \in Adding /\ r.at = "write" /\ r.uid = add[a].uid
         /\ r.name = add[a].name /\ r.stale = add[a].stale /\ r.lines = passwd.lines
  BY <1>0 DEF Adding
<1>2. add' = [add EXCEPT ![a] = r] /\ UNCHANGED <<passwd, login, homes, deaths, changes, ghost, fates>>
  BY DEF AddUserRead
<1>3. add'[a] = r
  BY <1>2 DEF IInv, TypedFile
<1> HIDE DEF r, read
<1>4. UpToDate(a)'
  BY <1>0, <1>1, <1>2, <1>3 DEF UpToDate, AddUserRead
<1> QED
  BY <1>1, <1>2, <1>4, ReadingIInv

\* A change of the file marks what everyone else read as overtaken, and nothing
\* more.
LEMMA OvertakenFacts ==
    ASSUME IInv
    PROVE  /\ Overtaken \in [Adders -> Adding]
           /\ \A a \in Adders : /\ Overtaken[a].at = add[a].at
                                /\ Overtaken[a].name = add[a].name
                                /\ Overtaken[a].uid = add[a].uid
                                /\ add[a].at # "idle" => "check" \in Overtaken[a].stale
                                /\ add[a].at = "idle" => Overtaken[a].stale = {}
                                /\ add[a].at = "write" => "read" \in Overtaken[a].stale
<1>1. ASSUME NEW a \in Adders, NEW st \in SUBSET {"check", "read"}
      PROVE  /\ [add[a] EXCEPT !.stale = st] \in Adding
             /\ [add[a] EXCEPT !.stale = st].at = add[a].at
             /\ [add[a] EXCEPT !.stale = st].name = add[a].name
             /\ [add[a] EXCEPT !.stale = st].uid = add[a].uid
             /\ [add[a] EXCEPT !.stale = st].stale = st
  <2> add[a] \in Adding
    BY DEF IInv, TypedFile
  <2> QED
    BY DEF Adding
<1> DEFINE st(a) == CASE add[a].at = "idle"  -> {}
                      [] add[a].at = "write" -> {"check", "read"}
                      [] OTHER               -> {"check"}
<1>2. Overtaken = [a \in Adders |-> [add[a] EXCEPT !.stale = st(a)]]
  BY DEF Overtaken
<1>3. ASSUME NEW a \in Adders
      PROVE  /\ st(a) \in SUBSET {"check", "read"}
             /\ add[a].at # "idle" => "check" \in st(a)
             /\ add[a].at = "idle" => st(a) = {}
             /\ add[a].at = "write" => "read" \in st(a)
  OBVIOUS
<1> DEFINE over(a) == [add[a] EXCEPT !.stale = st(a)]
<1>4. Overtaken = [a \in Adders |-> over(a)]
  BY <1>2
<1> HIDE DEF st
<1>5. ASSUME NEW a \in Adders
      PROVE  /\ over(a) \in Adding
             /\ over(a).at = add[a].at /\ over(a).name = add[a].name
             /\ over(a).uid = add[a].uid /\ over(a).stale = st(a)
  BY <1>1, <1>3
<1> HIDE DEF over
<1> QED
  BY <1>3, <1>4, <1>5

\* A change of the file leaves everyone who adds a user with what the invariant
\* says, whatever the file is now: those under way are overtaken.
LEMMA OvertakenUpToDate ==
    ASSUME IInv, NEW a \in Adders, add'[a] = Overtaken[a]
    PROVE  UpToDate(a)'
<1>1. UpToDate(a)
  BY DEF IInv
<1>2. add[a] \in Adding /\ Overtaken[a] \in Adding
  BY OvertakenFacts DEF IInv, TypedFile
<1> QED
  BY <1>1, <1>2, OvertakenFacts DEF UpToDate, Adding

\* The write puts the line after those that were read.  When nothing overtook
\* the check, the name is new there and the id is that of the next line.
LEMMA AddUserWriteIInv ==
    ASSUME IInv, NEW a \in Adders, AddUserWrite(a)
    PROVE  IInv'
<1> DEFINE line == [name |-> add[a].name, uid |-> add[a].uid]
           old  == add[a].lines
           new  == Append(old, line)
<1>1. /\ add[a] \in Adding /\ UpToDate(a) /\ add[a].at = "write"
      /\ line \in Line /\ old \in Seq(Line)
  <2>1. add[a] \in Adding /\ UpToDate(a) /\ add[a].at = "write"
    BY DEF IInv, TypedFile, AddUserWrite
  <2> QED
    BY <2>1 DEF Adding, UpToDate, Line
<1>2. /\ passwd' = [there |-> TRUE, lines |-> new] /\ passwd'.lines = new
      /\ add' = [Overtaken EXCEPT ![a] = NoAdd]
      /\ acked' = acked \cup {add[a].name}
      /\ lost' = (lost \/ "read" \in add[a].stale)
      /\ doubled' = (doubled \/ "check" \in add[a].stale)
      /\ UNCHANGED <<login, homes, fates>>
  BY DEF AddUserWrite
<1> DEFINE n == Len(old)
<1>3. /\ new \in Seq(Line) /\ n \in Nat /\ DOMAIN old = 1 .. n /\ DOMAIN new = 1 .. (n + 1)
      /\ new[n + 1] = line /\ \A k \in 1 .. n : new[k] = old[k]
  BY <1>1
<1>4. add' \in [Adders -> Adding] /\ add'[a] = NoAdd /\ \A b \in Adders : b # a => add'[b] = Overtaken[b]
  <2>1. NoAdd \in Adding
    BY DEF NoAdd, Adding
  <2> QED
    BY <1>2, <2>1, OvertakenFacts
<1>5. TypedFile'
  BY <1>2, <1>3, <1>4 DEF IInv, TypedFile
<1>6. \A b \in Adders : UpToDate(b)'
  <2>1. UpToDate(a)'
    BY <1>4 DEF UpToDate, NoAdd
  <2> QED
    BY <1>4, <2>1, OvertakenUpToDate
<1> HIDE DEF new
<1>7. NamesOnce'
  <2> SUFFICES ASSUME ~doubled' PROVE \A j, k \in DOMAIN new :
                    /\ new[j].name = new[k].name => j = k
                    /\ new[k].uid = 999 + k
    BY <1>2 DEF NamesOnce
  <2>1. ~doubled /\ "check" \notin add[a].stale /\ "read" \notin add[a].stale
    BY <1>1, <1>2 DEF UpToDate
  <2>2. old = passwd.lines /\ add[a].uid = 1000 + n /\ ~Listed(old, add[a].name)
    BY <1>1, <2>1 DEF UpToDate, NewUID
  <2>3. \A j, k \in 1 .. n : (old[j].name = old[k].name => j = k) /\ old[k].uid = 999 + k
    BY <1>3, <2>1, <2>2 DEF IInv, NamesOnce
  <2>4. \A k \in 1 .. n : old[k].name # line.name
    BY <1>3, <2>2 DEF Listed
  <2>5. line.uid = 999 + (n + 1)
    BY <1>3, <2>2
  <2> HIDE DEF line, old, n
  <2>6. ASSUME NEW k \in DOMAIN new
        PROVE  (k \in 1 .. n /\ new[k] = old[k]) \/ (k = n + 1 /\ new[k] = line)
    BY <1>3
  <2> QED
    BY <1>3, <2>3, <2>4, <2>5, <2>6
<1>8. AckedStay'
  <2> SUFFICES ASSUME ~lost', NEW u \in acked' PROVE Listed(new, u)
    BY <1>2 DEF AckedStay
  <2>1. CASE u = add[a].name
    BY <1>3, <2>1 DEF Listed
  <2>2. CASE u \in acked
    <3>1. old = passwd.lines /\ Listed(old, u)
      BY <1>1, <1>2, <2>2 DEF UpToDate, IInv, AckedStay
    <3> QED
      BY <1>3, <3>1 DEF Listed
  <2> QED
    BY <1>2, <2>1, <2>2
<1>9. Homes'
  BY <1>2, HomesStay DEF IInv
<1> QED
  BY <1>5, <1>6, <1>7, <1>8, <1>9 DEF IInv

\* rm of the file forgets everyone, and whoever was adding a user is overtaken.
LEMMA RemovePasswdIInv ==
    ASSUME IInv, RemovePasswd
    PROVE  IInv'
<1>1. /\ passwd' = [there |-> FALSE, lines |-> <<>>] /\ passwd'.lines = <<>> /\ DOMAIN passwd'.lines = {}
      /\ add' = Overtaken /\ acked' = {}
      /\ UNCHANGED <<login, homes, lost, doubled, fates>>
  BY DEF RemovePasswd
<1>2. TypedFile'
  <2>1. passwd' \in [there : BOOLEAN, lines : Seq(Line)]
    BY <1>1
  <2> QED
    BY <1>1, <2>1, OvertakenFacts DEF IInv, TypedFile
<1>3. \A b \in Adders : UpToDate(b)'
  BY <1>1, OvertakenUpToDate
<1>4. NamesOnce' /\ AckedStay' /\ Homes'
  BY <1>1, HomesStay DEF NamesOnce, AckedStay, IInv
<1> QED
  BY <1>2, <1>3, <1>4 DEF IInv

\* touch makes an empty file where there was none.
LEMMA TouchPasswdIInv ==
    ASSUME IInv, TouchPasswd
    PROVE  IInv'
<1>1. passwd' = [passwd EXCEPT !.there = TRUE] /\ UNCHANGED <<add, login, homes, acked, lost, doubled, fates>>
  BY DEF TouchPasswd, ghost
<1>2. passwd' \in [there : BOOLEAN, lines : Seq(Line)] /\ passwd'.lines = passwd.lines /\ passwd'.there
  BY <1>1 DEF IInv, TypedFile
<1> QED
  BY <1>1, <1>2, HomesStay DEF IInv, TypedFile, UpToDate, NamesOnce, AckedStay

\* The steps of login and NewSession keep what is said of the file.
LEMMA LoginIInv ==
    ASSUME IInv, UNCHANGED <<passwd, add, deaths, changes, ghost>>, Homes'
    PROVE  IInv'
  BY DEF IInv, TypedFile, UpToDate, NamesOnce, AckedStay, ghost

\* One that only goes to another place in NewSession, and will still give the
\* directory it was about to give.
LEMMA PlaceKeeps ==
    ASSUME Homes, NEW l \in Logins, NEW r, Placed(r),
           login' = [login EXCEPT ![l] = r], UNCHANGED <<homes, fates>>,
           \A u \in UserNames :
               WillGive(l, u) /\ home[u] # 0 =>
                   r.name = u /\ (r.at = "again" \/ (r.at \in {"get", "chown"} /\ r.inum = home[u]))
    PROVE  Homes'
<1>1. /\ home' = home /\ owner' = owner /\ stored' = stored /\ orphans' = orphans /\ strays' = strays
      /\ login' \in [Logins -> LoggingIn] /\ login'[l] = r
      /\ \A m \in Logins : m # l => login'[m] = login[m]
  BY DEF homes, fates, Homes, TypedHomes, Placed
<1>2. TypedHomes' /\ StoredToo'
  BY <1>1 DEF Homes, TypedHomes, StoredToo, Placed
<1>3. ASSUME NEW m \in Logins, NEW u \in UserNames, WillGive(m, u), home[u] # 0
      PROVE  WillGive(m, u)'
  BY <1>1, <1>3 DEF WillGive
<1>4. HomePending'
  BY <1>1, <1>3 DEF Homes, HomePending
<1> QED
  BY <1>2, <1>4 DEF Homes

\* What a place in NewSession is after a step from another.
LEMMA GoesFacts ==
    ASSUME Homes, NEW l \in Logins, login[l].at # "idle",
           NEW place \in {"mkdir", "again", "session"}, Goes(l, place)
    PROVE  /\ Placed([at |-> place, name |-> login[l].name, inum |-> login[l].inum])
           /\ login' = [login EXCEPT ![l] = [at |-> place, name |-> login[l].name, inum |-> login[l].inum]]
<1> DEFINE r == [at |-> place, name |-> login[l].name, inum |-> login[l].inum]
<1>1. login[l] \in LoggingIn /\ login[l].name # NoName
  BY DEF Homes, TypedHomes, Placed
<1>2. Placed(r)
  BY <1>1 DEF Placed, LoggingIn
<1>3. [login[l] EXCEPT !.at = place] = r
  BY <1>1 DEF LoggingIn
<1>4. login' = [login EXCEPT ![l] = [login[l] EXCEPT !.at = place]]
  BY DEF Goes
<1> QED
  BY <1>2, <1>3, <1>4

\* checkCredentials lets in a user whose line it found.
LEMMA CheckCredentialsIInv ==
    ASSUME IInv, NEW l \in Logins, NEW u \in UserNames, CheckCredentials(l, u)
    PROVE  IInv'
<1> DEFINE r == [at |-> "look", name |-> u, inum |-> 0]
<1>1. /\ login[l].at = "idle" /\ UNCHANGED <<passwd, add, homes, deaths, changes, ghost, fates>>
      /\ login' = [login EXCEPT ![l] = r]
  BY DEF CheckCredentials
<1>2. Homes
  BY DEF IInv
<1>3. Placed(r)
  BY UsersAssumption DEF Placed, LoggingIn
<1>4. \A v \in UserNames : ~WillGive(l, v)
  BY <1>1 DEF WillGive
<1> HIDE DEF r
<1>5. Homes'
  BY <1>1, <1>2, <1>3, <1>4, PlaceKeeps
<1> QED
  BY <1>1, <1>5, LoginIInv

\* Whoever finds no home goes on to make it.
LEMMA LookForHomeIInv ==
    ASSUME IInv, NEW l \in Logins, LookForHome(l)
    PROVE  IInv'
<1> DEFINE place == IF home[login[l].name] = 0 THEN "mkdir" ELSE "session"
           r == [at |-> place, name |-> login[l].name, inum |-> login[l].inum]
<1>1. /\ login[l].at = "look" /\ Goes(l, place) /\ Homes
      /\ UNCHANGED <<passwd, add, homes, deaths, changes, ghost, fates>>
  BY DEF LookForHome, IInv
<1>2. Placed(r) /\ login' = [login EXCEPT ![l] = r]
  BY <1>1, GoesFacts
<1>3. \A v \in UserNames : ~WillGive(l, v)
  BY <1>1 DEF WillGive
<1> HIDE DEF r
<1>4. Homes'
  BY <1>1, <1>2, <1>3, PlaceKeeps
<1> QED
  BY <1>1, <1>4, LoginIInv

\* One whose mkDir failed looks again like the others.
LEMMA MkDirFailsIInv ==
    ASSUME IInv, NEW l \in Logins, MkDirFails(l)
    PROVE  IInv'
<1> DEFINE r == [at |-> "again", name |-> login[l].name, inum |-> login[l].inum]
<1>1. /\ login[l].at = "mkdir" /\ Goes(l, "again") /\ Homes
      /\ UNCHANGED <<passwd, add, homes, deaths, changes, ghost, fates>>
  BY DEF MkDirFails, IInv
<1>2. Placed(r) /\ login' = [login EXCEPT ![l] = r]
  BY <1>1, GoesFacts
<1>3. \A v \in UserNames : ~WillGive(l, v)
  BY <1>1 DEF WillGive
<1> HIDE DEF r
<1>4. Homes'
  BY <1>1, <1>2, <1>3, PlaceKeeps
<1> QED
  BY <1>1, <1>4, LoginIInv

\* What is found now is the inode that is about to be given away.
LEMMA LookAgainIInv ==
    ASSUME IInv, NEW l \in Logins, LookAgain(l)
    PROVE  IInv'
<1> DEFINE i == home[login[l].name]
           r == [at |-> IF i = 0 THEN "session" ELSE "get", name |-> login[l].name, inum |-> i]
<1>1. /\ login[l].at = "again" /\ Homes
      /\ UNCHANGED <<passwd, add, homes, deaths, changes, ghost, fates>>
      /\ login' = [login EXCEPT ![l] = r]
  BY DEF LookAgain, IInv
<1>2. login[l] \in LoggingIn /\ login[l].name \in UserNames /\ login[l].name # NoName
  BY <1>1 DEF Homes, TypedHomes, Placed, LoggingIn
<1>3. i \in Inums \cup {0}
  BY <1>1, <1>2 DEF Homes, TypedHomes
<1>4. Placed(r)
  BY <1>2, <1>3 DEF Placed, LoggingIn
<1>5. ASSUME NEW v \in UserNames, WillGive(l, v), home[v] # 0
      PROVE  r.name = v /\ r.at = "get" /\ r.inum = home[v]
  BY <1>5 DEF WillGive
<1> HIDE DEF r
<1>6. Homes'
  BY <1>1, <1>4, <1>5, PlaceKeeps
<1> QED
  BY <1>1, <1>6, LoginIInv

\* getInode changes nothing but what the login holds.
LEMMA GetInodeIInv ==
    ASSUME IInv, NEW l \in Logins, GetInode(l)
    PROVE  IInv'
<1> DEFINE r == [at |-> "chown", name |-> login[l].name, inum |-> login[l].inum]
<1>1. /\ login[l].at = "get" /\ Homes
      /\ UNCHANGED <<passwd, add, homes, deaths, changes, ghost, fates>>
      /\ login' = [login EXCEPT ![l] = [login[l] EXCEPT !.at = "chown"]]
  BY DEF GetInode, Goes, IInv
<1>2. login[l] \in LoggingIn /\ login[l].name # NoName /\ login[l].inum \in Inums
  BY <1>1 DEF Homes, TypedHomes, Placed
<1>3. Placed(r)
  BY <1>2 DEF Placed, LoggingIn
<1>4. [login[l] EXCEPT !.at = "chown"] = r
  BY <1>2 DEF LoggingIn
<1>5. login' = [login EXCEPT ![l] = r]
  BY <1>1, <1>4
<1>6. ASSUME NEW v \in UserNames, WillGive(l, v)
      PROVE  r.name = v /\ r.at = "chown" /\ r.inum = home[v]
  BY <1>1, <1>6 DEF WillGive
<1> HIDE DEF r
<1>7. Homes'
  BY <1>1, <1>3, <1>5, <1>6, PlaceKeeps
<1> QED
  BY <1>1, <1>7, LoginIInv


\* A directory made anew is root's until the login that made it, or will look
\* for it, gives it to its user; nothing else moves.
LEMMA MakeKeeps ==
    ASSUME Homes, NEW u \in UserNames, NEW i \in Inums, MakeInode(u, i),
           login' \in [Logins -> LoggingIn], \A m \in Logins : Placed(login[m])',
           \A m \in Logins, v \in UserNames :
               v # u /\ WillGive(m, v) => login'[m] = login[m] \/ (login[m].at = "chown" /\ login[m].inum = i),
           u \in orphans' \/ \E m \in Logins : login'[m].name = u /\ login'[m].at = "again",
           orphans \subseteq orphans', strays' = strays
    PROVE  Homes'
<1>1. /\ home[u] = 0 /\ i \notin Range(home) /\ home' = [home EXCEPT ![u] = i]
      /\ owner' = [owner EXCEPT ![i] = "root"] /\ stored' = [stored EXCEPT ![i] = "root"]
  BY DEF MakeInode
<1>2. /\ home \in [UserNames -> Inums \cup {0}]
      /\ owner \in [Inums -> Owners] /\ stored \in [Inums -> Owners]
  BY DEF Homes, TypedHomes
<1>3. /\ home' \in [UserNames -> Inums \cup {0}] /\ home'[u] = i
      /\ owner' \in [Inums -> Owners] /\ stored' \in [Inums -> Owners]
      /\ owner'[i] = "root" /\ stored'[i] = "root"
      /\ \A j \in Inums : j # i => owner'[j] = owner[j] /\ stored'[j] = stored[j]
      /\ \A v \in UserNames : v # u => home'[v] = home[v] /\ home[v] # i
  BY <1>1, <1>2 DEF Owners, Range
<1>4. TypedHomes'
  BY <1>3 DEF TypedHomes
<1>5. StoredToo'
  <2> SUFFICES ASSUME NEW v \in UserNames, home'[v] # 0, v \notin strays
               PROVE  stored'[home'[v]] \in {"root", ownerBytes(v)}
    BY DEF StoredToo, ownerBytes
  <2>1. CASE v = u
    BY <1>3, <2>1
  <2>2. CASE v # u
    <3>1. home'[v] = home[v] /\ stored'[home[v]] = stored[home[v]] /\ home[v] # 0
      BY <1>2, <1>3, <2>2
    <3> QED
      BY <3>1 DEF Homes, StoredToo
  <2> QED
    BY <2>1, <2>2
<1>6. HomePending'
  <2> SUFFICES ASSUME NEW v \in UserNames, home'[v] # 0, v \notin strays
               PROVE  \/ owner'[home'[v]] = ownerBytes(v)
                      \/ owner'[home'[v]] = "root" /\ (v \in orphans' \/ \E m \in Logins : WillGive(m, v)')
    BY DEF HomePending, ownerBytes
  <2>1. CASE v = u
    <3>1. ASSUME NEW m \in Logins, login'[m].name = u, login'[m].at = "again"
          PROVE  WillGive(m, u)'
      BY <3>1 DEF WillGive
    <3> QED
      BY <1>3, <2>1, <3>1
  <2>2. CASE v # u
    <3>1. home'[v] = home[v] /\ owner'[home[v]] = owner[home[v]] /\ home[v] # 0 /\ home[v] # i
      BY <1>2, <1>3, <2>2
    <3>2. \/ owner[home[v]] = ownerBytes(v)
          \/ owner[home[v]] = "root" /\ (v \in orphans \/ \E m \in Logins : WillGive(m, v))
      BY <3>1 DEF Homes, HomePending
    <3>3. ASSUME NEW m \in Logins, WillGive(m, v) PROVE WillGive(m, v)'
      <4>1. CASE login'[m] = login[m]
        BY <3>1, <3>3, <4>1 DEF WillGive
      <4>2. CASE login'[m] # login[m]
        BY <2>2, <3>1, <3>3, <4>2 DEF WillGive
      <4> QED
        BY <4>1, <4>2
    <3> QED
      BY <3>1, <3>2, <3>3
  <2> QED
    BY <2>1, <2>2
<1> QED
  BY <1>4, <1>5, <1>6 DEF Homes

\* Who is evicted is nobody who was about to give a directory in use.
LEMMA EvictedFacts ==
    ASSUME Homes, NEW i
    PROVE  \A m \in Logins : /\ Placed(Evicted(i)[m])
                             /\ Evicted(i)[m].name = login[m].name
                             /\ Evicted(i)[m] = login[m] \/ (login[m].at = "chown" /\ login[m].inum = i)
<1> SUFFICES ASSUME NEW m \in Logins
             PROVE  /\ Placed(Evicted(i)[m])
                    /\ Evicted(i)[m].name = login[m].name
                    /\ Evicted(i)[m] = login[m] \/ (login[m].at = "chown" /\ login[m].inum = i)
  OBVIOUS
<1>1. login[m] \in LoggingIn /\ Placed(login[m])
  BY DEF Homes, TypedHomes
<1>2. CASE login[m].at = "chown" /\ login[m].inum = i
  <2> DEFINE r == [at |-> "stale", name |-> login[m].name, inum |-> login[m].inum]
  <2>1. [login[m] EXCEPT !.at = "stale"] = r
    BY <1>1 DEF LoggingIn
  <2>2. Placed(r)
    BY <1>1, <1>2 DEF Placed, LoggingIn
  <2>3. Evicted(i)[m] = r
    BY <1>2, <2>1 DEF Evicted
  <2> QED
    BY <1>2, <2>2, <2>3
<1>3. CASE ~(login[m].at = "chown" /\ login[m].inum = i)
  BY <1>1, <1>3 DEF Evicted
<1> QED
  BY <1>2, <1>3

\* mkDir makes the directory root's, and this login is one to change that.
LEMMA MkDirIInv ==
    ASSUME IInv, NEW l \in Logins, MkDir(l)
    PROVE  IInv'
<1> DEFINE u == login[l].name
<1>1. PICK i \in Inums : MakeInode(u, i) /\ login' = [Evicted(i) EXCEPT ![l].at = "again"]
  BY DEF MkDir
<1>2. /\ login[l].at = "mkdir" /\ Homes
      /\ UNCHANGED <<passwd, add, removals, deaths, changes, ghost, fates>>
  BY DEF MkDir, IInv
<1>3. login[l] \in LoggingIn /\ u \in UserNames /\ u # NoName
  BY <1>2 DEF Homes, TypedHomes, Placed, LoggingIn
<1> DEFINE r == [at |-> "again", name |-> u, inum |-> login[l].inum]
<1>4. Evicted(i)[l] = login[l] /\ DOMAIN Evicted(i) = Logins
  BY <1>2, EvictedFacts DEF Evicted
<1>5. [Evicted(i)[l] EXCEPT !.at = "again"] = r /\ Placed(r)
  BY <1>3, <1>4 DEF LoggingIn, Placed
<1>6. login' = [Evicted(i) EXCEPT ![l] = r]
  BY <1>1, <1>5
<1> HIDE DEF r
<1>7. login'[l] = r /\ \A m \in Logins : m # l => login'[m] = Evicted(i)[m]
  BY <1>4, <1>6 DEF Evicted
<1>8. login' \in [Logins -> LoggingIn] /\ \A m \in Logins : Placed(login'[m])
  <2>1. \A m \in Logins : Placed(login'[m])
    BY <1>2, <1>5, <1>7, EvictedFacts
  <2>2. login' = [m \in Logins |-> login'[m]]
    BY <1>4, <1>6
  <2> QED
    BY <2>1, <2>2 DEF Placed
<1>9. ASSUME NEW m \in Logins, NEW v \in UserNames, v # u, WillGive(m, v)
      PROVE  login'[m] = login[m] \/ (login[m].at = "chown" /\ login[m].inum = i)
  BY <1>2, <1>7, <1>9, EvictedFacts DEF WillGive
<1>10. login'[l].name = u /\ login'[l].at = "again"
  BY <1>7 DEF r
<1>11. orphans' = orphans /\ strays' = strays
  BY <1>2 DEF fates
<1>12. \A m \in Logins : Placed(login[m])'
  BY <1>8 DEF Placed, LoggingIn
<1>13. Homes'
  <2> HIDE DEF u
  <2> QED
    BY <1>1, <1>2, <1>3, <1>8, <1>9, <1>10, <1>11, <1>12, MakeKeeps
<1> QED
  BY <1>2, <1>13, LoginIInv

\* A directory that root makes stays root's, as orphans records.
LEMMA RootMakesHomeIInv ==
    ASSUME IInv, NEW u \in UserNames, RootMakesHome(u)
    PROVE  IInv'
<1>1. PICK i \in Inums : MakeInode(u, i) /\ login' = Evicted(i)
  BY DEF RootMakesHome
<1>2. /\ Homes /\ orphans' = orphans \cup {u} /\ strays' = strays
      /\ UNCHANGED <<passwd, add, removals, deaths, changes, ghost>>
  BY DEF RootMakesHome, IInv
<1>3. login' \in [Logins -> LoggingIn] /\ \A m \in Logins : Placed(login'[m])
  <2>1. \A m \in Logins : Placed(login'[m])
    BY <1>1, <1>2, EvictedFacts
  <2>2. login' = [m \in Logins |-> login'[m]]
    BY <1>1 DEF Evicted
  <2> QED
    BY <2>1, <2>2 DEF Placed
<1>4. ASSUME NEW m \in Logins, NEW v \in UserNames, v # u, WillGive(m, v)
      PROVE  login'[m] = login[m] \/ (login[m].at = "chown" /\ login[m].inum = i)
  BY <1>1, <1>2, EvictedFacts
<1>5. \A m \in Logins : Placed(login[m])'
  BY <1>3 DEF Placed, LoggingIn
<1>6. Homes'
  BY <1>1, <1>2, <1>3, <1>4, <1>5, MakeKeeps
<1> QED
  BY <1>2, <1>6, LoginIInv

\* The inode write gives what was found to the login's user: the user's own
\* directory, or nobody's, or one that strays records.
LEMMA ChownIInv ==
    ASSUME IInv, NEW l \in Logins, Chown(l)
    PROVE  IInv'
<1> DEFINE i == login[l].inum
           u == login[l].name
           r == [at |-> "session", name |-> u, inum |-> i]
<1>1. /\ login[l].at \in {"chown", "stale"}
      /\ \/ owner' = [owner EXCEPT ![i] = ownerBytes(u)]
         \/ login[l].at = "stale" /\ owner' = owner
      /\ stored' = [stored EXCEPT ![i] = ownerBytes(u)]
      /\ strays' = strays \cup {v \in UserNames \ {u} : home[v] = i}
      /\ Goes(l, "session")
      /\ home' = home /\ orphans' = orphans
      /\ UNCHANGED <<passwd, add, deaths, changes, ghost>>
  BY DEF Chown
<1>2. Homes
  BY DEF IInv
<1>3. /\ login[l] \in LoggingIn /\ u \in UserNames /\ i \in Inums
      /\ home \in [UserNames -> Inums \cup {0}]
      /\ owner \in [Inums -> Owners] /\ stored \in [Inums -> Owners]
  BY <1>1, <1>2 DEF Homes, TypedHomes, Placed, LoggingIn
<1>4. login[l].at # "idle"
  BY <1>1
<1>5. Placed(r) /\ login' = [login EXCEPT ![l] = r]
  BY <1>1, <1>2, <1>4, GoesFacts
<1> HIDE DEF r
<1>6. /\ login' \in [Logins -> LoggingIn] /\ login'[l] = r
      /\ \A m \in Logins : m # l => login'[m] = login[m]
  BY <1>2, <1>5 DEF Homes, TypedHomes, Placed
<1>7. /\ owner' \in [Inums -> Owners] /\ stored' \in [Inums -> Owners]
      /\ stored'[i] = ownerBytes(u)
      /\ owner'[i] = ownerBytes(u) \/ (login[l].at = "stale" /\ owner'[i] = owner[i])
      /\ \A j \in Inums : j # i => owner'[j] = owner[j] /\ stored'[j] = stored[j]
  <2>1. ownerBytes(u) \in Owners
    BY <1>3 DEF Owners
  <2>2. stored' \in [Inums -> Owners] /\ stored'[i] = ownerBytes(u) /\ \A j \in Inums : j # i => stored'[j] = stored[j]
    BY <1>1, <1>3, <2>1
  <2>3. CASE login[l].at = "stale" /\ owner' = owner
    BY <1>3, <2>2, <2>3
  <2>4. CASE owner' = [owner EXCEPT ![i] = ownerBytes(u)]
    BY <1>3, <2>1, <2>2, <2>4
  <2> QED
    BY <1>1, <2>3, <2>4
<1>8. TypedHomes'
  <2>1. \A m \in Logins : Placed(login'[m])
    BY <1>2, <1>5, <1>6 DEF Homes, TypedHomes
  <2>2. \A m \in Logins : Placed(login[m])'
    BY <2>1 DEF Placed, LoggingIn
  <2> QED
    BY <1>1, <1>3, <1>6, <1>7, <2>2 DEF TypedHomes
<1>9. ASSUME NEW v \in UserNames, home[v] # 0, v \notin strays'
      PROVE  v \notin strays /\ home[v] \in Inums /\ (v = u \/ home[v] # i)
  BY <1>1, <1>3, <1>9
<1>10. StoredToo'
  <2> SUFFICES ASSUME NEW v \in UserNames, home[v] # 0, v \notin strays'
               PROVE  stored'[home[v]] \in {"root", ownerBytes(v)}
    BY <1>1 DEF StoredToo, ownerBytes
  <2> QED
    BY <1>2, <1>7, <1>9 DEF Homes, StoredToo
<1>11. HomePending'
  <2> SUFFICES ASSUME NEW v \in UserNames, home[v] # 0, v \notin strays'
               PROVE  \/ owner'[home[v]] = ownerBytes(v)
                      \/ owner'[home[v]] = "root" /\ (v \in orphans \/ \E m \in Logins : WillGive(m, v)')
    BY <1>1 DEF HomePending, ownerBytes
  <2>1. \/ owner[home[v]] = ownerBytes(v)
        \/ owner[home[v]] = "root" /\ (v \in orphans \/ \E m \in Logins : WillGive(m, v))
    BY <1>2, <1>9 DEF Homes, HomePending
  <2>2. CASE v = u /\ home[v] = i /\ owner'[i] = ownerBytes(u)
    BY <2>2
  <2>3. CASE ~(v = u /\ home[v] = i /\ owner'[i] = ownerBytes(u))
    <3>1. owner'[home[v]] = owner[home[v]]
      BY <1>7, <1>9, <2>3
    <3>2. ~WillGive(l, v)
      BY <1>1, <1>7, <1>9, <2>3 DEF WillGive
    <3>3. ASSUME NEW m \in Logins, WillGive(m, v) PROVE WillGive(m, v)'
      BY <1>1, <1>6, <3>2, <3>3 DEF WillGive
    <3> QED
      BY <2>1, <3>1, <3>3
  <2> QED
    BY <2>2, <2>3
<1> QED
  BY <1>1, <1>8, <1>10, <1>11, LoginIInv DEF Homes

\* A session that ends leaves the home directory as it is.
LEMMA LogoutIInv ==
    ASSUME IInv, NEW l \in Logins, Logout(l)
    PROVE  IInv'
<1>1. /\ login[l].at = "session" /\ login' = [login EXCEPT ![l] = NoLogin] /\ Homes
      /\ UNCHANGED <<passwd, add, homes, deaths, changes, ghost, fates>>
  BY DEF Logout, IInv
<1>2. Placed(NoLogin)
  BY DEF NoLogin, Placed, LoggingIn
<1>3. \A v \in UserNames : ~WillGive(l, v)
  BY <1>1 DEF WillGive
<1>4. Homes'
  BY <1>1, <1>2, <1>3, PlaceKeeps
<1> QED
  BY <1>1, <1>4, LoginIInv

\* With the directory goes what is said of it.
LEMMA RemoveHomeIInv ==
    ASSUME IInv, NEW u \in UserNames, RemoveHome(u)
    PROVE  IInv'
<1>1. /\ home' = [home EXCEPT ![u] = 0] /\ Homes
      /\ orphans' = orphans \ {u} /\ strays' = strays \ {u}
      /\ login' = login /\ owner' = owner /\ stored' = stored
      /\ UNCHANGED <<passwd, add, deaths, changes, ghost>>
  BY DEF RemoveHome, IInv
<1>2. /\ home' \in [UserNames -> Inums \cup {0}] /\ home'[u] = 0
      /\ \A v \in UserNames : v # u => home'[v] = home[v]
  BY <1>1 DEF Homes, TypedHomes
<1>3. TypedHomes'
  BY <1>1, <1>2 DEF Homes, TypedHomes
<1>4. StoredToo'
  BY <1>1, <1>2 DEF Homes, StoredToo, ownerBytes
<1>5. HomePending'
  <2> SUFFICES ASSUME NEW v \in UserNames, home'[v] # 0, v \notin strays'
               PROVE  \/ owner[home'[v]] = ownerBytes(v)
                      \/ owner[home'[v]] = "root" /\ (v \in orphans' \/ \E m \in Logins : WillGive(m, v)')
    BY <1>1 DEF HomePending, ownerBytes
  <2>1. v # u /\ home'[v] = home[v] /\ home[v] # 0 /\ v \notin strays
    BY <1>1, <1>2
  <2>2. \/ owner[home[v]] = ownerBytes(v)
        \/ owner[home[v]] = "root" /\ (v \in orphans \/ \E m \in Logins : WillGive(m, v))
    BY <1>1, <2>1 DEF Homes, HomePending
  <2>3. ASSUME NEW m \in Logins, WillGive(m, v) PROVE WillGive(m, v)'
    BY <1>1, <2>1, <2>3 DEF WillGive
  <2> QED
    BY <1>1, <2>1, <2>2, <2>3
<1> QED
  BY <1>1, <1>3, <1>4, <1>5, LoginIInv DEF Homes

\* A death ends every goroutine; a directory nobody gave away stays root's.
LEMMA RestartIInv ==
    ASSUME IInv, Restart
    PROVE  IInv'
<1>1. /\ add' = [a \in Adders |-> NoAdd] /\ login' = [l \in Logins |-> NoLogin]
      /\ orphans' = orphans \cup {u \in UserNames : home[u] # 0 /\ stored[home[u]] = "root"}
      /\ owner' = stored /\ stored' = stored /\ home' = home /\ strays' = strays
      /\ UNCHANGED <<passwd, acked, lost, doubled>>
  BY DEF Restart, ghost
<1>2. NoAdd \in Adding /\ NoLogin \in LoggingIn /\ Placed(NoLogin)
  BY DEF NoAdd, Adding, NoLogin, LoggingIn, Placed
<1>3. TypedFile'
  BY <1>1, <1>2 DEF IInv, TypedFile
<1>4. \A a \in Adders : UpToDate(a)'
  BY <1>1 DEF UpToDate, NoAdd
<1>5. TypedHomes'
  <2>1. \A m \in Logins : login'[m] = NoLogin
    BY <1>1
  <2>2. \A m \in Logins : Placed(login[m])'
    BY <1>2, <2>1 DEF Placed, LoggingIn
  <2> QED
    BY <1>1, <1>2, <2>2 DEF IInv, Homes, TypedHomes
<1>6. StoredToo'
  BY <1>1 DEF IInv, Homes, StoredToo, ownerBytes
<1>7. HomePending'
  <2> SUFFICES ASSUME NEW u \in UserNames, home[u] # 0, u \notin strays
               PROVE  stored[home[u]] = ownerBytes(u) \/ (stored[home[u]] = "root" /\ u \in orphans')
    BY <1>1 DEF HomePending, ownerBytes
  <2> QED
    BY <1>1 DEF IInv, Homes, StoredToo
<1>8. NamesOnce' /\ AckedStay'
  BY <1>1 DEF IInv, NamesOnce, AckedStay
<1> QED
  BY <1>3, <1>4, <1>5, <1>6, <1>7, <1>8 DEF IInv, Homes

\* Every step keeps the invariant.
LEMMA NextIInv == IInv /\ [Next]_vars => IInv'
<1> SUFFICES ASSUME IInv, [Next]_vars PROVE IInv'
  OBVIOUS
<1>1. CASE UNCHANGED vars
  <2>1. Homes'
    BY <1>1, HomesStay DEF vars, IInv
  <2> QED
    BY <1>1, <2>1 DEF vars, ghost, IInv, TypedFile, UpToDate, NamesOnce, AckedStay
<1>2. CASE \E a \in Adders, u \in UserNames : IsUsernameUnique(a, u) \/ AdminRead(a, u)
  BY <1>2, IsUsernameUniqueIInv, AdminReadIInv
<1>3. CASE \E a \in Adders : Interrupted(a) \/ FindUID(a) \/ AddUserRead(a)
  BY <1>3, QuitIInv, FindUIDIInv, AddUserReadIInv DEF Interrupted
<1>4. CASE \E a \in Adders : AddUserWrite(a) \/ AddUserFails(a)
  BY <1>4, AddUserWriteIInv, QuitIInv DEF AddUserFails
<1>5. CASE RemovePasswd \/ TouchPasswd
  BY <1>5, RemovePasswdIInv, TouchPasswdIInv
<1>6. CASE \E l \in Logins, u \in UserNames : CheckCredentials(l, u)
  BY <1>6, CheckCredentialsIInv
<1>7. CASE \E l \in Logins : NewSession(l) \/ Logout(l)
  BY <1>7, LookForHomeIInv, MkDirIInv, MkDirFailsIInv, LookAgainIInv, GetInodeIInv, ChownIInv, LogoutIInv
     DEF NewSession
<1>8. CASE \E u \in UserNames : RootMakesHome(u) \/ RemoveHome(u)
  BY <1>8, RootMakesHomeIInv, RemoveHomeIInv
<1>9. CASE Restart
  BY <1>9, RestartIInv
<1> QED
  BY <1>1, <1>2, <1>3, <1>4, <1>5, <1>6, <1>7, <1>8, <1>9 DEF Next

\* The inductive invariant holds throughout; fairness is not needed for it.
LEMMA Invariance == Spec => []IInv
<1>1. Init => IInv
  BY InitIInv
<1>2. IInv /\ [Next]_vars => IInv'
  BY NextIInv
<1> QED
  BY <1>1, <1>2, PTL DEF Spec

-----------------------------------------------------------------------------
\* /etc/passwd holds lines of names and ids, whoever writes it has a name and an
\* id to write, and NewSession changes only inodes that ResolvePath has found
\* (adduser.go, handle_admin.go, computer.go).
THEOREM TypeCorrect == Spec => []TypeOK
<1>1. IInv => TypeOK
  <2> SUFFICES ASSUME IInv PROVE TypeOK
    OBVIOUS
  <2>1. \A k \in DOMAIN passwd.lines : passwd.lines[k] \in Line
    BY DEF IInv, TypedFile
  <2>2. \A a \in Adders : add[a].at \in {"read", "write"} => add[a].name \in UserNames /\ add[a].uid >= 1000
    BY DEF IInv, UpToDate
  <2> QED
    BY <2>1, <2>2 DEF IInv, TypedFile, Homes, TypedHomes, Placed, TypeOK
<1> QED
  BY <1>1, Invariance, PTL

\* No name and no user id is given twice, by any number of adduser programs and
\* admin commands, until a write relies on a check that a change overtook
\* (adduser.go:60-81, handle_admin.go:152-171).
THEOREM NamesGivenOnce == Spec => []NamesOnce
<1>1. IInv => NamesOnce
  BY DEF IInv
<1> QED
  BY <1>1, Invariance, PTL

\* A user whose addition was reported stays listed, until a write goes over a
\* change made since it read (adduser.go:127-144).
THEOREM AcknowledgedStay == Spec => []AckedStay
<1>1. IInv => AckedStay
  BY DEF IInv
<1> QED
  BY <1>1, Invariance, PTL

\* A home directory has the first 13 bytes of its user's name as its owner, or
\* it is root's and a login under way will change that, or nobody will because
\* root made it or a death came in between, for any number of logins, removals
\* and reuses of inodes, until the login of another user writes over it
\* (computer.go:160-175, fs_inode.go:91-98).
THEOREM HomesPending == Spec => []HomePending
<1>1. IInv => HomePending
  BY DEF IInv, Homes
<1> QED
  BY <1>1, Invariance, PTL
=============================================================================
