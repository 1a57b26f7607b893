--------------------------- MODULE TerminalProofs ---------------------------
(***************************************************************************)
(* Proofs about Terminal, for any number of connections, users, processes   *)
(* and keystrokes.                                                          *)
(***************************************************************************)
EXTENDS Terminal, FiniteSetTheorems, SequenceTheorems, TLAPS

-----------------------------------------------------------------------------
(* The invariant. *)

Places == {"none", "boot", "start", "run", "read", "passwd", "session", "store", "attach",
           "ok", "fail", "loggedin", "regain", "raw", "closed"}

Scan == [do : {"none", "scan", "send", "signal", "handle", "cancel", "ended"}, key : Keys \cup {""},
         left : SUBSET Process, now : Process \cup {NoProc}]

Tty == [fg : Nat \cup {-1}, canonical : BOOLEAN, passwd : BOOLEAN]

Typed ==
    /\ link \in [Conns -> {"new", "up", "down"}]
    /\ at \in [Conns -> Places] /\ scan \in [Conns -> Scan] /\ tty \in [Conns -> Tty]
    /\ stack \in [Conns -> Seq(Process)]
    /\ pids \in Nat /\ procs \subseteq Process /\ cancelled \subseteq Process
    /\ hung \in [Conns -> BOOLEAN] /\ late \in [Conns -> Nat]

\* login's variables.  A session that is looked up has been entered.
Logins ==
    /\ name \in [Conns -> Users \cup {NoUser}] /\ session \in [Conns -> Users \cup {NoUser}]
    /\ sid \in [Conns -> Nat]
    /\ IsFiniteSet(DOMAIN sessions) /\ DOMAIN sessions \subseteq Nat \ {0}
    /\ \A i \in DOMAIN sessions : sessions[i] \in Users \cup {NoUser}
    /\ \A c \in Conns : /\ at[c] = "store" => sid[c] # 0
                        /\ at[c] = "attach" => sid[c] \in DOMAIN sessions

\* The chains there are: login, a shell, or a shell and the program it waits for.
LoginRuns(c) == Len(stack[c]) = 1 /\ stack[c][1].prog = "login"

ShellRuns(c) == Len(stack[c]) = 1 /\ stack[c][1].prog = "sh"

ProgramRuns(c) == /\ Len(stack[c]) = 2 /\ stack[c][1].prog = "sh" /\ stack[c][2].prog \in Programs
                  /\ stack[c][1].pid # stack[c][2].pid

\* What is on the chain at each place.
Shape(c) ==
    /\ link[c] = "new" => at[c] = "none"
    /\ at[c] \in {"none", "boot", "loggedin", "closed"} => Len(stack[c]) = 0
    /\ at[c] \in {"start", "run", "read", "passwd", "ok", "fail"} =>
          LoginRuns(c) \/ ShellRuns(c) \/ ProgramRuns(c)
    /\ at[c] = "passwd" => stack[c][Len(stack[c])].prog \in {"login", "adduser"}
    /\ at[c] \in {"session", "store", "attach"} => LoginRuns(c)
    /\ at[c] \in {"regain", "raw"} => ShellRuns(c)

\* The table holds the processes of the chains, and a chain those of its connection.
Table ==
    /\ \A c \in Conns : \A k \in DOMAIN stack[c] : stack[c][k] \in procs /\ stack[c][k].conn = c
    /\ \A p \in procs : \E c \in Conns : \E k \in DOMAIN stack[c] : p = stack[c][k]

\* The processes a scanner has in hand: the rest of its snapshot, and the one it signals.
InHand(c) == scan[c].left \cup (IF scan[c].do \in {"handle", "cancel"} THEN {scan[c].now} ELSE {})

\* They may have left the table.
Known == procs \cup UNION {InHand(c) : c \in Conns}

\* No PID is used twice, even after its process has left the table.
PidsApart ==
    /\ Known \subseteq Process
    /\ \A p \in Known : 0 < p.pid /\ p.pid <= pids
    /\ \A p, q \in Known : p.pid = q.pid => p = q

\* The foreground group of a terminal is that of its last process, but between
\* an exec or an exit and the ioctl that follows; it never is another terminal's.
Fg(c) ==
    /\ tty[c].fg <= pids
    /\ \A p \in Known : p.pid = tty[c].fg => p.conn = c
    /\ at[c] \in {"run", "read", "passwd", "session", "store", "attach", "ok", "fail", "raw"} =>
          tty[c].fg = stack[c][Len(stack[c])].pid
    /\ at[c] \in {"none", "boot"} \/ (at[c] = "start" /\ LoginRuns(c)) => tty[c].fg = -1
    /\ at[c] = "start" /\ ProgramRuns(c) => tty[c].fg = stack[c][1].pid
    /\ scan[c].do \in {"signal", "handle", "cancel"} => tty[c].fg # -1

\* Who handles a signal is on the chain, or has left it to a shell or to nobody.
Home(c) ==
    scan[c].do \in {"handle", "cancel"} =>
        /\ scan[c].now.conn = c
        /\ \/ \E k \in DOMAIN stack[c] : scan[c].now = stack[c][k]
           \/ Len(stack[c]) = 0
           \/ stack[c][Len(stack[c])].prog = "sh"

Masked(c) ==
    at[c] = "passwd" /\ ~tty[c].passwd =>
        \/ hung[c] \/ \E k \in DOMAIN stack[c] : stack[c][k] \in cancelled
        \/ scan[c].do = "cancel" /\ scan[c].now = stack[c][Len(stack[c])]

Core == /\ Table /\ PidsApart
        /\ \A c \in Conns : Shape(c) /\ Fg(c) /\ Home(c) /\ Masked(c)

IInv == Typed /\ Logins /\ Core

-----------------------------------------------------------------------------
(* What the steps do. *)

\* A step of c changes nothing of another connection.
Others(c) == \A d \in Conns : d # c => at'[d] = at[d] /\ tty'[d] = tty[d] /\ scan'[d] = scan[d]

\* The scanner is left alone, or rid of its keystroke.
Taken(c) == scan'[c] = scan[c] \/ (scan[c].do = "send" /\ scan'[c] = Idle)

\* The last process of c goes on, on an unchanged chain and with an unchanged
\* foreground group.
Moves(c) ==
    /\ UNCHANGED <<link, stack, pids, procs, hung, late>>
    /\ Others(c) /\ Taken(c) /\ tty'[c].fg = tty[c].fg /\ cancelled \subseteq cancelled'
    /\ \/ at'[c] = at[c] /\ tty'[c].passwd = tty[c].passwd
       \/ at[c] \in {"run", "read", "passwd"} /\ at'[c] \in {"read", "ok", "fail"}
       \/ /\ at[c] = "read" /\ at'[c] = "passwd" /\ tty'[c].passwd
          /\ stack[c][Len(stack[c])].prog \in {"login", "adduser"}
       \/ at[c] = "passwd" /\ at'[c] = "session" /\ stack[c][Len(stack[c])].prog = "login"
       \/ at[c] = "session" /\ at'[c] = "store"
       \/ at[c] = "store" /\ at'[c] = "attach"
       \/ at[c] = "attach" /\ at'[c] = "ok"
       \/ at[c] = "raw" /\ at'[c] = "read"

\* An ioctl changes one flag of one terminal.
LEMMA TtyFacts ==
    ASSUME tty \in [Conns -> Tty], NEW c \in Conns, NEW b \in BOOLEAN, NEW n \in Nat
    PROVE  /\ tty' = [tty EXCEPT ![c].canonical = b] =>
                 /\ tty' \in [Conns -> Tty] /\ \A d \in Conns : d # c => tty'[d] = tty[d]
                 /\ tty'[c].fg = tty[c].fg /\ tty'[c].passwd = tty[c].passwd
           /\ tty' = [tty EXCEPT ![c].passwd = b] =>
                 /\ tty' \in [Conns -> Tty] /\ \A d \in Conns : d # c => tty'[d] = tty[d]
                 /\ tty'[c].fg = tty[c].fg /\ tty'[c].passwd = b
           /\ tty' = [tty EXCEPT ![c].fg = n] =>
                 /\ tty' \in [Conns -> Tty] /\ \A d \in Conns : d # c => tty'[d] = tty[d]
                 /\ tty'[c].fg = n /\ tty'[c].passwd = tty[c].passwd
BY DEF Tty

\* A scanner with nothing in hand.
LEMMA IdleFields == Idle \in Scan /\ Idle.do = "scan" /\ Idle.left = {}
BY DEF Idle, Scan

\* A process goes on to its next place.
LEMMA GotoFacts ==
    ASSUME at \in [Conns -> Places], NEW c \in Conns, NEW place \in Places, Goto(c, place)
    PROVE  at' \in [Conns -> Places] /\ at'[c] = place /\ \A d \in Conns : d # c => at'[d] = at[d]
BY DEF Goto

\* Where a process runs there is a last one on the chain.
LEMMA TopFacts ==
    ASSUME Typed, Core, NEW c \in Conns, at[c] \notin {"none", "boot", "loggedin", "closed"}
    PROVE  /\ LoginRuns(c) \/ ShellRuns(c) \/ ProgramRuns(c)
           /\ stack[c] \in Seq(Process) /\ Len(stack[c]) \in 1 .. 2 /\ DOMAIN stack[c] = 1 .. Len(stack[c])
           /\ Top(c) = stack[c][Len(stack[c])] /\ Top(c) \in Process /\ Top(c) \in procs
           /\ Top(c).conn = c /\ 0 < Top(c).pid /\ Top(c).pid <= pids /\ Top(c).pid \in Nat
<1>1. Shape(c) /\ stack[c] \in Seq(Process) /\ at[c] \in Places
  BY DEF Typed, Core
<1>2. LoginRuns(c) \/ ShellRuns(c) \/ ProgramRuns(c)
  BY <1>1 DEF Shape, Places
<1>3. Len(stack[c]) \in 1 .. 2 /\ DOMAIN stack[c] = 1 .. Len(stack[c]) /\ Len(stack[c]) \in DOMAIN stack[c]
  BY <1>1, <1>2 DEF LoginRuns, ShellRuns, ProgramRuns
<1>4. Top(c) = stack[c][Len(stack[c])] /\ Top(c) \in Process
  BY <1>1, <1>3 DEF Top, Last
<1>5. Top(c) \in procs /\ Top(c).conn = c
  BY <1>3, <1>4 DEF Core, Table
<1>6. 0 < Top(c).pid /\ Top(c).pid <= pids /\ Top(c).pid \in Nat
  BY <1>4, <1>5 DEF Core, PidsApart, Known, Process
<1> QED
  BY <1>1, <1>2, <1>3, <1>4, <1>5, <1>6

\* What a program does first.
LEMMA RunMoves ==
    ASSUME Typed, Core, NEW c \in Conns,
           RunLogin(c) \/ RunShell(c) \/ RunAdduser(c) \/ RunEditor(c) \/ RunCommand(c)
    PROVE  Typed' /\ Moves(c) /\ UNCHANGED login /\ at'[c] \notin {"store", "attach"}
<1>1. at[c] = "run" /\ UNCHANGED <<link, scan, stack, pids, procs, cancelled, hung, late, login>>
  BY DEF RunLogin, RunShell, RunAdduser, RunEditor, RunCommand, Begins
<1>2. \E place \in {"read", "ok", "fail"} : Goto(c, place)
  BY DEF RunLogin, RunShell, RunAdduser, RunEditor, RunCommand, Begins
<1>3. \/ UNCHANGED tty
      \/ tty' = [tty EXCEPT ![c].canonical = FALSE]
      \/ tty' = [tty EXCEPT ![c].canonical = TRUE]
  BY DEF RunLogin, RunShell, RunAdduser, RunEditor, RunCommand
<1>4. at' \in [Conns -> Places] /\ at'[c] \in {"read", "ok", "fail"} /\ \A d \in Conns : d # c => at'[d] = at[d]
  BY <1>2, GotoFacts DEF Typed, Places
<1>5. tty' \in [Conns -> Tty] /\ tty'[c].fg = tty[c].fg /\ \A d \in Conns : d # c => tty'[d] = tty[d]
  BY <1>3, TtyFacts DEF Typed
<1> QED
  BY <1>1, <1>4, <1>5 DEF Typed, Moves, Others, Taken

\* Read hands the keystroke over, and the scanner scans again.
LEMMA TakesFacts ==
    ASSUME Typed, Core, NEW c \in Conns, Takes(c)
    PROVE  /\ at[c] \in {"read", "passwd"} /\ Taken(c) /\ scan' \in [Conns -> Scan]
           /\ scan[c].do = "send" /\ scan'[c] = Idle
           /\ \A d \in Conns : d # c => scan'[d] = scan[d]
           /\ Top(c) = stack[c][Len(stack[c])] /\ Top(c) \in Process
<1>1. at[c] \in {"read", "passwd"} /\ scan[c].do = "send" /\ scan' = [scan EXCEPT ![c] = Idle]
  BY DEF Takes, Reading
<1>2. Idle \in Scan
  BY DEF Idle, Scan
<1>3. scan \in [Conns -> Scan]
  BY DEF Typed
<1> QED
  BY <1>1, <1>2, <1>3, TopFacts DEF Taken

\* What a program does with what it has read, short of an exec.
LEMMA ReadMoves ==
    ASSUME Typed, Core, NEW c \in Conns,
           \/ Absorb(c) \/ LoginName(c) \/ LoginPassword(c) \/ AdduserName(c) \/ AdduserPassword(c)
           \/ EditorKey(c) \/ ShellKey(c) \/ ShellExit(c)
    PROVE  /\ Typed' /\ Moves(c)
           /\ UNCHANGED <<sid, sessions, session>>
           /\ at'[c] \notin {"store", "attach"}
<1>0. Takes(c) /\ UNCHANGED <<link, stack, pids, procs, hung, late>>
  BY DEF Absorb, LoginName, LoginPassword, AdduserName, AdduserPassword, EditorKey, ShellKey, ShellExit, Reads, chain
<1>1. /\ at[c] \in {"read", "passwd"} /\ Taken(c) /\ scan' \in [Conns -> Scan]
      /\ \A d \in Conns : d # c => scan'[d] = scan[d]
      /\ Top(c) = stack[c][Len(stack[c])] /\ Top(c) \in Process
  BY <1>0, TakesFacts
<1>2. at \in [Conns -> Places] /\ tty \in [Conns -> Tty] /\ cancelled \subseteq Process
  BY DEF Typed
<1>3. ASSUME at' \in [Conns -> Places], \A d \in Conns : d # c => at'[d] = at[d],
             tty' \in [Conns -> Tty], tty'[c].fg = tty[c].fg, \A d \in Conns : d # c => tty'[d] = tty[d],
             cancelled \subseteq cancelled', cancelled' \subseteq Process,
             \/ at'[c] = at[c] /\ tty'[c].passwd = tty[c].passwd
             \/ at'[c] \in {"ok", "fail"}
             \/ /\ at[c] = "read" /\ at'[c] = "passwd" /\ tty'[c].passwd
                /\ Top(c).prog \in {"login", "adduser"}
             \/ at[c] = "passwd" /\ at'[c] = "session" /\ Top(c).prog = "login"
      PROVE  Typed' /\ Moves(c) /\ at'[c] \notin {"store", "attach"}
  BY <1>0, <1>1, <1>3 DEF Typed, Moves, Others
<1>4. CASE Absorb(c) \/ ShellKey(c)
  <2>1. UNCHANGED <<at, tty, cancelled, login>>
    BY <1>4 DEF Absorb, ShellKey, chain
  <2> QED
    BY <1>2, <1>3, <2>1 DEF login
<1>5. CASE EditorKey(c)
  <2>1. UNCHANGED <<at, login>> /\ cancelled \subseteq cancelled' /\ cancelled' \subseteq Process
    BY <1>1, <1>2, <1>5 DEF EditorKey, chain
  <2>2. UNCHANGED tty \/ tty' = [tty EXCEPT ![c].canonical = TRUE]
    BY <1>5 DEF EditorKey
  <2>3. /\ tty' \in [Conns -> Tty] /\ tty'[c].fg = tty[c].fg /\ tty'[c].passwd = tty[c].passwd
        /\ \A d \in Conns : d # c => tty'[d] = tty[d]
    BY <1>2, <2>2, TtyFacts
  <2> QED
    BY <1>2, <1>3, <2>1, <2>3 DEF login
<1>6. CASE ShellExit(c)
  <2>1. Goto(c, "ok") /\ tty' = [tty EXCEPT ![c].canonical = TRUE] /\ UNCHANGED <<cancelled, login>>
    BY <1>6 DEF ShellExit
  <2>2. at' \in [Conns -> Places] /\ at'[c] = "ok" /\ \A d \in Conns : d # c => at'[d] = at[d]
    BY <1>2, <2>1, GotoFacts DEF Places
  <2>3. tty' \in [Conns -> Tty] /\ tty'[c].fg = tty[c].fg /\ \A d \in Conns : d # c => tty'[d] = tty[d]
    BY <1>2, <2>1, TtyFacts
  <2> QED
    BY <1>2, <1>3, <2>1, <2>2, <2>3 DEF login
<1>7. CASE LoginName(c) \/ AdduserName(c)
  <2>0. /\ at[c] = "read" /\ Top(c).prog \in {"login", "adduser"} /\ UNCHANGED cancelled
        /\ UNCHANGED <<sid, sessions, session>>
    BY <1>7 DEF LoginName, AdduserName, Reads, login
  <2>1. \/ Goto(c, "fail") /\ UNCHANGED tty
        \/ Goto(c, "passwd") /\ tty' = [tty EXCEPT ![c].passwd = TRUE]
    BY <1>7 DEF LoginName, AdduserName
  <2>2. CASE Goto(c, "fail") /\ UNCHANGED tty
    <3>1. at' \in [Conns -> Places] /\ at'[c] = "fail" /\ \A d \in Conns : d # c => at'[d] = at[d]
      BY <1>2, <2>2, GotoFacts DEF Places
    <3> QED
      BY <1>2, <1>3, <2>0, <2>2, <3>1
  <2>3. CASE Goto(c, "passwd") /\ tty' = [tty EXCEPT ![c].passwd = TRUE]
    <3>1. at' \in [Conns -> Places] /\ at'[c] = "passwd" /\ \A d \in Conns : d # c => at'[d] = at[d]
      BY <1>2, <2>3, GotoFacts DEF Places
    <3>2. /\ tty' \in [Conns -> Tty] /\ tty'[c].fg = tty[c].fg /\ tty'[c].passwd
          /\ \A d \in Conns : d # c => tty'[d] = tty[d]
      BY <1>2, <2>3, TtyFacts
    <3> QED
      BY <1>2, <1>3, <2>0, <3>1, <3>2
  <2> QED
    BY <2>1, <2>2, <2>3
<1>8. CASE LoginPassword(c) \/ AdduserPassword(c)
  <2>0. at[c] = "passwd" /\ UNCHANGED <<cancelled, login>>
    BY <1>8 DEF LoginPassword, AdduserPassword, Reads
  <2>1. UNCHANGED tty \/ tty' = [tty EXCEPT ![c].passwd = FALSE]
    BY <1>8 DEF LoginPassword, AdduserPassword
  <2>2. Goto(c, "ok") \/ Goto(c, "fail") \/ (Goto(c, "session") /\ Top(c).prog = "login")
    BY <1>8 DEF LoginPassword, AdduserPassword, Reads
  <2>3. /\ at' \in [Conns -> Places] /\ \A d \in Conns : d # c => at'[d] = at[d]
        /\ at'[c] \in {"ok", "fail"} \/ (at'[c] = "session" /\ Top(c).prog = "login")
    BY <1>2, <2>2, GotoFacts DEF Places
  <2>4. tty' \in [Conns -> Tty] /\ tty'[c].fg = tty[c].fg /\ \A d \in Conns : d # c => tty'[d] = tty[d]
    BY <1>2, <2>1, TtyFacts
  <2> QED
    BY <1>2, <1>3, <2>0, <2>3, <2>4 DEF login
<1> QED
  BY <1>4, <1>5, <1>6, <1>7, <1>8 DEF login

\* The other steps of a process on an unchanged chain.
LEMMA OtherMoves ==
    ASSUME Typed, Core, NEW c \in Conns,
           GenerateSessionID(c) \/ NewSession(c) \/ AttachSession(c) \/ Raw(c) \/ Interrupted(c)
    PROVE  Typed' /\ Moves(c)
<1>1. at \in [Conns -> Places] /\ tty \in [Conns -> Tty] /\ cancelled \subseteq Process
  BY DEF Typed
<1>2. UNCHANGED <<link, scan, stack, pids, procs, cancelled, hung, late>>
  BY DEF GenerateSessionID, NewSession, AttachSession, Raw, Interrupted
<1>3. \/ UNCHANGED tty
      \/ tty' = [tty EXCEPT ![c].canonical = FALSE]
      \/ tty' = [tty EXCEPT ![c].canonical = TRUE]
  BY DEF GenerateSessionID, NewSession, AttachSession, Raw, Interrupted
<1>4. tty' \in [Conns -> Tty] /\ tty'[c].fg = tty[c].fg /\ \A d \in Conns : d # c => tty'[d] = tty[d]
  BY <1>1, <1>3, TtyFacts
<1>5. /\ at' \in [Conns -> Places] /\ \A d \in Conns : d # c => at'[d] = at[d]
      /\ \/ at[c] \in {"read", "passwd"} /\ at'[c] \in {"ok", "fail"}
         \/ at[c] = "session" /\ at'[c] = "store"
         \/ at[c] = "store" /\ at'[c] = "attach"
         \/ at[c] = "attach" /\ at'[c] = "ok"
         \/ at[c] = "raw" /\ at'[c] = "read"
  <2>1. CASE Interrupted(c)
    <3>1. at[c] \in {"read", "passwd"} /\ \E place \in {"ok", "fail"} : Goto(c, place)
      BY <2>1 DEF Interrupted, Reading
    <3> QED
      BY <1>1, <3>1, GotoFacts DEF Places
  <2>2. CASE GenerateSessionID(c) \/ NewSession(c) \/ AttachSession(c) \/ Raw(c)
    BY <1>1, <2>2, GotoFacts DEF GenerateSessionID, NewSession, AttachSession, Raw, Places
  <2> QED
    BY <2>1, <2>2
<1> QED
  BY <1>2, <1>4, <1>5 DEF Typed, Moves, Others, Taken

-----------------------------------------------------------------------------
(* The chains, the table and the terminals are kept. *)

\* A scanner that is left alone, or rid of its keystroke, knows no more processes.
LEMMA KnownTaken ==
    ASSUME NEW c \in Conns, Taken(c), \A d \in Conns : d # c => scan'[d] = scan[d], procs' \subseteq procs
    PROVE  Known' \subseteq Known
<1>1. ASSUME NEW d \in Conns PROVE InHand(d)' \subseteq InHand(d)
  <2>1. CASE scan'[d] = scan[d]
    BY <2>1 DEF InHand
  <2>2. CASE scan'[d] = Idle
    BY <2>2, IdleFields DEF InHand
  <2> QED
    BY <2>1, <2>2 DEF Taken
<1> QED
  BY <1>1 DEF Known

\* With no new process the PIDs stay apart.
LEMMA PidsKept ==
    ASSUME PidsApart, Known' \subseteq Known, UNCHANGED pids
    PROVE  PidsApart'
BY DEF PidsApart

\* With no new process, a terminal whose place, chain and foreground group stay
\* keeps what is said of the group.
LEMMA FgKept ==
    ASSUME NEW d \in Conns, Fg(d), Known' \subseteq Known, UNCHANGED pids,
           at'[d] = at[d], stack'[d] = stack[d], tty'[d].fg = tty[d].fg,
           scan'[d].do \in {"signal", "handle", "cancel"} => tty[d].fg # -1
    PROVE  Fg(d)'
BY DEF Fg, LoginRuns, ProgramRuns

\* A process that goes on disturbs nothing.
LEMMA MovesCore ==
    ASSUME Typed, Core, NEW c \in Conns, Moves(c)
    PROVE  Core'
<1>0. /\ UNCHANGED <<link, stack, pids, procs, hung>> /\ Others(c) /\ Taken(c) /\ tty'[c].fg = tty[c].fg
      /\ cancelled \subseteq cancelled'
  BY DEF Moves
<1>1. Known' \subseteq Known
  BY <1>0, KnownTaken DEF Others
<1>2. Table' /\ PidsApart'
  BY <1>0, <1>1, PidsKept DEF Core, Table
<1>3. ASSUME NEW d \in Conns, d # c PROVE Shape(d)' /\ Fg(d)' /\ Home(d)' /\ Masked(d)'
  <2>1. /\ Shape(d) /\ Fg(d) /\ Home(d) /\ Masked(d)
        /\ at'[d] = at[d] /\ tty'[d] = tty[d] /\ scan'[d] = scan[d] /\ stack'[d] = stack[d]
    BY <1>0, <1>3 DEF Core, Others
  <2>2. Shape(d)' /\ Home(d)'
    BY <1>0, <2>1 DEF Shape, Home, LoginRuns, ShellRuns, ProgramRuns
  <2>3. Fg(d)'
    BY <1>0, <1>1, <2>1, FgKept DEF Fg
  <2>4. Masked(d)'
    BY <1>0, <2>1 DEF Masked
  <2> QED
    BY <2>2, <2>3, <2>4
<1>4. Shape(c) /\ Fg(c) /\ Home(c) /\ Masked(c) /\ at[c] \in Places
  BY DEF Core, Typed
<1>5. Shape(c)'
  <2>1. /\ (LoginRuns(c)' <=> LoginRuns(c)) /\ (ShellRuns(c)' <=> ShellRuns(c))
        /\ (ProgramRuns(c)' <=> ProgramRuns(c))
    BY <1>0 DEF LoginRuns, ShellRuns, ProgramRuns
  <2>2. CASE at'[c] = at[c]
    BY <1>0, <1>4, <2>1, <2>2 DEF Shape
  <2>3. CASE at'[c] # at[c]
    <3>1. link'[c] # "new"
      BY <1>0, <1>4, <2>3 DEF Shape, Moves
    <3>2. LoginRuns(c) \/ ShellRuns(c) \/ ProgramRuns(c)
      BY <1>4, <2>3 DEF Shape, Moves
    <3>3. stack[c][Len(stack[c])].prog = "login" => LoginRuns(c)
      BY <3>2 DEF LoginRuns, ShellRuns, ProgramRuns, Programs
    <3> QED
      BY <1>0, <1>4, <2>1, <2>3, <3>1, <3>2, <3>3 DEF Shape, Moves
  <2> QED
    BY <2>2, <2>3
<1>6. scan'[c].do \in {"signal", "handle", "cancel"} => scan'[c] = scan[c]
  BY <1>0, IdleFields DEF Taken
<1>7. Fg(c)'
  <2>1. CASE at'[c] = at[c]
    BY <1>0, <1>1, <1>4, <1>6, <2>1, FgKept DEF Fg
  <2>2. CASE at'[c] # at[c]
    <3>1. /\ at[c] \in {"run", "read", "passwd", "session", "store", "attach", "raw"}
          /\ at'[c] \in {"read", "passwd", "session", "store", "attach", "ok", "fail"}
      BY <2>2 DEF Moves
    <3> QED
      BY <1>0, <1>1, <1>4, <1>6, <3>1 DEF Fg
  <2> QED
    BY <2>1, <2>2
<1>8. Home(c)'
  BY <1>0, <1>4, <1>6 DEF Home
<1>9. Masked(c)'
  <2>1. CASE at'[c] = at[c] /\ tty'[c].passwd = tty[c].passwd
    <3>1. scan[c].do = "cancel" => scan'[c] = scan[c]
      BY <1>0 DEF Taken
    <3> QED
      BY <1>0, <1>4, <2>1, <3>1 DEF Masked
  <2>2. CASE at'[c] # "passwd" \/ tty'[c].passwd
    BY <2>2 DEF Masked
  <2> QED
    BY <2>1, <2>2 DEF Moves
<1> QED
  BY <1>2, <1>3, <1>5, <1>7, <1>8, <1>9 DEF Core

\* The chain without its last process.
LEMMA FrontFacts ==
    ASSUME NEW s \in Seq(Process), Len(s) \in 1 .. 2
    PROVE  /\ Front(s) \in Seq(Process) /\ Len(Front(s)) = Len(s) - 1
           /\ \A k \in 1 .. Len(s) - 1 : Front(s)[k] = s[k]
<1>1. \A i \in 1 .. Len(s) - 1 : s[i] \in Process
  OBVIOUS
<1>2. /\ SubSeq(s, 1, Len(s) - 1) \in Seq(Process)
      /\ Len(SubSeq(s, 1, Len(s) - 1)) = (IF 1 <= Len(s) - 1 THEN (Len(s) - 1) - 1 + 1 ELSE 0)
      /\ \A i \in 1 .. (Len(s) - 1) - 1 + 1 : SubSeq(s, 1, Len(s) - 1)[i] = s[1 + i - 1]
  BY <1>1, SubSeqProperties
<1> DEFINE t == SubSeq(s, 1, Len(s) - 1)
<1>3. Front(s) = t
  BY DEF Front
<1>4. t \in Seq(Process) /\ Len(t) = (IF 1 <= Len(s) - 1 THEN (Len(s) - 1) - 1 + 1 ELSE 0)
  BY <1>2
<1>5. \A i \in 1 .. (Len(s) - 1) - 1 + 1 : t[i] = s[1 + i - 1]
  BY <1>2
<1> HIDE DEF t
<1>6. ASSUME NEW k \in 1 .. Len(s) - 1 PROVE t[k] = s[k]
  <2>1. k \in 1 .. (Len(s) - 1) - 1 + 1 /\ 1 + k - 1 = k
    OBVIOUS
  <2> QED
    BY <1>5, <2>1
<1>7. Len(t) = Len(s) - 1
  BY <1>4
<1> QED
  BY <1>3, <1>4, <1>6, <1>7

\* exec, or the shell after a program, puts the last process in the foreground.
LEMMA ForegroundCore ==
    ASSUME Typed, Core, NEW c \in Conns, Foreground(c) \/ Regain(c)
    PROVE  Typed' /\ Core' /\ UNCHANGED login /\ at'[c] \notin {"store", "attach"}
<1>0. /\ at \in [Conns -> Places] /\ tty \in [Conns -> Tty] /\ scan \in [Conns -> Scan]
      /\ UNCHANGED <<link, scan, stack, pids, procs, cancelled, hung, late, login>>
      /\ tty' = [tty EXCEPT ![c].fg = Top(c).pid]
      /\ \/ at[c] = "start" /\ Goto(c, "run")
         \/ at[c] = "regain" /\ Goto(c, "raw")
  BY DEF Typed, Foreground, Regain
<1>1. /\ at' \in [Conns -> Places] /\ \A d \in Conns : d # c => at'[d] = at[d]
      /\ (at[c] = "start" /\ at'[c] = "run") \/ (at[c] = "regain" /\ at'[c] = "raw")
  BY <1>0, GotoFacts DEF Places
<1>2. /\ Top(c) = stack[c][Len(stack[c])] /\ Top(c) \in procs /\ Top(c).conn = c
      /\ 0 < Top(c).pid /\ Top(c).pid <= pids /\ Top(c).pid \in Nat
  BY <1>1, TopFacts
<1>3. /\ tty' \in [Conns -> Tty] /\ \A d \in Conns : d # c => tty'[d] = tty[d]
      /\ tty'[c].fg = Top(c).pid
  BY <1>0, <1>2, TtyFacts
<1>4. Typed'
  BY <1>0, <1>1, <1>3 DEF Typed
<1>5. Known' = Known
  BY <1>0 DEF Known, InHand
<1>6. Table' /\ PidsApart'
  BY <1>0, <1>5, PidsKept DEF Core, Table
<1>7. ASSUME NEW d \in Conns, d # c PROVE Shape(d)' /\ Fg(d)' /\ Home(d)' /\ Masked(d)'
  <2>1. /\ Shape(d) /\ Fg(d) /\ Home(d) /\ Masked(d)
        /\ at'[d] = at[d] /\ tty'[d] = tty[d] /\ scan'[d] = scan[d] /\ stack'[d] = stack[d]
    BY <1>0, <1>1, <1>3, <1>7 DEF Core
  <2>2. Shape(d)' /\ Home(d)' /\ Masked(d)'
    BY <1>0, <2>1 DEF Shape, Home, Masked, LoginRuns, ShellRuns, ProgramRuns
  <2>3. Fg(d)'
    BY <1>0, <1>5, <2>1, FgKept DEF Fg
  <2> QED
    BY <2>2, <2>3
<1>8. Shape(c) /\ Fg(c) /\ Home(c)
  BY DEF Core
<1>9. Shape(c)'
  BY <1>0, <1>1, <1>8 DEF Shape, LoginRuns, ShellRuns, ProgramRuns
<1>10. \A p \in Known : p.pid = Top(c).pid => p.conn = c
  BY <1>2 DEF Core, PidsApart, Known
<1>11. Fg(c)'
  BY <1>0, <1>1, <1>2, <1>3, <1>5, <1>10 DEF Fg
<1>12. Home(c)' /\ Masked(c)'
  BY <1>0, <1>1, <1>8 DEF Home, Masked
<1> QED
  BY <1>0, <1>1, <1>4, <1>6, <1>7, <1>9, <1>11, <1>12 DEF Core

\* The end of a process: the table and the chain lose the same one.
LEMMA ExitCore ==
    ASSUME Typed, Core, NEW c \in Conns, Exit(c)
    PROVE  Typed' /\ Core' /\ UNCHANGED login /\ at'[c] \notin {"store", "attach"}
<1> DEFINE p == Top(c)
<1>0. /\ at[c] \in {"ok", "fail"} /\ procs' = procs \ {p} /\ stack' = [stack EXCEPT ![c] = Front(stack[c])]
      /\ late' = [late EXCEPT ![c] = IF p.prog = "adduser" THEN late[c] + 1 ELSE late[c]]
      /\ UNCHANGED <<scan, tty, pids, cancelled, hung, login>>
  BY DEF Exit, Cleanup
<1>1. /\ LoginRuns(c) \/ ShellRuns(c) \/ ProgramRuns(c)
      /\ stack[c] \in Seq(Process) /\ Len(stack[c]) \in 1 .. 2 /\ DOMAIN stack[c] = 1 .. Len(stack[c])
      /\ p = stack[c][Len(stack[c])] /\ p \in Process /\ p \in procs /\ p.conn = c
  BY <1>0, TopFacts
<1>2. \/ /\ p.prog = "login" /\ Goto(c, "loggedin") /\ UNCHANGED link
      \/ /\ p.prog \in {"login", "sh"} /\ Goto(c, "closed") /\ link' = [link EXCEPT ![c] = "down"]
      \/ p.prog \in Programs /\ Goto(c, "regain") /\ UNCHANGED link
  BY DEF Exit
<1> HIDE DEF p
<1>3. /\ at' \in [Conns -> Places] /\ \A d \in Conns : d # c => at'[d] = at[d]
      /\ \/ p.prog \in {"login", "sh"} /\ at'[c] \in {"loggedin", "closed"}
         \/ p.prog \in Programs /\ at'[c] = "regain"
  BY <1>2, GotoFacts DEF Typed, Places
<1>4. link' \in [Conns -> {"new", "up", "down"}] /\ \A d \in Conns : link'[d] = "new" => link[d] = "new"
  BY <1>2 DEF Typed
<1>5. /\ stack' \in [Conns -> Seq(Process)] /\ \A d \in Conns : d # c => stack'[d] = stack[d]
      /\ Len(stack'[c]) = Len(stack[c]) - 1 /\ DOMAIN stack'[c] = 1 .. Len(stack[c]) - 1
      /\ \A k \in 1 .. Len(stack[c]) - 1 : stack'[c][k] = stack[c][k]
  <2>1. /\ Front(stack[c]) \in Seq(Process) /\ Len(Front(stack[c])) = Len(stack[c]) - 1
        /\ \A k \in 1 .. Len(stack[c]) - 1 : Front(stack[c])[k] = stack[c][k]
    BY <1>1, FrontFacts
  <2>2. /\ stack' \in [Conns -> Seq(Process)] /\ \A d \in Conns : d # c => stack'[d] = stack[d]
        /\ stack'[c] = Front(stack[c])
    BY <1>0, <2>1 DEF Typed
  <2>3. DOMAIN stack'[c] = 1 .. Len(stack'[c])
    BY <2>2
  <2> QED
    BY <2>1, <2>2, <2>3
<1>6. late' \in [Conns -> Nat]
  BY <1>0 DEF Typed
<1>7. Typed'
  BY <1>0, <1>3, <1>4, <1>5, <1>6 DEF Typed
<1>8. Known' \subseteq Known
  BY <1>0 DEF Known, InHand
<1>9. PidsApart'
  BY <1>0, <1>8, PidsKept DEF Core
<1>10. Table'
  <2>1. ASSUME NEW d \in Conns, NEW k \in DOMAIN stack'[d]
        PROVE  stack'[d][k] \in procs' /\ stack'[d][k].conn = d
    <3>1. CASE d # c
      BY <1>0, <1>1, <1>5, <2>1, <3>1 DEF Core, Table
    <3>2. CASE d = c
      <4>1. Len(stack[c]) = 2 /\ k = 1 /\ stack'[c][1] = stack[c][1] /\ 1 \in DOMAIN stack[c]
        BY <1>1, <1>5, <2>1, <3>2
      <4>2. stack[c][1].pid # stack[c][2].pid
        BY <1>1, <4>1 DEF LoginRuns, ShellRuns, ProgramRuns
      <4>3. stack[c][1] \in procs /\ stack[c][1].conn = c /\ stack[c][1] # p
        BY <1>1, <4>1, <4>2 DEF Core, Table
      <4> QED
        BY <1>0, <3>2, <4>1, <4>3
    <3> QED
      BY <3>1, <3>2
  <2>2. ASSUME NEW q \in procs'
        PROVE  \E d \in Conns : \E k \in DOMAIN stack'[d] : q = stack'[d][k]
    <3>1. q \in procs /\ q # p
      BY <1>0, <2>2
    <3>2. PICK d \in Conns : \E k \in DOMAIN stack[d] : q = stack[d][k]
      BY <3>1 DEF Core, Table
    <3>3. CASE d # c
      BY <1>5, <3>2, <3>3
    <3>4. CASE d = c
      <4>1. PICK k \in 1 .. Len(stack[c]) : q = stack[c][k]
        BY <1>1, <3>2, <3>4
      <4>2. k # Len(stack[c])
        BY <1>1, <3>1, <4>1
      <4>3. k \in 1 .. Len(stack[c]) - 1
        BY <1>1, <4>1, <4>2
      <4> QED
        BY <1>5, <4>1, <4>3
    <3> QED
      BY <3>3, <3>4
  <2> QED
    BY <2>1, <2>2 DEF Table
<1>11. ASSUME NEW d \in Conns, d # c PROVE Shape(d)' /\ Fg(d)' /\ Home(d)' /\ Masked(d)'
  <2>1. /\ Shape(d) /\ Fg(d) /\ Home(d) /\ Masked(d)
        /\ at'[d] = at[d] /\ tty'[d] = tty[d] /\ scan'[d] = scan[d] /\ stack'[d] = stack[d]
    BY <1>0, <1>3, <1>5, <1>11 DEF Core
  <2>2. Shape(d)' /\ Home(d)' /\ Masked(d)'
    BY <1>0, <1>4, <2>1 DEF Shape, Home, Masked, LoginRuns, ShellRuns, ProgramRuns
  <2>3. Fg(d)'
    BY <1>0, <1>8, <2>1, FgKept DEF Fg
  <2> QED
    BY <2>2, <2>3
<1>12. Shape(c) /\ Fg(c) /\ Home(c)
  BY DEF Core
<1>13. /\ at'[c] \in {"loggedin", "closed"} => Len(stack'[c]) = 0
       /\ at'[c] = "regain" => /\ Len(stack[c]) = 2 /\ Len(stack'[c]) = 1 /\ stack'[c][1].prog = "sh"
                               /\ stack'[c][1] = stack[c][1]
  BY <1>1, <1>3, <1>5 DEF LoginRuns, ShellRuns, ProgramRuns, Programs
<1>14. Shape(c)'
  <2>1. link'[c] # "new"
    BY <1>0, <1>4, <1>12 DEF Shape
  <2> QED
    BY <1>3, <1>13, <2>1 DEF Shape, ShellRuns
<1>15. Fg(c)'
  <2>1. at'[c] \in {"loggedin", "closed", "regain"}
    BY <1>3
  <2> QED
    BY <1>0, <1>8, <1>12, <2>1 DEF Fg
<1>16. Home(c)'
  BY <1>0, <1>3, <1>12, <1>13 DEF Home
<1>17. Masked(c)' /\ at'[c] \notin {"store", "attach"}
  BY <1>3 DEF Masked
<1> QED
  BY <1>0, <1>7, <1>9, <1>10, <1>11, <1>14, <1>15, <1>16, <1>17 DEF Core

\* exec: the table and the chain gain the same process, under a PID that nobody
\* has had.
LEMMA ExecCore ==
    ASSUME Typed, Core, NEW c \in Conns, NEW prog \in Programs \cup {"login", "sh"},
           NEW u \in Users \cup {"root", NoUser}, Exec(c, prog, u),
           UNCHANGED <<link, cancelled, hung, late>>, scan' \in [Conns -> Scan], Taken(c),
           \A d \in Conns : d # c => scan'[d] = scan[d],
           tty' \in [Conns -> Tty], tty'[c].fg = tty[c].fg, \A d \in Conns : d # c => tty'[d] = tty[d],
           \/ at[c] = "boot" /\ prog = "login"
           \/ at[c] = "loggedin" /\ prog = "sh"
           \/ at[c] = "read" /\ Top(c).prog = "sh" /\ prog \in Programs /\ scan'[c] = Idle
    PROVE  Typed' /\ Core' /\ at'[c] \notin {"store", "attach"}
<1> DEFINE p == [pid |-> pids + 1, prog |-> prog, conn |-> c, uid |-> u]
<1>0. pids' = pids + 1 /\ procs' = procs \cup {p} /\ stack' = [stack EXCEPT ![c] = Append(stack[c], p)]
      /\ Goto(c, "start") /\ pids \in Nat
  BY DEF Exec, NextPid, Typed
<1>1. p \in Process /\ p.pid = pids + 1 /\ p.prog = prog /\ p.conn = c
  BY <1>0 DEF Process
<1> HIDE DEF p
<1>2. at' \in [Conns -> Places] /\ at'[c] = "start" /\ \A d \in Conns : d # c => at'[d] = at[d]
  BY <1>0, GotoFacts DEF Typed, Places
<1>3. /\ stack[c] \in Seq(Process) /\ stack' \in [Conns -> Seq(Process)]
      /\ \A d \in Conns : d # c => stack'[d] = stack[d]
      /\ stack'[c] = Append(stack[c], p)
  BY <1>0, <1>1 DEF Typed
<1>4. /\ Len(stack'[c]) = Len(stack[c]) + 1 /\ DOMAIN stack'[c] = 1 .. Len(stack[c]) + 1
      /\ DOMAIN stack[c] = 1 .. Len(stack[c]) /\ Len(stack[c]) \in Nat
      /\ \A k \in DOMAIN stack[c] : stack'[c][k] = stack[c][k]
      /\ stack'[c][Len(stack[c]) + 1] = p
  BY <1>1, <1>3
<1>5. Typed'
  BY <1>0, <1>1, <1>2, <1>3 DEF Typed
<1>6. Known' \subseteq Known \cup {p}
  <2>1. ASSUME NEW d \in Conns PROVE InHand(d)' \subseteq InHand(d)
    <3>1. CASE scan'[d] = scan[d]
      BY <3>1 DEF InHand
    <3>2. CASE scan'[d] = Idle
      BY <3>2, IdleFields DEF InHand
    <3> QED
      BY <3>1, <3>2 DEF Taken
  <2> QED
    BY <1>0, <2>1 DEF Known
<1>7. \A q \in Known : q \in Process /\ 0 < q.pid /\ q.pid <= pids /\ q.pid \in Nat
  BY DEF Core, PidsApart, Process
<1>8. PidsApart'
  <2>1. \A q, r \in Known \cup {p} : q.pid = r.pid => q = r
    BY <1>0, <1>1, <1>7 DEF Core, PidsApart
  <2> QED
    BY <1>0, <1>1, <1>6, <1>7, <2>1 DEF PidsApart
<1>9. Table'
  <2>1. ASSUME NEW d \in Conns, NEW k \in DOMAIN stack'[d]
        PROVE  stack'[d][k] \in procs' /\ stack'[d][k].conn = d
    <3>1. CASE d # c
      BY <1>0, <1>3, <2>1, <3>1 DEF Core, Table
    <3>2. CASE d = c /\ k \in DOMAIN stack[c]
      BY <1>0, <1>4, <3>2 DEF Core, Table
    <3>3. CASE d = c /\ k = Len(stack[c]) + 1
      BY <1>0, <1>1, <1>4, <3>3
    <3> QED
      BY <1>4, <2>1, <3>1, <3>2, <3>3
  <2>2. ASSUME NEW q \in procs'
        PROVE  \E d \in Conns : \E k \in DOMAIN stack'[d] : q = stack'[d][k]
    <3>1. CASE q = p
      BY <1>4, <3>1
    <3>2. CASE q \in procs
      <4>1. PICK d \in Conns : \E k \in DOMAIN stack[d] : q = stack[d][k]
        BY <3>2 DEF Core, Table
      <4>2. PICK k \in DOMAIN stack[d] : q = stack[d][k]
        BY <4>1
      <4>3. k \in DOMAIN stack'[d] /\ stack'[d][k] = stack[d][k]
        <5>1. CASE d # c
          BY <1>3, <4>2, <5>1
        <5>2. CASE d = c
          BY <1>4, <4>2, <5>2
        <5> QED
          BY <5>1, <5>2
      <4> QED
        BY <4>2, <4>3
    <3> QED
      BY <1>0, <3>1, <3>2
  <2> QED
    BY <2>1, <2>2 DEF Table
<1>10. ASSUME NEW d \in Conns PROVE tty[d].fg \in Nat \cup {-1} /\ tty[d].fg # pids + 1 /\ tty[d].fg <= pids + 1
  <2>1. tty[d].fg \in Nat \cup {-1} /\ tty[d].fg <= pids
    BY DEF Core, Fg, Typed, Tty
  <2> QED
    BY <1>0, <2>1
<1>11. ASSUME NEW d \in Conns
       PROVE  tty[d].fg <= pids' /\ \A q \in Known' : q.pid = tty[d].fg => q.conn = d
  BY <1>0, <1>1, <1>6, <1>10 DEF Core, Fg
<1>12. ASSUME NEW d \in Conns, d # c PROVE Shape(d)' /\ Fg(d)' /\ Home(d)' /\ Masked(d)'
  <2>1. /\ Shape(d) /\ Fg(d) /\ Home(d) /\ Masked(d)
        /\ at'[d] = at[d] /\ tty'[d] = tty[d] /\ scan'[d] = scan[d] /\ stack'[d] = stack[d]
    BY <1>2, <1>3, <1>12 DEF Core
  <2>2. Shape(d)' /\ Home(d)' /\ Masked(d)'
    BY <2>1 DEF Shape, Home, Masked, LoginRuns, ShellRuns, ProgramRuns
  <2>3. Fg(d)'
    BY <1>11, <2>1 DEF Fg, LoginRuns, ProgramRuns
  <2> QED
    BY <2>2, <2>3
<1>13. Shape(c) /\ Fg(c) /\ Home(c)
  BY DEF Core
<1>14. CASE at[c] \in {"boot", "loggedin"}
  <2>1. Len(stack[c]) = 0 /\ Len(stack'[c]) = 1 /\ stack'[c][1] = p
    BY <1>4, <1>13, <1>14 DEF Shape
  <2>2. /\ at[c] = "boot" => LoginRuns(c)' /\ tty'[c].fg = -1
        /\ at[c] = "loggedin" => ShellRuns(c)'
        /\ ~ProgramRuns(c)'
    BY <1>1, <1>13, <1>14, <2>1 DEF LoginRuns, ShellRuns, ProgramRuns, Fg
  <2>3. Shape(c)'
    BY <1>2, <1>13, <1>14, <2>2 DEF Shape
  <2>4. scan'[c].do \in {"signal", "handle", "cancel"} => scan'[c] = scan[c]
    BY IdleFields DEF Taken
  <2>5. at[c] = "loggedin" => ~LoginRuns(c)'
    BY <1>1, <1>14, <2>1 DEF LoginRuns
  <2>6. Fg(c)'
    BY <1>2, <1>11, <1>13, <1>14, <2>2, <2>4, <2>5 DEF Fg
  <2>7. Home(c)'
    BY <1>1, <1>13, <1>14, <2>1, <2>2, <2>4 DEF Home, Fg
  <2> QED
    BY <1>2, <1>5, <1>8, <1>9, <1>12, <2>3, <2>6, <2>7 DEF Core, Masked
<1>15. CASE at[c] = "read" /\ Top(c).prog = "sh" /\ prog \in Programs /\ scan'[c] = Idle
  <2>1. /\ ShellRuns(c) /\ Top(c) = stack[c][1] /\ Top(c).pid <= pids /\ Top(c).pid \in Nat
    <3>1. /\ LoginRuns(c) \/ ShellRuns(c) \/ ProgramRuns(c)
          /\ Top(c) = stack[c][Len(stack[c])] /\ Top(c).pid <= pids /\ Top(c).pid \in Nat
      BY <1>15, TopFacts
    <3> QED
      BY <1>15, <3>1 DEF LoginRuns, ShellRuns, ProgramRuns, Programs
  <2>2. Len(stack'[c]) = 2 /\ stack'[c][1] = stack[c][1] /\ stack'[c][2] = p
    BY <1>4, <2>1 DEF ShellRuns
  <2>3. ProgramRuns(c)' /\ ~LoginRuns(c)'
    BY <1>0, <1>1, <1>15, <2>1, <2>2 DEF ShellRuns, ProgramRuns, LoginRuns
  <2>4. Shape(c)'
    BY <1>2, <1>13, <1>15, <2>3 DEF Shape
  <2>5. scan'[c].do = "scan"
    BY <1>15, IdleFields
  <2>6. Fg(c)'
    BY <1>2, <1>11, <1>13, <1>15, <2>1, <2>2, <2>3, <2>5 DEF Fg, ShellRuns
  <2> QED
    BY <1>2, <1>5, <1>8, <1>9, <1>12, <2>4, <2>5, <2>6 DEF Core, Home, Masked
<1> QED
  BY <1>14, <1>15

\* A scanner that goes on with its snapshot.
LEMMA ResumeFields ==
    ASSUME NEW left \in SUBSET Process
    PROVE  /\ Resume(left) \in Scan /\ Resume(left).do \in {"scan", "signal"}
           /\ Resume(left).left = left
<1>1. CASE left = {}
  BY <1>1, IdleFields DEF Resume
<1>2. CASE left # {}
  <2> DEFINE r == [Idle EXCEPT !.do = "signal", !.left = left]
  <2>1. r \in Scan /\ r.do = "signal" /\ r.left = left
    BY DEF Idle, Scan
  <2>2. Resume(left) = r
    BY <1>2 DEF Resume
  <2> HIDE DEF r
  <2> QED
    BY <2>1, <2>2
<1> QED
  BY <1>1, <1>2

\* A step of the scanner of c changes neither the chains nor the foreground groups.
LEMMA ScannerCore ==
    ASSUME Core, NEW c \in Conns, UNCHANGED <<at, stack, pids, procs>>,
           \A d \in Conns : link'[d] = "new" => link[d] = "new",
           \A d \in Conns : tty'[d].fg = tty[d].fg,
           \A d \in Conns : d # c => scan'[d] = scan[d],
           InHand(c)' \subseteq InHand(c) \cup procs,
           scan'[c].do \in {"signal", "handle", "cancel"} => tty[c].fg # -1,
           Home(c)', \A d \in Conns : Masked(d)'
    PROVE  Core'
<1>1. Known' \subseteq Known
  <2>1. ASSUME NEW d \in Conns PROVE InHand(d)' \subseteq InHand(d) \cup procs
    BY <2>1 DEF InHand
  <2> QED
    BY <2>1 DEF Known
<1>2. Table' /\ PidsApart'
  BY <1>1, PidsKept DEF Core, Table
<1>3. ASSUME NEW d \in Conns PROVE Shape(d)' /\ Fg(d)' /\ Home(d)'
  <2>1. Shape(d) /\ Fg(d) /\ Home(d)
    BY DEF Core
  <2>2. Shape(d)'
    BY <2>1 DEF Shape, LoginRuns, ShellRuns, ProgramRuns
  <2>3. Fg(d)'
    <3>1. scan'[d].do \in {"signal", "handle", "cancel"} => tty[d].fg # -1
      BY <2>1 DEF Fg
    <3> QED
      BY <1>1, <2>1, <3>1, FgKept
  <2>4. Home(d)'
    BY <2>1 DEF Home
  <2> QED
    BY <2>2, <2>3, <2>4
<1> QED
  BY <1>2, <1>3 DEF Core

\* What a scanner has in hand are processes.
LEMMA HandFacts ==
    ASSUME Typed, Core, NEW c \in Conns
    PROVE  /\ scan[c].left \subseteq Process
           /\ scan[c].do \in {"handle", "cancel"} => scan[c].now \in Process
<1>1. scan[c].left \subseteq Process
  BY DEF Typed, Scan
<1>2. ASSUME scan[c].do \in {"handle", "cancel"} PROVE scan[c].now \in Process
  <2>1. scan[c].now \in InHand(c)
    BY <1>2 DEF InHand
  <2> QED
    BY <2>1 DEF Core, PidsApart, Known
<1> QED
  BY <1>1, <1>2

\* A keystroke, and a step through the snapshot.  The process that is signalled
\* has the PID of the foreground group, so it is of this terminal.
LEMMA SignalCore ==
    ASSUME Typed, Core, NEW c \in Conns, Signal(c) \/ (\E key \in Keys : Type(c, key))
    PROVE  Typed' /\ Core' /\ UNCHANGED <<at, login>>
<1>0. /\ UNCHANGED <<link, at, stack, pids, procs, tty, cancelled, hung, late, login>>
      /\ scan \in [Conns -> Scan] /\ scan[c].left \subseteq Process /\ procs \subseteq Process
      /\ Fg(c) /\ Shape(c) /\ Core /\ tty \in [Conns -> Tty]
  BY HandFacts DEF Signal, Type, chain, Typed, Core
<1>1. ASSUME NEW r \in Scan, scan' = [scan EXCEPT ![c] = r],
             r.left \subseteq scan[c].left \cup procs,
             r.do \in {"signal", "handle", "cancel"} => tty[c].fg # -1,
             scan[c].do # "cancel", r.do # "cancel",
             r.do = "handle" => /\ r.now \in InHand(c) /\ r.now.pid = tty[c].fg
      PROVE  Typed' /\ Core'
  <2>1. scan' \in [Conns -> Scan] /\ scan'[c] = r /\ \A d \in Conns : d # c => scan'[d] = scan[d]
    BY <1>0, <1>1
  <2>2. Typed'
    BY <1>0, <2>1 DEF Typed
  <2>3. InHand(c)' \subseteq InHand(c) \cup procs
    BY <1>1, <2>1 DEF InHand
  <2>4. Home(c)'
    <3>1. SUFFICES ASSUME r.do = "handle"
                   PROVE  /\ r.now.conn = c
                          /\ \/ \E k \in DOMAIN stack[c] : r.now = stack[c][k]
                             \/ Len(stack[c]) = 0
                             \/ stack[c][Len(stack[c])].prog = "sh"
      BY <1>0, <1>1, <2>1 DEF Home
    <3>2. r.now \in Known /\ r.now.pid = tty[c].fg /\ tty[c].fg # -1
      BY <1>1, <3>1 DEF Known
    <3>3. r.now.conn = c
      BY <1>0, <3>2 DEF Fg
    <3>4. CASE Len(stack[c]) = 0 \/ stack[c][Len(stack[c])].prog = "sh"
      BY <3>3, <3>4
    <3>5. CASE Len(stack[c]) # 0 /\ stack[c][Len(stack[c])].prog # "sh"
      <4>1. /\ at[c] \notin {"none", "boot", "loggedin", "closed"} /\ at[c] \in Places
        BY <1>0, <3>5 DEF Shape, Typed
      <4>2. /\ LoginRuns(c) \/ ProgramRuns(c)
            /\ Len(stack[c]) \in DOMAIN stack[c] /\ 1 \in DOMAIN stack[c]
        BY <3>5, <4>1, TopFacts DEF ShellRuns
      <4>3. at[c] # "regain"
        BY <1>0, <3>5 DEF Shape, ShellRuns
      <4>4. tty[c].fg = stack[c][Len(stack[c])].pid \/ tty[c].fg = stack[c][1].pid
        BY <1>0, <3>2, <4>1, <4>2, <4>3 DEF Fg, Places
      <4>5. \E k \in DOMAIN stack[c] : tty[c].fg = stack[c][k].pid
        BY <4>2, <4>4
      <4>6. PICK k \in DOMAIN stack[c] : tty[c].fg = stack[c][k].pid
        BY <4>5
      <4>7. stack[c][k] \in Known
        BY <4>6 DEF Core, Table, Known
      <4>8. r.now = stack[c][k]
        BY <3>2, <4>6, <4>7 DEF Core, PidsApart
      <4> QED
        BY <3>3, <4>8
    <3> QED
      BY <3>4, <3>5
  <2>5. ASSUME NEW d \in Conns PROVE Masked(d)'
    BY <1>0, <1>1, <2>1, <2>5 DEF Masked, Core
  <2>6. Core'
    BY <1>0, <1>1, <2>1, <2>3, <2>4, <2>5, ScannerCore
  <2> QED
    BY <2>2, <2>6
<1>2. CASE Signal(c)
  <2>0. scan[c].do = "signal" /\ tty[c].fg # -1
    BY <1>0, <1>2 DEF Signal, Fg
  <2>1. PICK p \in scan[c].left :
          scan' = [scan EXCEPT ![c] =
                      IF InForeground(c, p)
                      THEN [Idle EXCEPT !.do = "handle", !.now = p, !.left = scan[c].left \ {p}]
                      ELSE Resume(scan[c].left \ {p})]
    BY <1>2 DEF Signal
  <2>2. CASE InForeground(c, p)
    <3> DEFINE r == [Idle EXCEPT !.do = "handle", !.now = p, !.left = scan[c].left \ {p}]
    <3>1. r \in Scan /\ r.do = "handle" /\ r.now = p /\ r.left = scan[c].left \ {p}
      BY <1>0 DEF Idle, Scan
    <3>2. scan' = [scan EXCEPT ![c] = r]
      BY <2>1, <2>2
    <3> HIDE DEF r
    <3>3. p \in InHand(c) /\ p.pid = tty[c].fg
      BY <2>2 DEF InHand, InForeground
    <3> QED
      BY <1>0, <1>1, <2>0, <3>1, <3>2, <3>3
  <2>3. CASE ~InForeground(c, p)
    <3> DEFINE r == Resume(scan[c].left \ {p})
    <3>1. r \in Scan /\ r.do \in {"scan", "signal"} /\ r.left = scan[c].left \ {p}
      BY <1>0, ResumeFields
    <3>2. scan' = [scan EXCEPT ![c] = r]
      BY <2>1, <2>3
    <3> HIDE DEF r
    <3> QED
      BY <1>0, <1>1, <2>0, <3>1, <3>2
  <2> QED
    BY <2>2, <2>3
<1>3. ASSUME NEW key \in Keys, Type(c, key) PROVE Typed' /\ Core' /\ UNCHANGED <<at, login>>
  <2>0. scan[c].do = "scan"
    BY <1>3 DEF Type
  <2>1. CASE key # "intr"
    <3> DEFINE r == [Idle EXCEPT !.do = "send", !.key = key]
    <3>1. r \in Scan /\ r.do = "send" /\ r.left = {}
      BY DEF Idle, Scan
    <3>2. scan' = [scan EXCEPT ![c] = r]
      BY <1>3, <2>1 DEF Type
    <3> HIDE DEF r
    <3> QED
      BY <1>0, <1>1, <2>0, <3>1, <3>2
  <2>2. CASE key = "intr" /\ (tty[c].fg = -1 \/ procs = {})
    <3>1. scan' = [scan EXCEPT ![c] = Idle]
      BY <1>3, <2>2 DEF Type
    <3> QED
      BY <1>0, <1>1, <2>0, <3>1, IdleFields
  <2>3. CASE key = "intr" /\ ~(tty[c].fg = -1 \/ procs = {})
    <3> DEFINE r == [Idle EXCEPT !.do = "signal", !.left = procs]
    <3>1. r \in Scan /\ r.do = "signal" /\ r.left = procs
      BY <1>0 DEF Idle, Scan
    <3>2. scan' = [scan EXCEPT ![c] = r]
      BY <1>3, <2>3 DEF Type
    <3> HIDE DEF r
    <3> QED
      BY <1>0, <1>1, <2>0, <2>3, <3>1, <3>2
  <2> QED
    BY <2>1, <2>2, <2>3
<1> QED
  BY <1>2, <1>3

\* The handler of a program changes the modes of its own terminal, and takes the
\* mask off a password only when it is about to cancel the process that reads it.
LEMMA HandlerCore ==
    ASSUME Typed, Core, NEW c \in Conns, HandleSignal(c)
    PROVE  Typed' /\ Core' /\ UNCHANGED <<at, login>>
<1> DEFINE p == scan[c].now
<1>0. /\ UNCHANGED <<link, at, stack, pids, procs, cancelled, hung, late, login>> /\ scan[c].do = "handle"
      /\ scan \in [Conns -> Scan] /\ scan[c].left \subseteq Process /\ tty \in [Conns -> Tty]
      /\ Fg(c) /\ Shape(c) /\ Home(c) /\ Masked(c) /\ p \in Process /\ p.conn = c
  BY HandFacts DEF HandleSignal, chain, Typed, Core, Home
<1>1. /\ tty' \in [Conns -> Tty] /\ tty'[c].fg = tty[c].fg /\ \A d \in Conns : d # c => tty'[d] = tty[d]
      /\ tty'[c].passwd = tty[c].passwd \/ p.prog = "adduser"
  <2>1. \/ p.prog = "adduser" /\ tty' = [tty EXCEPT ![c].passwd = FALSE]
        \/ tty' = [tty EXCEPT ![c].canonical = TRUE]
        \/ tty' = tty
    BY <1>0 DEF HandleSignal, AdduserSignal, EditorSignal
  <2> QED
    BY <1>0, <2>1, TtyFacts
<1>2. \E r \in Scan : /\ scan' = [scan EXCEPT ![c] = r] /\ r.left = scan[c].left
                      /\ \/ r.do \in {"scan", "signal"} /\ p.prog \in {"sh", "cmd"}
                         \/ r.do = "cancel" /\ r.now = p
  <2>1. CASE p.prog \in {"sh", "cmd"}
    <3>1. scan' = [scan EXCEPT ![c] = Resume(scan[c].left)]
      BY <2>1 DEF HandleSignal
    <3> QED
      BY <1>0, <2>1, <3>1, ResumeFields
  <2>2. CASE p.prog \notin {"sh", "cmd"}
    <3> DEFINE r == [scan[c] EXCEPT !.do = "cancel"]
    <3>1. scan' = [scan EXCEPT ![c] = r]
      BY <2>2 DEF HandleSignal
    <3>2. r \in Scan /\ r.left = scan[c].left /\ r.do = "cancel" /\ r.now = p
      BY <1>0 DEF Scan
    <3> HIDE DEF r
    <3> QED
      BY <3>1, <3>2
  <2> QED
    BY <2>1, <2>2
<1>3. PICK r \in Scan : /\ scan' = [scan EXCEPT ![c] = r] /\ r.left = scan[c].left
                        /\ \/ r.do \in {"scan", "signal"} /\ p.prog \in {"sh", "cmd"}
                           \/ r.do = "cancel" /\ r.now = p
  BY <1>2
<1>4. scan' \in [Conns -> Scan] /\ scan'[c] = r /\ \A d \in Conns : d # c => scan'[d] = scan[d]
  BY <1>0, <1>3
<1>5. Typed'
  BY <1>0, <1>1, <1>4 DEF Typed
<1>6. InHand(c)' \subseteq InHand(c) \cup procs
  BY <1>0, <1>3, <1>4 DEF InHand
<1>7. Home(c)'
  BY <1>0, <1>3, <1>4 DEF Home
<1>8. ASSUME NEW d \in Conns PROVE Masked(d)'
  <2>1. CASE d # c
    BY <1>0, <1>1, <1>4, <1>8, <2>1 DEF Masked, Core
  <2>2. CASE d = c /\ tty'[c].passwd = tty[c].passwd
    BY <1>0, <1>4, <2>2 DEF Masked
  <2>3. CASE d = c /\ p.prog = "adduser"
    <3>1. SUFFICES ASSUME at[c] = "passwd" PROVE p = stack[c][Len(stack[c])]
      BY <1>0, <1>3, <1>4, <2>3 DEF Masked
    <3>2. /\ LoginRuns(c) \/ ShellRuns(c) \/ ProgramRuns(c)
          /\ DOMAIN stack[c] = 1 .. Len(stack[c]) /\ Len(stack[c]) \in 1 .. 2
      BY <3>1, TopFacts
    <3>3. stack[c][Len(stack[c])].prog \in {"login", "adduser"}
      BY <1>0, <3>1 DEF Shape
    <3>5. Len(stack[c]) # 0 /\ stack[c][Len(stack[c])].prog # "sh"
      BY <3>2, <3>3
    <3>6. \E k \in DOMAIN stack[c] : p = stack[c][k]
      BY <1>0, <3>5 DEF Home
    <3>4. PICK k \in 1 .. Len(stack[c]) : p = stack[c][k]
      BY <3>2, <3>6
    <3> QED
      BY <2>3, <3>2, <3>3, <3>4 DEF LoginRuns, ShellRuns, ProgramRuns
  <2> QED
    BY <1>1, <2>1, <2>2, <2>3
<1>9. tty[c].fg # -1 /\ \A d \in Conns : tty'[d].fg = tty[d].fg
  BY <1>0, <1>1 DEF Fg
<1>10. Core'
  BY <1>0, <1>4, <1>6, <1>7, <1>8, <1>9, ScannerCore
<1> QED
  BY <1>0, <1>5, <1>10

\* The rest of what happens beside the processes of c.
LEMMA BesideCore ==
    ASSUME Typed, Core, NEW c \in Conns, Cancel(c) \/ Eof(c) \/ HangUp(c) \/ DeferredRaw(c)
    PROVE  Typed' /\ Core' /\ UNCHANGED <<at, login>>
<1>0. /\ UNCHANGED <<at, stack, pids, procs, login>>
      /\ scan \in [Conns -> Scan] /\ scan[c].left \subseteq Process /\ tty \in [Conns -> Tty]
      /\ cancelled \subseteq Process /\ link \in [Conns -> {"new", "up", "down"}]
      /\ hung \in [Conns -> BOOLEAN] /\ late \in [Conns -> Nat]
      /\ Fg(c) /\ Shape(c) /\ Home(c) /\ \A d \in Conns : Masked(d)
  BY HandFacts DEF Cancel, Eof, HangUp, DeferredRaw, chain, Typed, Core
<1>1. CASE Cancel(c)
  <2>0. /\ scan[c].do = "cancel" /\ cancelled' = cancelled \cup {scan[c].now} /\ UNCHANGED <<link, tty, hung, late>>
        /\ scan' = [scan EXCEPT ![c] = Resume(scan[c].left)] /\ scan[c].now \in Process
    BY <1>1, HandFacts DEF Cancel
  <2>1. /\ Resume(scan[c].left) \in Scan /\ Resume(scan[c].left).do \in {"scan", "signal"}
        /\ Resume(scan[c].left).left = scan[c].left
    BY <1>0, ResumeFields
  <2>2. /\ scan' \in [Conns -> Scan] /\ scan'[c].do \in {"scan", "signal"} /\ scan'[c].left = scan[c].left
        /\ \A d \in Conns : d # c => scan'[d] = scan[d]
    BY <1>0, <2>0, <2>1
  <2>3. Typed'
    BY <1>0, <2>0, <2>2 DEF Typed
  <2>4. InHand(c)' \subseteq InHand(c) \cup procs /\ Home(c)' /\ tty[c].fg # -1
    BY <1>0, <2>0, <2>2 DEF InHand, Home, Fg
  <2>5. ASSUME NEW d \in Conns PROVE Masked(d)'
    <3>1. CASE d # c
      BY <1>0, <2>0, <2>2, <3>1 DEF Masked
    <3>2. CASE d = c
      <4>1. SUFFICES ASSUME at[c] = "passwd", ~tty[c].passwd
                     PROVE  hung[c] \/ \E k \in DOMAIN stack[c] : stack[c][k] \in cancelled'
        BY <1>0, <2>0, <3>2 DEF Masked
      <4>3. Len(stack[c]) \in 1 .. 2 /\ DOMAIN stack[c] = 1 .. Len(stack[c])
        BY <4>1, TopFacts
      <4>2. Len(stack[c]) \in DOMAIN stack[c]
        BY <4>3
      <4> QED
        BY <1>0, <2>0, <4>1, <4>2 DEF Masked
    <3> QED
      BY <3>1, <3>2
  <2>6. Core'
    BY <1>0, <2>0, <2>2, <2>4, <2>5, ScannerCore
  <2> QED
    BY <1>0, <2>3, <2>6
<1>2. CASE Eof(c)
  <2>0. /\ scan[c].do = "scan" /\ scan' = [scan EXCEPT ![c].do = "ended"] /\ hung' = [hung EXCEPT ![c] = TRUE]
        /\ UNCHANGED <<link, tty, cancelled, late>>
    BY <1>2 DEF Eof
  <2>1. /\ scan' \in [Conns -> Scan] /\ scan'[c].do = "ended" /\ scan'[c].left = scan[c].left
        /\ \A d \in Conns : d # c => scan'[d] = scan[d]
    BY <1>0, <2>0 DEF Scan
  <2>2. hung' \in [Conns -> BOOLEAN] /\ hung'[c] /\ \A d \in Conns : d # c => hung'[d] = hung[d]
    BY <1>0, <2>0
  <2>3. Typed'
    BY <1>0, <2>0, <2>1, <2>2 DEF Typed
  <2>4. InHand(c)' \subseteq InHand(c) \cup procs /\ Home(c)'
    BY <1>0, <2>0, <2>1 DEF InHand, Home
  <2>5. ASSUME NEW d \in Conns PROVE Masked(d)'
    BY <1>0, <2>0, <2>1, <2>2 DEF Masked
  <2>6. Core'
    BY <1>0, <2>0, <2>1, <2>4, <2>5, ScannerCore
  <2> QED
    BY <1>0, <2>3, <2>6
<1>3. CASE HangUp(c) \/ DeferredRaw(c)
  <2>0. /\ UNCHANGED <<scan, cancelled, hung>>
        /\ UNCHANGED tty \/ tty' = [tty EXCEPT ![c].canonical = FALSE]
        /\ UNCHANGED link \/ link' = [link EXCEPT ![c] = "down"]
    BY <1>3 DEF HangUp, DeferredRaw
  <2>1. UNCHANGED late \/ (late[c] > 0 /\ late' = [late EXCEPT ![c] = late[c] - 1])
    BY <1>3 DEF HangUp, DeferredRaw
  <2>2. /\ tty' \in [Conns -> Tty] /\ tty'[c].fg = tty[c].fg /\ tty'[c].passwd = tty[c].passwd
        /\ \A d \in Conns : d # c => tty'[d] = tty[d]
    BY <1>0, <2>0, TtyFacts
  <2>3. late' \in [Conns -> Nat] /\ link' \in [Conns -> {"new", "up", "down"}]
        /\ \A d \in Conns : link'[d] = "new" => link[d] = "new"
    BY <1>0, <2>0, <2>1
  <2>4. Typed'
    BY <1>0, <2>0, <2>2, <2>3 DEF Typed
  <2>5. InHand(c)' \subseteq InHand(c) \cup procs /\ Home(c)'
    BY <1>0, <2>0 DEF InHand, Home
  <2>6. ASSUME NEW d \in Conns PROVE Masked(d)' /\ tty'[d].fg = tty[d].fg
    BY <1>0, <2>0, <2>2 DEF Masked
  <2>7. scan'[c].do \in {"signal", "handle", "cancel"} => tty[c].fg # -1
    BY <1>0, <2>0 DEF Fg
  <2>8. Core'
    BY <1>0, <2>0, <2>3, <2>5, <2>6, <2>7, ScannerCore
  <2> QED
    BY <1>0, <2>4, <2>8
<1> QED
  BY <1>1, <1>2, <1>3

\* A connection begins with no process.
LEMMA ConnectCore ==
    ASSUME Typed, Core, NEW c \in Conns, Connect(c)
    PROVE  Typed' /\ Core' /\ UNCHANGED login /\ at'[c] = "boot" /\ \A d \in Conns : d # c => at'[d] = at[d]
<1>0. /\ link[c] = "new" /\ link' = [link EXCEPT ![c] = "up"] /\ scan' = [scan EXCEPT ![c].do = "scan"]
      /\ Goto(c, "boot") /\ UNCHANGED <<stack, pids, procs, tty, cancelled, hung, late, login>>
      /\ scan \in [Conns -> Scan] /\ link \in [Conns -> {"new", "up", "down"}]
  BY DEF Connect, Typed
<1>1. at' \in [Conns -> Places] /\ at'[c] = "boot" /\ \A d \in Conns : d # c => at'[d] = at[d]
  BY <1>0, GotoFacts DEF Typed, Places
<1>2. /\ scan' \in [Conns -> Scan] /\ scan'[c].do = "scan" /\ scan'[c].left = scan[c].left
      /\ \A d \in Conns : d # c => scan'[d] = scan[d]
  BY <1>0 DEF Scan
<1>3. /\ link' \in [Conns -> {"new", "up", "down"}] /\ link'[c] = "up"
      /\ \A d \in Conns : d # c => link'[d] = link[d]
  BY <1>0
<1>4. Typed'
  BY <1>0, <1>1, <1>2, <1>3 DEF Typed
<1>5. Known' \subseteq Known
  <2>1. ASSUME NEW d \in Conns PROVE InHand(d)' \subseteq InHand(d)
    BY <1>2, <2>1 DEF InHand
  <2> QED
    BY <1>0, <2>1 DEF Known
<1>6. Table' /\ PidsApart'
  BY <1>0, <1>5, PidsKept DEF Core, Table
<1>7. ASSUME NEW d \in Conns, d # c PROVE Shape(d)' /\ Fg(d)' /\ Home(d)' /\ Masked(d)'
  <2>1. /\ Shape(d) /\ Fg(d) /\ Home(d) /\ Masked(d)
        /\ at'[d] = at[d] /\ scan'[d] = scan[d] /\ link'[d] = link[d]
    BY <1>1, <1>2, <1>3, <1>7 DEF Core
  <2>2. Shape(d)' /\ Home(d)' /\ Masked(d)'
    BY <1>0, <2>1 DEF Shape, Home, Masked, LoginRuns, ShellRuns, ProgramRuns
  <2>3. Fg(d)'
    BY <1>0, <1>5, <2>1, FgKept DEF Fg
  <2> QED
    BY <2>2, <2>3
<1>8. at[c] = "none" /\ Len(stack[c]) = 0 /\ tty[c].fg = -1 /\ Fg(c)
  BY <1>0 DEF Core, Shape, Fg
<1>9. Shape(c)' /\ Home(c)' /\ Masked(c)'
  BY <1>0, <1>1, <1>2, <1>3, <1>8 DEF Shape, Home, Masked
<1>10. Fg(c)'
  BY <1>0, <1>1, <1>2, <1>5, <1>8 DEF Fg
<1> QED
  BY <1>0, <1>1, <1>4, <1>6, <1>7, <1>9, <1>10 DEF Core

\* The steps that start a process.
LEMMA StartCore ==
    ASSUME Typed, Logins, Core, NEW c \in Conns,
           StartLogin(c) \/ StartShell(c) \/ (\E prog \in Programs : ShellExec(c, prog))
    PROVE  /\ Typed' /\ Core' /\ UNCHANGED login
           /\ at'[c] = "start" /\ \A d \in Conns : d # c => at'[d] = at[d]
<1>0. /\ UNCHANGED <<link, cancelled, hung, late, login>>
      /\ scan \in [Conns -> Scan] /\ tty \in [Conns -> Tty] /\ session[c] \in Users \cup {NoUser}
      /\ at \in [Conns -> Places]
  BY DEF StartLogin, StartShell, ShellExec, Typed, Logins
<1>1. ASSUME NEW prog, NEW u, Exec(c, prog, u)
      PROVE  at'[c] = "start" /\ \A d \in Conns : d # c => at'[d] = at[d]
  BY <1>0, <1>1, GotoFacts DEF Exec, Places
<1>2. CASE StartLogin(c)
  <2>1. at[c] = "boot" /\ Exec(c, "login", "root") /\ UNCHANGED <<scan, tty>>
    BY <1>2 DEF StartLogin
  <2>2. Typed' /\ Core'
    BY <1>0, <2>1, ExecCore DEF Taken
  <2> QED
    BY <1>0, <1>1, <2>1, <2>2
<1>3. CASE StartShell(c)
  <2>1. at[c] = "loggedin" /\ Exec(c, "sh", session[c]) /\ UNCHANGED <<scan, tty>>
    BY <1>3 DEF StartShell
  <2>2. Typed' /\ Core'
    BY <1>0, <2>1, ExecCore DEF Taken
  <2> QED
    BY <1>0, <1>1, <2>1, <2>2
<1>4. ASSUME NEW prog \in Programs, ShellExec(c, prog)
      PROVE  Typed' /\ Core' /\ at'[c] = "start" /\ \A d \in Conns : d # c => at'[d] = at[d]
  <2>1. /\ at[c] = "read" /\ Top(c).prog = "sh" /\ Takes(c) /\ Exec(c, prog, Top(c).uid)
        /\ tty' = [tty EXCEPT ![c].canonical = TRUE]
    BY <1>4 DEF ShellExec, Reads
  <2>2. tty' \in [Conns -> Tty] /\ tty'[c].fg = tty[c].fg /\ \A d \in Conns : d # c => tty'[d] = tty[d]
    BY <1>0, <2>1, TtyFacts
  <2>3. /\ Taken(c) /\ scan' \in [Conns -> Scan] /\ scan'[c] = Idle
        /\ \A d \in Conns : d # c => scan'[d] = scan[d]
        /\ Top(c) \in Process
    BY <2>1, TakesFacts
  <2>4. Top(c).uid \in Users \cup {"root", NoUser}
    BY <2>3 DEF Process
  <2>5. Typed' /\ Core'
    BY <1>0, <2>1, <2>2, <2>3, <2>4, ExecCore
  <2> QED
    BY <1>1, <2>1, <2>5
<1> QED
  BY <1>0, <1>2, <1>3, <1>4

-----------------------------------------------------------------------------
(* Sessions. *)

\* Steps that leave the sessions alone.
LEMMA LoginsSame ==
    ASSUME Logins, UNCHANGED <<sid, sessions, session>>, name' \in [Conns -> Users \cup {NoUser}],
           \A d \in Conns : at'[d] \in {"store", "attach"} => at'[d] = at[d]
    PROVE  Logins'
BY DEF Logins

\* NewSession's three steps: an id is counted from 1, and stays entered.
LEMMA SessionLogins ==
    ASSUME Logins, at \in [Conns -> Places], NEW c \in Conns,
           GenerateSessionID(c) \/ NewSession(c) \/ AttachSession(c)
    PROVE  Logins'
<1>0. Cardinality(DOMAIN sessions) \in Nat
  BY FS_CardinalityType DEF Logins
<1>1. CASE GenerateSessionID(c)
  <2>1. /\ sid' = [sid EXCEPT ![c] = Cardinality(DOMAIN sessions) + 1] /\ at' = [at EXCEPT ![c] = "store"]
        /\ UNCHANGED <<name, sessions, session>>
    BY <1>1 DEF GenerateSessionID, SessionID, Goto
  <2>2. sid' \in [Conns -> Nat] /\ sid'[c] # 0 /\ \A d \in Conns : d # c => sid'[d] = sid[d]
    BY <1>0, <2>1 DEF Logins
  <2> QED
    BY <2>1, <2>2 DEF Logins
<1>2. CASE NewSession(c)
  <2>1. /\ at[c] = "store" /\ at' = [at EXCEPT ![c] = "attach"] /\ UNCHANGED <<name, sid, session>>
        /\ sessions' = [i \in DOMAIN sessions \cup {sid[c]} |-> IF i = sid[c] THEN name[c] ELSE sessions[i]]
    BY <1>2 DEF NewSession, Goto
  <2>2. /\ DOMAIN sessions' = DOMAIN sessions \cup {sid[c]}
        /\ \A i \in DOMAIN sessions' : sessions'[i] \in Users \cup {NoUser}
    BY <2>1 DEF Logins
  <2>3. IsFiniteSet(DOMAIN sessions')
    BY <2>2, FS_AddElement DEF Logins
  <2>4. sid[c] \in Nat \ {0}
    BY <2>1 DEF Logins
  <2> QED
    BY <2>1, <2>2, <2>3, <2>4 DEF Logins
<1>3. CASE AttachSession(c)
  <2>1. /\ at[c] = "attach" /\ at' = [at EXCEPT ![c] = "ok"] /\ UNCHANGED <<name, sid, sessions>>
        /\ session' = [session EXCEPT ![c] = sessions[sid[c]]]
    BY <1>3 DEF AttachSession, Goto
  <2>2. session' \in [Conns -> Users \cup {NoUser}]
    BY <2>1 DEF Logins
  <2> QED
    BY <2>1, <2>2 DEF Logins
<1> QED
  BY <1>1, <1>2, <1>3

-----------------------------------------------------------------------------
\* Every step keeps the invariant.
LEMMA NextIInv == IInv /\ [Next]_vars => IInv'
<1> SUFFICES ASSUME IInv, [Next]_vars PROVE IInv'
  OBVIOUS
<1>0. Typed /\ Logins /\ Core /\ at \in [Conns -> Places] /\ name \in [Conns -> Users \cup {NoUser}]
  BY DEF IInv, Typed, Logins
<1>1. ASSUME UNCHANGED login, \A d \in Conns : at'[d] \in {"store", "attach"} => at'[d] = at[d]
      PROVE  Logins'
  BY <1>0, <1>1, LoginsSame DEF login
<1>2. ASSUME NEW c \in Conns, Main(c) PROVE IInv'
  <2>1. CASE RunLogin(c) \/ RunShell(c) \/ RunAdduser(c) \/ RunEditor(c) \/ RunCommand(c)
    <3>1. Typed' /\ Moves(c) /\ UNCHANGED login /\ at'[c] \notin {"store", "attach"}
      BY <1>0, <2>1, RunMoves
    <3>2. Logins'
      BY <1>1, <3>1 DEF Moves, Others
    <3> QED
      BY <1>0, <3>1, <3>2, MovesCore DEF IInv
  <2>2. CASE \/ Absorb(c) \/ LoginName(c) \/ LoginPassword(c) \/ AdduserName(c) \/ AdduserPassword(c)
             \/ EditorKey(c) \/ ShellKey(c) \/ ShellExit(c)
    <3>1. /\ Typed' /\ Moves(c) /\ UNCHANGED <<sid, sessions, session>>
          /\ at'[c] \notin {"store", "attach"}
      BY <1>0, <2>2, ReadMoves
    <3>2. UNCHANGED name \/ \E u \in Users : name' = [name EXCEPT ![c] = u]
      BY <2>2 DEF Absorb, LoginName, LoginPassword, AdduserName, AdduserPassword, EditorKey, ShellKey, ShellExit,
         login
    <3>3. name' \in [Conns -> Users \cup {NoUser}]
      BY <1>0, <3>2
    <3>4. Logins'
      BY <1>0, <3>1, <3>3, LoginsSame DEF Moves, Others
    <3> QED
      BY <1>0, <3>1, <3>4, MovesCore DEF IInv
  <2>3. CASE GenerateSessionID(c) \/ NewSession(c) \/ AttachSession(c)
    BY <1>0, <2>3, OtherMoves, MovesCore, SessionLogins DEF IInv
  <2>4. CASE Raw(c)
    <3>1. Typed' /\ Moves(c) /\ UNCHANGED login /\ at[c] = "raw" /\ Goto(c, "read")
      BY <1>0, <2>4, OtherMoves DEF Raw
    <3>2. at'[c] = "read"
      BY <1>0, <3>1, GotoFacts DEF Places
    <3>3. Logins'
      BY <1>1, <3>1, <3>2 DEF Moves, Others
    <3> QED
      BY <1>0, <3>1, <3>3, MovesCore DEF IInv
  <2>5. CASE Foreground(c) \/ Regain(c)
    <3>1. Typed' /\ Core' /\ UNCHANGED login /\ at'[c] \notin {"store", "attach"}
      BY <1>0, <2>5, ForegroundCore
    <3>2. \A d \in Conns : d # c => at'[d] = at[d]
      BY <1>0, <2>5 DEF Foreground, Regain, Goto
    <3> QED
      BY <1>1, <3>1, <3>2 DEF IInv
  <2>6. CASE Exit(c)
    <3>1. Typed' /\ Core' /\ UNCHANGED login /\ at'[c] \notin {"store", "attach"}
      BY <1>0, <2>6, ExitCore
    <3>2. \A d \in Conns : d # c => at'[d] = at[d]
      BY <1>0, <2>6 DEF Exit, Goto
    <3> QED
      BY <1>1, <3>1, <3>2 DEF IInv
  <2>7. CASE StartLogin(c) \/ StartShell(c) \/ (\E prog \in Programs : ShellExec(c, prog))
    <3>1. /\ Typed' /\ Core' /\ UNCHANGED login
          /\ at'[c] = "start" /\ \A d \in Conns : d # c => at'[d] = at[d]
      BY <1>0, <2>7, StartCore
    <3> QED
      BY <1>1, <3>1 DEF IInv
  <2> QED
    BY <1>2, <2>1, <2>2, <2>3, <2>4, <2>5, <2>6, <2>7 DEF Main
<1>3. ASSUME NEW c \in Conns, Interrupted(c) PROVE IInv'
  <2>1. Typed' /\ Moves(c) /\ UNCHANGED login
    BY <1>0, <1>3, OtherMoves DEF Interrupted
  <2>2. \E place \in {"ok", "fail"} : Goto(c, place)
    BY <1>3 DEF Interrupted
  <2>3. at'[c] \in {"ok", "fail"}
    BY <1>0, <2>2, GotoFacts DEF Places
  <2>4. Logins'
    BY <1>1, <2>1, <2>3 DEF Moves, Others
  <2> QED
    BY <1>0, <2>1, <2>4, MovesCore DEF IInv
<1>4. ASSUME NEW c \in Conns,
             DeferredRaw(c) \/ Scanner(c) \/ HangUp(c) \/ \E key \in Keys : Type(c, key)
      PROVE  IInv'
  <2>1. Typed' /\ Core' /\ UNCHANGED <<at, login>>
    BY <1>0, <1>4, SignalCore, HandlerCore, BesideCore DEF Scanner
  <2> QED
    BY <1>1, <2>1 DEF IInv
<1>5. ASSUME NEW c \in Conns, Connect(c) PROVE IInv'
  BY <1>0, <1>1, <1>5, ConnectCore DEF IInv
<1>6. CASE UNCHANGED vars
  <2>1. UNCHANGED <<link, scan, at, stack, pids, procs, tty, cancelled, hung, late, name, sid, sessions, session>>
    BY <1>6 DEF vars, chain, login
  <2>2. Typed' /\ Logins' /\ Table'
    BY <1>0, <2>1 DEF Typed, Logins, Core, Table
  <2>3. Known' = Known
    BY <2>1 DEF Known, InHand
  <2>4. PidsApart'
    BY <1>0, <2>1, <2>3, PidsKept DEF Core
  <2>5. ASSUME NEW d \in Conns PROVE Shape(d)' /\ Fg(d)' /\ Home(d)' /\ Masked(d)'
    <3>1. Shape(d) /\ Fg(d) /\ Home(d) /\ Masked(d)
      BY <1>0 DEF Core
    <3>2. Shape(d)' /\ Home(d)' /\ Masked(d)'
      BY <2>1, <3>1 DEF Shape, Home, Masked, LoginRuns, ShellRuns, ProgramRuns
    <3> QED
      BY <2>1, <2>3, <3>1, <3>2, FgKept DEF Fg
  <2> QED
    BY <2>2, <2>4, <2>5 DEF IInv, Core
<1> QED
  BY <1>2, <1>3, <1>4, <1>5, <1>6 DEF Next, Client

\* Nobody is connected at first.
LEMMA InitIInv == Init => IInv
<1> SUFFICES ASSUME Init PROVE IInv
  OBVIOUS
<1>1. /\ link = [c \in Conns |-> "new"] /\ at = [c \in Conns |-> "none"] /\ stack = [c \in Conns |-> <<>>]
      /\ tty = [c \in Conns |-> [fg |-> -1, canonical |-> TRUE, passwd |-> FALSE]]
      /\ pids = 0 /\ procs = {} /\ cancelled = {}
      /\ hung = [c \in Conns |-> FALSE] /\ late = [c \in Conns |-> 0]
      /\ name = [c \in Conns |-> NoUser] /\ sid = [c \in Conns |-> 0]
      /\ DOMAIN sessions = {} /\ session = [c \in Conns |-> NoUser]
  BY DEF Init
<1> DEFINE r == [Idle EXCEPT !.do = "none"]
<1>2. r \in Scan /\ r.do = "none" /\ r.left = {} /\ scan = [c \in Conns |-> r]
  BY DEF Init, Idle, Scan
<1> HIDE DEF r
<1>3. <<>> \in Seq(Process) /\ Len(<<>>) = 0 /\ DOMAIN <<>> = {}
  OBVIOUS
<1>4. Typed
  BY <1>1, <1>2, <1>3 DEF Typed, Tty, Places
<1>5. Logins
  BY <1>1, FS_EmptySet DEF Logins
<1>6. Known = {}
  BY <1>1, <1>2 DEF Known, InHand
<1>7. Table /\ PidsApart
  BY <1>1, <1>3, <1>6 DEF Table, PidsApart
<1>8. ASSUME NEW c \in Conns PROVE Shape(c) /\ Fg(c) /\ Home(c) /\ Masked(c)
  BY <1>1, <1>2, <1>3, <1>6 DEF Shape, Fg, Home, Masked
<1> QED
  BY <1>4, <1>5, <1>7, <1>8 DEF IInv, Core

\* The invariant holds throughout.
LEMMA Invariance == Spec => []IInv
BY InitIInv, NextIInv, PTL DEF Spec

-----------------------------------------------------------------------------
\* The variables hold what their declarations say, whatever is typed and
\* however the connections interleave; session ids are counted from 1
\* (computer.go:137).
THEOREM TypeCorrect == Spec => []TypeOK
<1>1. IInv => TypeOK
  <2> SUFFICES ASSUME IInv PROVE TypeOK
    OBVIOUS
  <2>1. Typed /\ Logins
    BY DEF IInv
  <2> DEFINE lefts == procs \cup UNION {scan[c].left : c \in Conns}
  <2>2. ASSUME NEW c \in Conns
        PROVE  scan[c] \in [do : {"none", "scan", "send", "signal", "handle", "cancel", "ended"},
                            key : Keys \cup {""}, left : SUBSET lefts, now : Process \cup {NoProc}]
    <3>1. scan[c] \in Scan /\ scan[c].left \subseteq lefts
      BY <2>1 DEF Typed
    <3> HIDE DEF lefts
    <3> QED
      BY <3>1 DEF Scan
  <2>3. \A c \in Conns : scan[c].left \subseteq Process /\ stack[c] \in Seq(Process)
    BY <2>1 DEF Typed, Scan
  <2> QED
    BY <2>1, <2>2, <2>3 DEF TypeOK, Typed, Logins, Places, Tty
<1> QED
  BY <1>1, Invariance, PTL

\* A process that reads is in the foreground of its terminal, so no Read fails
\* at once and no keystroke goes to nobody (tty.go:112-114, shell.go:64-70).
THEOREM ReadersInForeground == Spec => []ForegroundReads
<1>1. IInv => ForegroundReads
  BY DEF IInv, Core, Fg, ForegroundReads, Top, Last
<1> QED
  BY <1>1, Invariance, PTL

\* The process table holds exactly the processes of the chains, each under a PID
\* of its own (kernel.go:452-466, 519-562).
THEOREM TableExact == Spec => []ProcessTable
<1>1. IInv => ProcessTable
  <2> SUFFICES ASSUME IInv PROVE ProcessTable
    OBVIOUS
  <2>1. Table /\ PidsApart /\ stack \in [Conns -> Seq(Process)]
    BY DEF IInv, Core, Typed
  <2>2. procs = UNION {ToSet(stack[c]) : c \in Conns}
    BY <2>1 DEF Table, ToSet
  <2>3. \A p, q \in procs : p.pid = q.pid => p = q
    BY <2>1 DEF PidsApart, Known
  <2> QED
    BY <2>2, <2>3 DEF ProcessTable
<1> QED
  BY <1>1, Invariance, PTL

\* A Ctrl-C is handled only by processes of its own terminal, and by one that
\* has exited only while nobody but the shell has the terminal (tty.go:71-86).
THEOREM SignalsAtHome == Spec => []SignalsStayHome
<1>1. IInv => SignalsStayHome
  <2> SUFFICES ASSUME IInv, NEW c \in Conns, scan[c].do \in {"handle", "cancel"}
               PROVE  /\ scan[c].now.conn = c
                      /\ scan[c].now \in ToSet(stack[c]) \/ stack[c] = <<>> \/ Top(c).prog = "sh"
    BY DEF SignalsStayHome
  <2>1. Home(c) /\ stack[c] \in Seq(Process)
    BY DEF IInv, Core, Typed
  <2>2. Len(stack[c]) = 0 => stack[c] = <<>>
    BY <2>1
  <2> QED
    BY <2>1, <2>2 DEF Home, ToSet, Top, Last
<1> QED
  BY <1>1, Invariance, PTL

\* While a password is typed the terminal masks it, unless the process has been
\* interrupted (login.go:52, adduser.go:68).
THEOREM PasswordsMasked == Spec => []PasswordMasked
<1>1. IInv => PasswordMasked
  BY DEF IInv, Core, Masked, PasswordMasked, Done, Top, Last
<1> QED
  BY <1>1, Invariance, PTL
=============================================================================
