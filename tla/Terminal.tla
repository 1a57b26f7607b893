------------------------------ MODULE Terminal ------------------------------
(***************************************************************************)
(* The terminals of one node: for every connection, the goroutine that      *)
(* scans keystrokes and delivers signals, the chain of processes that       *)
(* begins with /bin/login, and the TTY between them (computer/tty.go,       *)
(* handler.go, computer.go, the process part of kernel.go, and the Run and  *)
(* HandleSignal methods of the programs).                                   *)
(*                                                                         *)
(* Of the processes of a connection only the last runs: the others wait in  *)
(* exec for it to report its status.  What runs beside it is the scanner,   *)
(* whose signal handlers touch the same TTY, and the deferred ioctl of an   *)
(* adduser that has already reported.                                       *)
(*                                                                         *)
(* Every caller of exec passes empty ExecOpts, so a process leads a group   *)
(* of its own and PGID = PID.  A line is abstracted to whether it is empty. *)
(***************************************************************************)
EXTENDS Integers, Sequences, FiniteSets, SequencesExt

CONSTANTS
    Conns,          \* client connections
    Users,          \* user names
    NoUser,         \* no user has logged in
    NoProc          \* no process

ASSUME TerminalAssumption == NoUser \notin Users

VARIABLES
    link,           \* the connection: "new", "up" or "down"
    scan,           \* what the scanner goroutine is doing
    at,             \* where the last process of the chain is
    stack,          \* the chain of processes
    tty,            \* ForegroundPGID, Canonical, PasswdMode
    pids,           \* Kernel.pids
    procs,          \* Kernel.procs
    cancelled,      \* processes whose CtxCancel has been called
    hung,           \* connections whose connCancel has been called
    late,           \* adduser programs that have yet to run their deferred ioctl
    name,           \* login's username
    sid,            \* NewSession's sessionID
    sessions,       \* Computer.sessions: the user of each session
    session         \* the user of tty.Session

chain == <<at, stack, pids, procs>>
login == <<name, sid, sessions, session>>
vars  == <<link, scan, chain, tty, cancelled, hung, late, login>>

Programs == {"adduser", "v", "cmd"}     \* cmd: one that neither reads nor handles signals

Process == [pid : Nat, prog : Programs \cup {"login", "sh"}, conn : Conns, uid : Users \cup {"root", NoUser}]

Top(c) == Last(stack[c])

\* The context of the last process is done: its own, one it descends from, or
\* the connection's.  Mutant: only the connection's counts.
DoneByHangUp(c) == hung[c]

Done(c) == hung[c] \/ \E k \in DOMAIN stack[c] : stack[c][k] \in cancelled

Goto(c, place) == at' = [at EXCEPT ![c] = place]

-----------------------------------------------------------------------------
(* exec and the end of a process. *)

\* Mutant: PIDs of exited processes are used again.
NextPidReused == CHOOSE n \in 1 .. (pids + 1) : /\ \A p \in procs : p.pid # n
                                                /\ \A m \in 1 .. (n - 1) : \E p \in procs : p.pid = m

\* nextPID (freePIDs is always empty)
NextPid == pids + 1

\* exec up to the entry in the process table.
Exec(c, prog, u) ==
    LET p == [pid |-> NextPid, prog |-> prog, conn |-> c, uid |-> u]
    IN  /\ pids' = pids + 1
        /\ procs' = procs \cup {p}
        /\ stack' = [stack EXCEPT ![c] = Append(@, p)]
        /\ Goto(c, "start")

\* exec then makes the process group the foreground one and runs the program.
Foreground(c) ==
    /\ at[c] = "start"
    /\ tty' = [tty EXCEPT ![c].fg = Top(c).pid]
    /\ Goto(c, "run")
    /\ UNCHANGED <<link, scan, stack, pids, procs, cancelled, hung, late, login>>

\* What a program does before it reads, or instead of it.
Begins(c, prog, places) ==
    /\ at[c] = "run" /\ Top(c).prog = prog
    /\ \E place \in places : Goto(c, place)
    /\ UNCHANGED <<link, scan, stack, pids, procs, cancelled, hung, late, login>>

RunLogin(c) == Begins(c, "login", {"read"}) /\ UNCHANGED tty

RunShell(c) == Begins(c, "sh", {"read"}) /\ tty' = [tty EXCEPT ![c].canonical = FALSE]

\* It fails when it is given parameters.
RunAdduser(c) == Begins(c, "adduser", {"read", "fail"}) /\ tty' = [tty EXCEPT ![c].canonical = TRUE]

\* The file to edit may not be there.
RunEditor(c) == \/ Begins(c, "v", {"fail"}) /\ UNCHANGED tty
                \/ Begins(c, "v", {"read"}) /\ tty' = [tty EXCEPT ![c].canonical = FALSE]

RunCommand(c) == Begins(c, "cmd", {"ok", "fail"}) /\ UNCHANGED tty

\* Mutant: the table keeps the process.
CleanupNot(p) == procs

\* cleanupProcess
Cleanup(p) == procs \ {p}

\* The program has reported its status and exec returns it.  Without a login
\* or after the shell the connection is closed.
Exit(c) ==
    LET p == Top(c)
    IN  /\ at[c] \in {"ok", "fail"}
        /\ procs' = Cleanup(p)
        /\ stack' = [stack EXCEPT ![c] = Front(@)]
        /\ late' = [late EXCEPT ![c] = IF p.prog = "adduser" THEN @ + 1 ELSE @]
        /\ \/ p.prog = "login" /\ at[c] = "ok" /\ Goto(c, "loggedin") /\ UNCHANGED link
           \/ /\ p.prog = "sh" \/ (p.prog = "login" /\ at[c] = "fail")
              /\ Goto(c, "closed")
              /\ link' = [link EXCEPT ![c] = "down"]
           \/ p.prog \in Programs /\ Goto(c, "regain") /\ UNCHANGED link
        /\ UNCHANGED <<scan, tty, pids, cancelled, hung, login>>

\* Mutant: the deferred call ends the masking too.
DeferredUnmask(c) ==
    /\ late[c] > 0
    /\ late' = [late EXCEPT ![c] = @ - 1]
    /\ tty' = [tty EXCEPT ![c].canonical = FALSE, ![c].passwd = FALSE]
    /\ UNCHANGED <<link, scan, chain, cancelled, hung, login>>

\* adduser's deferred TIOCRAW runs when it pleases.
DeferredRaw(c) ==
    /\ late[c] > 0
    /\ late' = [late EXCEPT ![c] = @ - 1]
    /\ tty' = [tty EXCEPT ![c].canonical = FALSE]
    /\ UNCHANGED <<link, scan, chain, cancelled, hung, login>>

-----------------------------------------------------------------------------
(* HandleClient: daddyProc. *)

Connect(c) ==
    /\ link[c] = "new"
    /\ link' = [link EXCEPT ![c] = "up"]
    /\ scan' = [scan EXCEPT ![c].do = "scan"]
    /\ Goto(c, "boot")
    /\ UNCHANGED <<stack, pids, procs, tty, cancelled, hung, late, login>>

StartLogin(c) ==
    /\ at[c] = "boot"
    /\ Exec(c, "login", "root")
    /\ UNCHANGED <<link, scan, tty, cancelled, hung, late, login>>

\* The shell runs as the user of the session that login left in the TTY.
StartShell(c) ==
    /\ at[c] = "loggedin"
    /\ Exec(c, "sh", session[c])
    /\ UNCHANGED <<link, scan, tty, cancelled, hung, late, login>>

-----------------------------------------------------------------------------
(* TTY.Read: the last process waits for the scanner or for its context.  If   *)
(* it is not in the foreground Read fails, and every program tries again.     *)

Reading(c) == at[c] \in {"read", "passwd"} /\ tty[c].fg = Top(c).pid

Idle == [do |-> "scan", key |-> "", left |-> {}, now |-> NoProc]

\* Read takes the scanner's keystroke.
Takes(c) == Reading(c) /\ scan[c].do = "send" /\ scan' = [scan EXCEPT ![c] = Idle]

\* What Read may return: a line that ends with the keystroke, or the keystroke.
Values(c) == IF tty[c].canonical THEN (IF scan[c].key = "enter" THEN {"", "line"} ELSE {})
             ELSE {scan[c].key}

\* Read keeps a keystroke of an unfinished line.
Absorb(c) ==
    /\ Takes(c) /\ Values(c) = {}
    /\ UNCHANGED <<link, chain, tty, cancelled, hung, late, login>>

Reads(c, prog, place) == Takes(c) /\ Top(c).prog = prog /\ at[c] = place

LoginName(c) ==
    /\ Reads(c, "login", "read")
    /\ \E value \in Values(c), u \in Users :
          IF value = "" THEN Goto(c, "fail") /\ UNCHANGED <<tty, name>>
          ELSE /\ name' = [name EXCEPT ![c] = u]
               /\ tty' = [tty EXCEPT ![c].passwd = TRUE]
               /\ Goto(c, "passwd")
    /\ UNCHANGED <<link, stack, pids, procs, cancelled, hung, late, sid, sessions, session>>

\* checkCredentials says yes or no.
LoginPassword(c) ==
    /\ Reads(c, "login", "passwd")
    /\ \E value \in Values(c) :
          IF value = "" THEN Goto(c, "fail") /\ UNCHANGED tty
          ELSE /\ tty' = [tty EXCEPT ![c].passwd = FALSE]
               /\ Goto(c, "session") \/ Goto(c, "fail")
    /\ UNCHANGED <<link, stack, pids, procs, cancelled, hung, late, login>>

\* Mutant: sessions are counted from 0.
SessionIDFromZero == Cardinality(DOMAIN sessions)

\* GenerateSessionID
SessionID == Cardinality(DOMAIN sessions) + 1

\* NewSession, without a lock: choose an id,
GenerateSessionID(c) ==
    /\ at[c] = "session"
    /\ sid' = [sid EXCEPT ![c] = SessionID]
    /\ Goto(c, "store")
    /\ UNCHANGED <<link, scan, stack, pids, procs, tty, cancelled, hung, late, name, sessions, session>>

\* enter the session under it,
NewSession(c) ==
    /\ at[c] = "store"
    /\ sessions' = [i \in DOMAIN sessions \cup {sid[c]} |-> IF i = sid[c] THEN name[c] ELSE sessions[i]]
    /\ Goto(c, "attach")
    /\ UNCHANGED <<link, scan, stack, pids, procs, tty, cancelled, hung, late, name, sid, session>>

\* and, once the home directory is there, look it up again for the TTY.
AttachSession(c) ==
    /\ at[c] = "attach"
    /\ session' = [session EXCEPT ![c] = sessions[sid[c]]]
    /\ Goto(c, "ok")
    /\ UNCHANGED <<link, scan, stack, pids, procs, tty, cancelled, hung, late, name, sid, sessions>>

AdduserName(c) ==
    /\ Reads(c, "adduser", "read")
    /\ \E value \in Values(c) :
          \/ Goto(c, "fail") /\ UNCHANGED tty       \* empty, or taken
          \/ /\ value # ""
             /\ tty' = [tty EXCEPT ![c].passwd = TRUE]
             /\ Goto(c, "passwd")
    /\ UNCHANGED <<link, stack, pids, procs, cancelled, hung, late, login>>

AdduserPassword(c) ==
    /\ Reads(c, "adduser", "passwd")
    /\ Values(c) # {}
    /\ tty' = [tty EXCEPT ![c].passwd = FALSE]
    /\ Goto(c, "ok") \/ Goto(c, "fail")
    /\ UNCHANGED <<link, stack, pids, procs, cancelled, hung, late, login>>

\* The editor takes a keystroke; when it cannot save it gives up.
EditorKey(c) ==
    /\ Reads(c, "v", "read") /\ Values(c) # {}
    /\ \/ UNCHANGED <<tty, cancelled>>
       \/ /\ cancelled' = cancelled \cup {Top(c)}
          /\ tty' = [tty EXCEPT ![c].canonical = TRUE]
    /\ UNCHANGED <<link, chain, hung, late, login>>

\* The shell edits its line; only a raw Enter ends it.  Built-in commands and
\* unknown ones return to the prompt.
ShellKey(c) ==
    /\ Reads(c, "sh", "read") /\ Values(c) # {}
    /\ UNCHANGED <<link, chain, tty, cancelled, hung, late, login>>

ShellExit(c) ==
    /\ Reads(c, "sh", "read") /\ Values(c) = {"enter"}
    /\ tty' = [tty EXCEPT ![c].canonical = TRUE]
    /\ Goto(c, "ok")
    /\ UNCHANGED <<link, stack, pids, procs, cancelled, hung, late, login>>

\* execFg: canonical mode, then exec,
ShellExec(c, prog) ==
    /\ Reads(c, "sh", "read") /\ Values(c) = {"enter"}
    /\ tty' = [tty EXCEPT ![c].canonical = TRUE]
    /\ Exec(c, prog, Top(c).uid)
    /\ UNCHANGED <<link, cancelled, hung, late, login>>

\* Mutant: the shell does not take the terminal back.
RegainNot(c) ==
    /\ at[c] = "regain"
    /\ Goto(c, "raw")
    /\ UNCHANGED <<link, scan, stack, pids, procs, tty, cancelled, hung, late, login>>

\* and afterwards TIOCSPGRP
Regain(c) ==
    /\ at[c] = "regain"
    /\ tty' = [tty EXCEPT ![c].fg = Top(c).pid]
    /\ Goto(c, "raw")
    /\ UNCHANGED <<link, scan, stack, pids, procs, cancelled, hung, late, login>>

\* and TIOCRAW.
Raw(c) ==
    /\ at[c] = "raw"
    /\ tty' = [tty EXCEPT ![c].canonical = FALSE]
    /\ Goto(c, "read")
    /\ UNCHANGED <<link, scan, stack, pids, procs, cancelled, hung, late, login>>

\* Read returns Exit because the context is done, and the program ends.
Interrupted(c) ==
    /\ Reading(c) /\ Done(c)
    /\ Goto(c, IF Top(c).prog = "v" THEN "ok" ELSE "fail")
    /\ tty' = IF Top(c).prog = "sh" THEN [tty EXCEPT ![c].canonical = TRUE] ELSE tty
    /\ UNCHANGED <<link, scan, stack, pids, procs, cancelled, hung, late, login>>

-----------------------------------------------------------------------------
(* The scanner. *)

\* HandleKeystroke: hand the key to whoever reads, or take a snapshot of the
\* process table for SIGINT.
Type(c, key) ==
    /\ link[c] = "up" /\ scan[c].do = "scan"
    /\ scan' = [scan EXCEPT ![c] =
                   IF key # "intr" THEN [Idle EXCEPT !.do = "send", !.key = key]
                   ELSE IF tty[c].fg = -1 \/ procs = {} THEN Idle
                   ELSE [Idle EXCEPT !.do = "signal", !.left = procs]]
    /\ UNCHANGED <<link, chain, tty, cancelled, hung, late, login>>

\* The scanner goes on with the rest of its snapshot.
Resume(left) == IF left = {} THEN Idle ELSE [Idle EXCEPT !.do = "signal", !.left = left]

InForeground(c, p) == p.pid = tty[c].fg

\* The next process of the snapshot, compared with the foreground group of now.
Signal(c) ==
    /\ scan[c].do = "signal"
    /\ \E p \in scan[c].left :
          scan' = [scan EXCEPT ![c] =
                      IF InForeground(c, p)
                      THEN [Idle EXCEPT !.do = "handle", !.now = p, !.left = scan[c].left \ {p}]
                      ELSE Resume(scan[c].left \ {p})]
    /\ UNCHANGED <<link, chain, tty, cancelled, hung, late, login>>

\* What the handlers of adduser and v do to the TTY d of their process.
AdduserSignal(d) == [tty EXCEPT ![d].passwd = FALSE]

EditorSignal(d) == [tty EXCEPT ![d].canonical = TRUE]

\* HandleSignal(SIGINT) of the program; the shell only clears its own line,
HandleSignal(c) ==
    LET p == scan[c].now
    IN  /\ scan[c].do = "handle"
        /\ scan' = [scan EXCEPT ![c] = IF p.prog \in {"sh", "cmd"} THEN Resume(scan[c].left)
                                       ELSE [scan[c] EXCEPT !.do = "cancel"]]
        /\ tty' = CASE p.prog = "adduser" -> AdduserSignal(p.conn)
                    [] p.prog = "v"       -> EditorSignal(p.conn)
                    [] OTHER              -> tty
        /\ UNCHANGED <<link, chain, cancelled, hung, late, login>>

\* and then CtxCancel.
Cancel(c) ==
    /\ scan[c].do = "cancel"
    /\ cancelled' = cancelled \cup {scan[c].now}
    /\ scan' = [scan EXCEPT ![c] = Resume(scan[c].left)]
    /\ UNCHANGED <<link, chain, tty, hung, late, login>>

\* The client goes away.
HangUp(c) ==
    /\ link[c] = "up"
    /\ link' = [link EXCEPT ![c] = "down"]
    /\ UNCHANGED <<scan, chain, tty, cancelled, hung, late, login>>

\* Mutant: connCancel is forgotten.
EofNoCancel(c) ==
    /\ link[c] = "down" /\ scan[c].do = "scan"
    /\ scan' = [scan EXCEPT ![c].do = "ended"]
    /\ UNCHANGED <<link, chain, tty, cancelled, hung, late, login>>

\* The scanner sees the end of the input, and HandleClient returns.
Eof(c) ==
    /\ link[c] = "down" /\ scan[c].do = "scan"
    /\ scan' = [scan EXCEPT ![c].do = "ended"]
    /\ hung' = [hung EXCEPT ![c] = TRUE]
    /\ UNCHANGED <<link, chain, tty, cancelled, late, login>>

-----------------------------------------------------------------------------
Init ==
    /\ link = [c \in Conns |-> "new"]
    /\ scan = [c \in Conns |-> [Idle EXCEPT !.do = "none"]]
    /\ at = [c \in Conns |-> "none"] /\ stack = [c \in Conns |-> <<>>]
    /\ tty = [c \in Conns |-> [fg |-> -1, canonical |-> TRUE, passwd |-> FALSE]]
    /\ pids = 0 /\ procs = {} /\ cancelled = {}
    /\ hung = [c \in Conns |-> FALSE] /\ late = [c \in Conns |-> 0]
    /\ name = [c \in Conns |-> NoUser] /\ sid = [c \in Conns |-> 0]
    /\ sessions = [i \in {} |-> NoUser]
    /\ session = [c \in Conns |-> NoUser]

\* The last process of the chain, or daddyProc, takes a step.
Main(c) ==
    \/ StartLogin(c) \/ StartShell(c) \/ Foreground(c) \/ Exit(c)
    \/ RunLogin(c) \/ RunShell(c) \/ RunAdduser(c) \/ RunEditor(c) \/ RunCommand(c)
    \/ Absorb(c) \/ LoginName(c) \/ LoginPassword(c)
    \/ GenerateSessionID(c) \/ NewSession(c) \/ AttachSession(c)
    \/ AdduserName(c) \/ AdduserPassword(c) \/ EditorKey(c)
    \/ ShellKey(c) \/ ShellExit(c) \/ \E prog \in Programs : ShellExec(c, prog)
    \/ Regain(c) \/ Raw(c)

Scanner(c) == Signal(c) \/ HandleSignal(c) \/ Cancel(c) \/ Eof(c)

Keys == {"char", "enter", "intr"}

Client(c) == Connect(c) \/ HangUp(c) \/ \E key \in Keys : Type(c, key)

Next == \E c \in Conns : Main(c) \/ Interrupted(c) \/ DeferredRaw(c) \/ Scanner(c) \/ Client(c)

\* Goroutines that can run do run, and a select does not pass over a context
\* that is done for ever.  Clients owe nothing.
Fairness == \A c \in Conns : /\ WF_vars(Main(c)) /\ WF_vars(Interrupted(c))
                             /\ WF_vars(DeferredRaw(c)) /\ WF_vars(Scanner(c))

Spec == Init /\ [][Next]_vars /\ Fairness

-----------------------------------------------------------------------------
(* Properties. *)

\* The variables hold what their declarations say; session ids are counted from
\* 1 (computer.go:137).
TypeOK ==
    /\ link \in [Conns -> {"new", "up", "down"}]
    /\ at \in [Conns -> {"none", "boot", "start", "run", "read", "passwd", "session", "store", "attach",
                         "ok", "fail", "loggedin", "regain", "raw", "closed"}]
    /\ scan \in [Conns -> [do : {"none", "scan", "send", "signal", "handle", "cancel", "ended"},
                           key : Keys \cup {""}, left : SUBSET (procs \cup UNION {scan[c].left : c \in Conns}),
                           now : Process \cup {NoProc}]]
    /\ tty \in [Conns -> [fg : Nat \cup {-1}, canonical : BOOLEAN, passwd : BOOLEAN]]
    /\ \A c \in Conns : scan[c].left \subseteq Process /\ stack[c] \in Seq(Process)
    /\ pids \in Nat /\ procs \subseteq Process /\ cancelled \subseteq Process
    /\ hung \in [Conns -> BOOLEAN] /\ late \in [Conns -> Nat]
    /\ sid \in [Conns -> Nat] /\ DOMAIN sessions \subseteq Nat \ {0}
    /\ name \in [Conns -> Users \cup {NoUser}] /\ session \in [Conns -> Users \cup {NoUser}]

\* A process that reads is in the foreground of its terminal: otherwise Read
\* would fail at once and the program would spin for ever (tty.go:112-114,
\* shell.go:64-70), and keystrokes would go to nobody.
ForegroundReads ==
    \A c \in Conns : at[c] \in {"read", "passwd"} => tty[c].fg = Top(c).pid

\* The process table holds exactly the processes of the chains, each under a
\* PID of its own: exec and cleanupProcess of concurrent connections neither
\* lose nor leave one (kernel.go:452-466, 519-562).
ProcessTable ==
    /\ procs = UNION {ToSet(stack[c]) : c \in Conns}
    /\ \A p, q \in procs : p.pid = q.pid => p = q

\* A Ctrl-C is handled only by processes of the terminal it was typed on; and
\* although the handler may run after its process has exited, by then nobody
\* but the shell (or nobody) has the terminal, never another program whose modes
\* the handler would change (tty.go:71-86).
SignalsStayHome ==
    \A c \in Conns : scan[c].do \in {"handle", "cancel"} =>
        /\ scan[c].now.conn = c
        /\ scan[c].now \in ToSet(stack[c]) \/ stack[c] = <<>> \/ Top(c).prog = "sh"

\* While a password is typed the terminal masks it, unless the process has
\* been interrupted (login.go:52, adduser.go:68, and adduser's HandleSignal).
PasswordMasked ==
    \A c \in Conns : at[c] = "passwd" /\ ~tty[c].passwd =>
        Done(c) \/ (scan[c].do = "cancel" /\ scan[c].now = Top(c))

\* When the client is gone, all processes of the connection end and leave the
\* table: the context reaches them wherever they are, even if the scanner was
\* still holding a keystroke (handler.go:67-79).
HangUpEnds ==
    \A c \in Conns : link[c] = "down" ~> at[c] = "closed" /\ \A p \in procs : p.conn # c

\* A process whose context has been cancelled, by Ctrl-C or by v itself, notices
\* at its next Read and leaves the process table, wherever it was when the
\* handler ran (tty.go:237-238, adduser.go:29, kernel.go:558-563).
InterruptEnds ==
    \A c \in Conns : (\E p \in cancelled \cap procs : p.conn = c)
                         ~> (\A p \in cancelled \cap procs : p.conn # c)

\* "switches to canonical before exec and restores raw after" (shell.go:81): the
\* shell reads single keystrokes.
ShellReadsRaw ==
    \A c \in Conns : at[c] = "read" /\ Top(c).prog = "sh" => ~tty[c].canonical

\* "UID ... who launched it (session user)" (process.go:7): everything after
\* login runs as the user who logged in on that connection.
RunsAsLogin ==
    \A c \in Conns : \A p \in procs : p.conn = c /\ p.prog # "login" => p.uid = name[c]
=============================================================================
