----------------------------- MODULE LineEditor -----------------------------
(***************************************************************************)
(* Editing a line: the shell's canonicalLogic with its history             *)
(* (programs/shell/buffer_logic.go) and, for the programs that read whole  *)
(* lines, the same keys in the canonical mode of TTY.Read (computer/tty.go);*)
(* and the row of the user's terminal, as far as it follows from what is   *)
(* echoed.  The two have buffers of their own, but only one is in use at a *)
(* time, and each is empty when its reader gives way to the other.         *)
(*                                                                         *)
(* A keystroke is handled in two steps, since the SIGINT handler of the    *)
(* reader runs on another goroutine and shares the buffer without a lock.  *)
(***************************************************************************)
EXTENDS Integers, Sequences, SequencesExt, FiniteSetsExt

CONSTANTS
    Pasts,          \* histories a shell may have when a behaviour starts, without Wide
    Wide,           \* the runes beyond ASCII, each of three bytes
    TAB,            \* spaces a tab expands to (4)
    PROMPT          \* columns of the prompt

Blank == " "

ASSUME LineAssumption ==
    /\ TAB \in Nat \ {0} /\ PROMPT \in Nat
    /\ Blank \notin Wide /\ Pasts \subseteq Seq(Seq(STRING \ Wide))

VARIABLES
    reader,         \* "sh", or who reads lines: login's name or secret, adduser's
    phase,          \* "read", "busy" with a keystroke, "closed", or "dead": a panic
    busy,           \* the keystroke, and the cursor when it came (preCursor, index)
    buffer,         \* the line, in runes
    cursor,         \* cursorPosition
    history,        \* the shell's, with what Up has saved there
    posInHistory,   \* -1 while a new line is typed
    screen,         \* the row behind the prompt, and the column of the cursor
    draft,          \* the line Up has left
    wide,           \* a wide character has been typed
    raced,          \* SIGINT came while a keystroke was being handled
    garbled         \* the row got raw control characters or an empty Enter

shell  == <<history, posInHistory, draft>>
marks  == <<wide, raced, garbled>>
editor == <<reader, phase, busy, buffer, cursor, shell, screen, marks>>

\* Nothing but stars is shown.
Masked == reader \in {"secret", "secret2"}

Up    == <<"esc", "[", "A">>
Down  == <<"esc", "[", "B">>
Right == <<"esc", "[", "C">>
Left  == <<"esc", "[", "D">>
Enter == <<"cr">>
Del   == <<"del">>

\* Neither taken into the line nor shown: a semicolon, and Ctrl with an arrow.
Skipped(key) == key = <<";">> \/ IsPrefix(<<"esc", "[", "1", ";", "5">>, key)

\* Not taken into the line; all but Ctrl-U are echoed as they are.
CtrlU == <<"nak">>
Ignored == {<<"esc">>, <<"esc", "w">>, <<"esc", "del">>, CtrlU, <<"stx">>}

\* The runes a keystroke stands for.
Text(key) == IF key = <<"tab">> THEN [k \in 1 .. TAB |-> Blank] ELSE key

\* len of a Go string
Bytes(s) == Len(s) + 2 * Cardinality({k \in DOMAIN s : s[k] \in Wide})

\* s[k:]
From(s, k) == SubSeq(s, k + 1, Len(s))

-----------------------------------------------------------------------------
(* The user's terminal. *)

Fresh == [row |-> <<>>, col |-> 0]

Larger(m, n) == IF m > n THEN m ELSE n

\* s written at the cursor.  What goes over the prompt is not followed.
Over(scr, s) ==
    [row |-> [k \in 1 .. Larger(Len(scr.row), scr.col + Len(s)) |->
                 IF k > scr.col /\ k <= scr.col + Len(s) THEN s[k - scr.col]
                 ELSE IF k <= Len(scr.row) THEN scr.row[k] ELSE Blank],
     col |-> scr.col + Len(s)]

Back(scr, n) == [scr EXCEPT !.col = Larger(@ - n, -PROMPT)]

\* "\b \b"
Rubbed(scr) == Back(Over(Back(scr, 1), <<Blank>>), 1)

\* Mutant: the cursor is left behind the text.
TailShownForward(scr, right) == IF right = <<>> THEN scr ELSE Over(scr, right \o <<Blank>>)

\* The rest of the line written again, and the cursor taken back, by the bytes
\* of the text.
TailShown(scr, right) ==
    IF right = <<>> THEN scr ELSE Back(Over(scr, right \o <<Blank>>), Bytes(right) + 1)

Redrawn(line) == [row |-> line, col |-> Len(line)]

\* What is written before the line changes.
Echoed(key) ==
    CASE Masked /\ key \notin {Enter, Del} -> Over(screen, <<"*">>)
      [] key = Enter -> Back(screen, screen.col + PROMPT)
      [] key = Del -> IF cursor > 0 THEN Rubbed(screen) ELSE screen
      [] ~Masked /\ key \in {Up, Down, CtrlU} -> screen
      [] ~Masked /\ key = Right -> IF cursor = Bytes(buffer) THEN screen ELSE [screen EXCEPT !.col = @ + 1]
      [] ~Masked /\ key = Left -> IF cursor = 0 THEN screen ELSE Back(screen, 1)
      [] OTHER -> Over(screen, Text(key))

-----------------------------------------------------------------------------
(* A keystroke: the echo, with the cursor as it was, and then its effect. *)

Begin(key) ==
    /\ phase = "read"
    /\ IF Skipped(key) THEN UNCHANGED <<phase, busy, cursor, screen, wide, garbled>>
       ELSE /\ phase' = "busy"
            /\ busy' = [key |-> key, cursor |-> cursor]
            /\ cursor' = IF key = Del /\ cursor > 0 THEN cursor - 1 ELSE cursor
            /\ screen' = Echoed(key)
            /\ wide' = (wide \/ \E k \in DOMAIN key : key[k] \in Wide)
            /\ garbled' = (garbled \/ (Range(key) \cap {"esc", "stx"} # {} /\ key \notin {Up, Down, Right, Left}))
    /\ UNCHANGED <<reader, buffer, shell, raced>>

Takes(key) == phase = "busy" /\ busy.key = key /\ UNCHANGED busy

\* Who reads next.
GoesOn(who, how) == reader' = who /\ phase' = how

Handles(key) == Takes(key) /\ phase' = "read"

\* Mutant: the position in the history stays.
EnterShellKeepsPlace ==
    /\ Handles(Enter) /\ reader = "sh"
    /\ history' = IF buffer = <<>> THEN history ELSE Append(history, buffer)
    /\ cursor' = 0 /\ buffer' = <<>>
    /\ screen' = Fresh /\ reader' \in {"sh", "adduser"}
    /\ UNCHANGED <<posInHistory, draft, marks>>

\* A line that is not the same as the last is kept.  With an empty line the
\* shell shows no new prompt, and the cursor stays where \r has taken it;
\* after others it reads again, runs adduser, or exits.
EnterShell ==
    /\ Takes(Enter) /\ reader = "sh"
    /\ history' = IF buffer = <<>> \/ (history # <<>> /\ Last(history) = buffer)
                  THEN history ELSE Append(history, buffer)
    /\ posInHistory' = -1 /\ cursor' = 0 /\ buffer' = <<>>
    /\ IF buffer = <<>>
       THEN garbled' = TRUE /\ phase' = "read" /\ UNCHANGED <<reader, screen>>
       ELSE /\ garbled' = FALSE /\ screen' = Fresh
            /\ GoesOn("sh", "read") \/ GoesOn("adduser", "read") \/ GoesOn("sh", "closed")
    /\ UNCHANGED <<draft, wide, raced>>

\* A program gets its line.  login wants a name and a password and a shell
\* follows, or the connection ends; adduser goes back to the shell.
AfterLine ==
    \/ reader = "login" /\ buffer # <<>> /\ GoesOn("secret", "read")
    \/ reader = "login" /\ buffer = <<>> /\ GoesOn("login", "closed")
    \/ reader = "secret" /\ buffer # <<>> /\ GoesOn("sh", "read")
    \/ reader = "secret" /\ GoesOn("secret", "closed")
    \/ reader = "adduser" /\ buffer # <<>> /\ GoesOn("secret2", "read")
    \/ reader \in {"adduser", "secret2"} /\ GoesOn("sh", "read")

EnterLine ==
    /\ Takes(Enter) /\ reader # "sh"
    /\ AfterLine
    /\ cursor' = 0 /\ buffer' = <<>>
    /\ screen' = Fresh /\ garbled' = FALSE
    /\ UNCHANGED <<shell, wide, raced>>

Delete ==
    /\ Handles(Del)
    /\ IF busy.cursor > 0 /\ cursor < Len(buffer)
       THEN /\ buffer' = RemoveAt(buffer, cursor + 1)
            /\ screen' = IF Masked THEN screen ELSE TailShown(screen, From(buffer', cursor))
       ELSE UNCHANGED <<buffer, screen>>
    /\ UNCHANGED <<reader, cursor, shell, marks>>

\* Mutant: moves beyond the end.
MoveRightAlways ==
    /\ Handles(Right)
    /\ cursor' = IF ~Masked THEN cursor + 1 ELSE cursor
    /\ UNCHANGED <<reader, buffer, shell, screen, marks>>

\* Stops at the number of bytes.
MoveRight ==
    /\ Handles(Right)
    /\ cursor' = IF ~Masked /\ cursor # Bytes(buffer) THEN cursor + 1 ELSE cursor
    /\ UNCHANGED <<reader, buffer, shell, screen, marks>>

MoveLeft ==
    /\ Handles(Left)
    /\ cursor' = IF ~Masked /\ cursor # 0 THEN cursor - 1 ELSE cursor
    /\ UNCHANGED <<reader, buffer, shell, screen, marks>>

\* The line of the history the shell now shows.
Recall(h, pos) ==
    /\ history' = h /\ posInHistory' = pos
    /\ buffer' = h[IF pos = -1 THEN Len(h) ELSE pos + 1]
    /\ cursor' = Bytes(buffer')
    /\ screen' = Redrawn(buffer')
    /\ UNCHANGED <<reader, marks>>

\* The history with the line as it has been edited.
Edited == [history EXCEPT ![posInHistory + 1] = buffer]

HistoryUp ==
    /\ Handles(Up) /\ reader = "sh" /\ history # <<>>
    /\ IF posInHistory = -1
       THEN Recall(Append(history, buffer), Len(history) - 1) /\ draft' = buffer
       ELSE /\ Recall(Edited, IF posInHistory > 0 THEN posInHistory - 1 ELSE 0)
            /\ UNCHANGED draft

\* Mutant: stops one line late.
HistoryDownLate ==
    /\ Handles(Down) /\ reader = "sh" /\ history # <<>> /\ posInHistory # -1
    /\ Recall(Edited, IF posInHistory = Len(history) - 1 THEN -1 ELSE posInHistory + 1)
    /\ UNCHANGED draft

\* Behind the last command comes the line that was being typed, which Up has
\* put at the end and which stays there.
HistoryDown ==
    /\ Handles(Down) /\ reader = "sh" /\ history # <<>> /\ posInHistory # -1
    /\ Recall(Edited, IF posInHistory = Len(history) - 2 THEN -1 ELSE posInHistory + 1)
    /\ UNCHANGED draft

NoEffect ==
    /\ \/ \E key \in Ignored : Handles(key)
       \/ (Handles(Up) \/ Handles(Down)) /\ (reader # "sh" \/ history = <<>>)
       \/ Handles(Down) /\ posInHistory = -1
    /\ UNCHANGED <<reader, buffer, cursor, shell, screen, marks>>

IsText == phase = "busy" /\ busy.key \notin Ignored \cup {Up, Down, Right, Left, Enter, Del}

Insert ==
    LET r == Text(busy.key)
    IN  /\ IsText /\ busy.cursor <= Len(buffer)
        /\ Handles(busy.key)
        /\ buffer' = SubSeq(buffer, 1, busy.cursor) \o r \o From(buffer, busy.cursor)
        /\ cursor' = cursor + Len(r)
        /\ screen' = IF Masked THEN screen ELSE TailShown(screen, From(buffer', cursor'))
        /\ UNCHANGED <<reader, shell, marks>>

\* The slice is out of range, and the engine ends with all its nodes.
InsertPanics ==
    /\ IsText /\ busy.cursor > Len(buffer)
    /\ phase' = "dead"
    /\ UNCHANGED <<reader, busy, buffer, cursor, shell, screen, marks>>

-----------------------------------------------------------------------------
(* SIGINT, on the goroutine that scans keystrokes. *)

\* Mutant: the cursor stays.
SigintCursorStays ==
    /\ phase \in {"read", "busy"} /\ reader = "sh"
    /\ buffer' = <<>> /\ posInHistory' = -1
    /\ screen' = Fresh /\ garbled' = FALSE
    /\ raced' = (raced \/ phase = "busy")
    /\ UNCHANGED <<reader, phase, busy, cursor, history, draft, wide>>

\* The shell starts a new line.
SigintShell ==
    /\ phase \in {"read", "busy"} /\ reader = "sh"
    /\ buffer' = <<>> /\ cursor' = 0 /\ posInHistory' = -1
    /\ screen' = Fresh /\ garbled' = FALSE
    /\ raced' = (raced \/ phase = "busy")
    /\ UNCHANGED <<reader, phase, busy, history, draft, wide>>

\* adduser clears the TTY's buffer and ends, and the shell reads again; what the
\* rest of a keystroke under way does to that buffer is not followed.  login
\* ends the connection.
SigintLine ==
    /\ phase \in {"read", "busy"} /\ reader # "sh"
    /\ buffer' = <<>> /\ cursor' = 0
    /\ IF reader \in {"login", "secret"} THEN GoesOn(reader, "closed") ELSE GoesOn("sh", "read")
    /\ screen' = Fresh /\ garbled' = FALSE
    /\ raced' = (raced \/ phase = "busy")
    /\ UNCHANGED <<busy, shell, wide>>

\* Index and buffer read on both sides of the handler do not fit each other, in
\* this keystroke or after what an earlier one has left.
RacePanics ==
    /\ phase = "busy" /\ raced
    /\ phase' = "dead"
    /\ UNCHANGED <<reader, busy, buffer, cursor, shell, screen, marks>>

\* login asks for a name, or for a password, or a shell reads behind its prompt.
EditorInit ==
    /\ \/ reader \in {"login", "secret"} /\ history = <<>>
       \/ reader = "sh" /\ history \in Pasts
    /\ phase = "read" /\ busy = [key |-> <<>>, cursor |-> 0]
    /\ buffer = <<>> /\ cursor = 0
    /\ posInHistory = -1 /\ draft = <<>>
    /\ screen = Fresh
    /\ wide = FALSE /\ raced = FALSE /\ garbled = FALSE

Finish ==
    \/ EnterShell \/ EnterLine \/ Delete \/ MoveRight \/ MoveLeft \/ HistoryUp \/ HistoryDown
    \/ NoEffect \/ Insert \/ InsertPanics \/ RacePanics

Sigint == SigintShell \/ SigintLine
=============================================================================
