------------------------------ MODULE Keyboard ------------------------------
(***************************************************************************)
(* From the keys of the user's terminal to the line a program gets: the    *)
(* client (ClientKeys), the connection, which three scanners of the engine *)
(* read one after the other (engine/server.go, engine/handler.go,          *)
(* computer/handler.go), and the line editors (LineEditor).                *)
(***************************************************************************)
EXTENDS ClientKeys, LineEditor

VARIABLES
    stage,          \* whose scanner reads: "connect" handleConn, "select" handleClient,
                    \* "node" HandleClient; or "closed"
    swallowed       \* a scanner had read messages when it handed the connection on

vars == <<clientVars, editor, stage, swallowed>>

\* A rune beyond ASCII goes by its first byte.
ASSUME KeyboardAssumption == Wide = {Replacement} \cup Leads /\ \A c \in Wides : Len(c) = 3

\* The runes of a message.
Decoded(k) == IF Range(k) \cap Inner = {} THEN k
              ELSE FlattenSeq([n \in DOMAIN k |-> IF k[n] \in Inner THEN <<>> ELSE <<k[n]>>])

\* The bytes b are those of a, but for replacements of such beyond ASCII.
Fits(a, b) ==
    /\ Len(a) = Len(b)
    /\ \A n \in DOMAIN a : b[n] = a[n] \/ (b[n] = Replacement /\ a[n] \in Beyond)

\* A reader has got the message k.
Settled(k) == due' = IF Fits(SubSeq(due, 1, Len(k)), k) THEN From(due, Len(k)) ELSE due

Consume == wire # <<>> /\ wire' = Tail(wire) /\ Settled(Head(wire))

\* Another scanner goes on, without the messages the last had read ahead.
HandOn(next, n) == wire' = From(wire, n) /\ stage' = next

\* handleConn: the client's first message, which has no keystroke.
Connect ==
    /\ stage = "connect"
    /\ \E n \in 0 .. Len(wire) : HandOn("select", n) /\ swallowed' = (n > 0)
    /\ UNCHANGED <<stdin, keystroke, presses, due, dropped, editor>>

\* handleClient: Enter ends the address and hands the connection to the node,
\* or there is none at the address.  Other keys are digits of it, or nothing.
SelectKey ==
    /\ stage = "select" /\ Consume /\ Head(wire) # Enter
    /\ UNCHANGED <<stdin, keystroke, presses, dropped, editor, stage, swallowed>>

SelectNode ==
    /\ stage = "select" /\ wire # <<>> /\ Head(wire) = Enter
    /\ Settled(Enter)
    /\ \E n \in 1 .. Len(wire), next \in {"node", "closed"} :
           HandOn(next, n) /\ swallowed' = (swallowed \/ n > 1)
    /\ UNCHANGED <<stdin, keystroke, presses, dropped, editor>>

\* HandleClient and HandleKeystroke: a Ctrl-C is handled here and now, any
\* other key waits until the reader takes it.
Interrupt ==
    /\ stage = "node" /\ Consume /\ Head(wire) = <<"etx">>
    /\ Sigint
    /\ UNCHANGED <<stdin, keystroke, presses, dropped, stage, swallowed>>

Deliver ==
    /\ stage = "node" /\ Consume /\ Head(wire) # <<"etx">>
    /\ Begin(Decoded(Head(wire)))
    /\ UNCHANGED <<stdin, keystroke, presses, dropped, stage, swallowed>>

\* A client has just connected, or its user has come to the password or a shell.
Init ==
    /\ ClientInit /\ EditorInit
    /\ stage = IF reader = "login" THEN "connect" ELSE "node"
    /\ swallowed = FALSE

Next ==
    \/ phase \in {"read", "busy"} /\ stage # "closed" /\ ClientNext /\ UNCHANGED <<editor, stage, swallowed>>
    \/ Finish /\ UNCHANGED <<clientVars, stage, swallowed>>
    \/ Connect \/ SelectKey \/ SelectNode \/ Interrupt \/ Deliver

Spec == Init /\ [][Next]_vars

-----------------------------------------------------------------------------
(* Properties. *)

\* The editors' variables: whoever is busy has a keystroke, only the shell uses
\* its history, and a row has no column outside the prompt and the text.
TypeOK ==
    /\ phase \in {"read", "busy", "closed", "dead"} /\ reader \in {"sh", "login", "secret", "adduser", "secret2"}
    /\ phase = "busy" => busy.key # <<>>
    /\ reader # "sh" => posInHistory = -1
    /\ cursor \in Nat
    /\ screen.col >= -PROMPT

\* For every byte typed a reader gets one, once and in order, whatever the
\* timeout decides about an escape, unless it came behind an Alt combination or
\* was read ahead by a scanner that gave the connection away.  A byte of ASCII
\* arrives as it is; of a character beyond it, often nothing but U+FFFD does,
\* once for each of its bytes (client/main.go:41-97, client/connection.go:20-22,
\* engine/server.go:34-45, engine/handler.go:39-56).
InOrder == ~dropped /\ ~swallowed => Fits(due, FlattenSeq(wire) \o keystroke \o stdin)

\* The line editor brings the engine down only after a character beyond ASCII,
\* which it counts as one rune here and three bytes there, or when a Ctrl-C
\* overtakes the handling of a key (buffer_logic.go:35, 77, 168-177).
NoPanic == phase = "dead" => wide \/ raced

\* Between keys the row shows the line, with nothing behind it, and the cursor
\* at its place, after every sequence of insertions, deletions, moves and
\* recalled lines that fit into the window: the row has no right margin
\* (buffer_logic.go:20-44, 61-74, 121-123, 181-186, tty.go:134-163, 176-191,
\* 226-233).
ScreenShows ==
    phase = "read" /\ ~Masked /\ ~wide /\ ~raced /\ ~garbled =>
        /\ Len(screen.row) >= Len(buffer) /\ screen.col = cursor
        /\ \A k \in DOMAIN screen.row : screen.row[k] = IF k <= Len(buffer) THEN buffer[k] ELSE Blank

\* While old lines are shown, the line that was being typed is kept at the end
\* of the history, and the position is in front of it, so Down finds the way
\* back (buffer_logic.go:85-162).
DraftKept ==
    ~raced => \/ posInHistory = -1
              \/ posInHistory \in 0 .. (Len(history) - 2) /\ Last(history) = draft

\* The cursor when the keystroke under way has taken effect counts.
Place == IF phase = "busy" THEN busy.cursor ELSE cursor

\* The line up to a place, which could be beyond its end.
UpTo(n) == [k \in 1 .. n |-> IF k <= Len(buffer) THEN buffer[k] ELSE "nothing"]

Countable == ~wide /\ ~raced

\* What can stand in a line.
Pressed  == UNION {Range(k) : k \in Presses}
Recorded == UNION {Range(l) : l \in UNION {Range(h) : h \in Pasts}}
Typable  == {Blank, Replacement} \cup (Pressed \ Inner) \cup Recorded

\* What the key under way asks for.  Between keys only a Ctrl-C does anything.
Asked ==
    CASE phase # "busy" \/ busy.key = Enter -> "clear"
      [] phase = "busy" /\ busy.key \in {Up, Down} -> "recall"
      [] phase = "busy" /\ busy.key \in {Right, Left} -> "move"
      [] phase = "busy" /\ busy.key = Del -> "delete"
      [] OTHER -> "text"

Abstract == INSTANCE LineEdit
    WITH Runes  <- Typable,
         before <- IF Countable THEN UpTo(Place) ELSE <<>>,
         after  <- IF Countable THEN From(buffer, Place) ELSE <<>>,
         sound  <- Countable,
         asked  <- Asked

\* Both editors implement a line with a cursor in it: a key changes the line at
\* the cursor, as it asks for, and nowhere else; only Up and Down replace it,
\* with the cursor at the end, and only Enter and Ctrl-C empty it
\* (buffer_logic.go:11-191, tty.go:124-241).
ImplementsLineEdit == Abstract!Spec
=============================================================================
